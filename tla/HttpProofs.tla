----------------------------- MODULE HttpProofs -----------------------------
(***************************************************************************)
(* Proofs about ResilientHttp for every number of tasks and requests, every *)
(* interval, lifetime and retry budget, and every Retry-After.              *)
(***************************************************************************)
EXTENDS ResilientHttp, TLAPS

-----------------------------------------------------------------------------
(* The inductive invariant.                                                *)

Retriable == {"429", "5xx", "error"}

\* A task under way has a request.
Asked == \A t \in Tasks : pc[t] \in {"queued", "pacing", "sent", "backoff"} => req[t] \in Requests

\* How often a task has sent its request, and how often it was answered, follows from
\* its attempt; all answers before the last one were retriable.
Counted ==
  \A t \in Tasks :
    /\ pc[t] \in {"queued", "pacing"} => sends[t] = attempt[t] /\ Len(answers[t]) = attempt[t]
    /\ pc[t] = "sent" => sends[t] = attempt[t] + 1 /\ Len(answers[t]) = attempt[t]
    /\ pc[t] = "backoff" => /\ attempt[t] < MaxRetries
                            /\ sends[t] = attempt[t] + 1 /\ Len(answers[t]) = attempt[t] + 1
    /\ pc[t] \in {"queued", "pacing", "sent", "backoff"} =>
         /\ outcome[t] = "none"
         /\ \A i \in 1 .. Len(answers[t]) : answers[t][i] \in Retriable

\* What an entry has left and how old its answer is make up at most the TTL, for the
\* clock was read before the request was sent.
Dated ==
  /\ \A q \in Requests : cache[q] # Null => q.method = "GET" /\ cache[q].left + cache[q].age <= Ttl
  /\ \A t \in Tasks : pc[t] = "sent" => age[t] <= begun[t]

\* Since the last send at least the interval has passed once the pacing task's wait is over.
Paced ==
  /\ elapsed <= quiet
  /\ \A t \in Tasks : pc[t] = "pacing" => quiet + wait[t] >= Interval

HttpInv == HttpTypeOK /\ Asked /\ LockConsistent /\ Counted /\ AnswersJustify /\ Dated /\ Paced

LEMMA HttpInvInit == HttpInit => HttpInv
  <1> SUFFICES ASSUME HttpInit PROVE HttpInv
    OBVIOUS
  <1> USE HttpAssumption DEF HttpInit
  <1>1. HttpTypeOK
    BY DEF HttpTypeOK, Outcomes
  <1>2. Asked /\ Counted /\ Dated /\ Paced
    BY DEF Asked, Counted, Dated, Paced
  <1>3. LockConsistent
    BY DEF LockConsistent
  <1>4. AnswersJustify
    <2>1. \A t \in Tasks : answers[t] = <<>> /\ sends[t] = 0 /\ outcome[t] = "none"
      OBVIOUS
    <2>2. 0 <= MaxRetries + 1
      OBVIOUS
    <2>3. \A t \in Tasks : \A i \in 1 .. Len(answers[t]) - 1 : FALSE
      BY <2>1
    <2> QED
      BY ONLY <2>1, <2>2, <2>3 DEF AnswersJustify
  <1> QED
    BY <1>1, <1>2, <1>3, <1>4 DEF HttpInv

-----------------------------------------------------------------------------
(* Type correctness.                                                       *)

\* Every delay is a number.
LEMMA DelaysAreInts ==
  ASSUME HttpTypeOK, NEW t \in Tasks, NEW status \in Statuses
  PROVE  Delays(t, status) \subseteq Int
  <1>1. attempt[t] \in Nat
    BY HttpAssumption DEF HttpTypeOK
  <1>2. 2 ^ attempt[t] \in Int
    BY <1>1
  <1>3. \A after \in RetryAfters : AtMost(after, RetryCap) \in Int
    BY HttpAssumption DEF AtMost
  <1> QED
    BY <1>2, <1>3 DEF Delays

LEMMA TypeStep == HttpInv /\ [HttpNext]_httpVars => HttpTypeOK' /\ Asked'
  <1> SUFFICES ASSUME HttpInv, [HttpNext]_httpVars PROVE HttpTypeOK' /\ Asked'
    OBVIOUS
  <1> USE HttpAssumption DEF HttpInv, HttpTypeOK, Asked, Outcomes
  <1>1. CASE Tick
    <2>1. \A q \in Requests : cache'[q] \in Entry \cup {Null}
      BY <1>1 DEF Tick, Entry, Sooner, Older, AtMost
    <2>2. cache' \in [Requests -> Entry \cup {Null}]
      BY <1>1, <2>1 DEF Tick
    <2>3. elapsed' \in 0 .. Interval /\ quiet' \in 0 .. Interval
      BY <1>1 DEF Tick, Older, AtMost
    <2>4. begun' \in [Tasks -> 0 .. Ttl] /\ age' \in [Tasks -> 0 .. Ttl]
      <3>1. \A n \in 0 .. Ttl : Older(n, Ttl) \in 0 .. Ttl
        BY DEF Older, AtMost
      <3> QED
        BY <1>1, <3>1 DEF Tick
    <2>5. wait' \in [Tasks -> Int]
      BY <1>1 DEF Tick, Sooner
    <2> QED
      BY <1>1, <2>2, <2>3, <2>4, <2>5 DEF Tick
  <1>2. ASSUME NEW t \in Tasks, NEW q \in Requests, Request(t, q)
        PROVE  HttpTypeOK' /\ Asked'
    <2>1. waiters' \in Seq(Tasks)
      <3>1. Append(waiters, t) \in Seq(Tasks)
        OBVIOUS
      <3> QED
        BY <1>2, <3>1 DEF Request
    <2>5. pc' \in [Tasks -> {"idle", "queued", "pacing", "sent", "backoff", "ended"}]
      BY <1>2 DEF Request
    <2>6. outcome' \in [Tasks -> Outcomes]
      BY <1>2 DEF Request
    <2>2. /\ req' \in [Tasks -> Requests \cup {Null}] /\ attempt' \in [Tasks -> 0 .. MaxRetries]
          /\ begun' \in [Tasks -> 0 .. Ttl] /\ sends' \in [Tasks -> Nat]
      BY <1>2 DEF Request
    <2>3. answers' \in [Tasks -> Seq(Statuses)]
      BY <1>2 DEF Request
    <2>4. Asked'
      BY <1>2 DEF Request
    <2> QED
      BY <1>2, <2>1, <2>2, <2>3, <2>4, <2>5, <2>6 DEF Request
  <1>3. ASSUME NEW t \in Tasks, Acquire(t)
        PROVE  HttpTypeOK' /\ Asked'
    <2>1. waiters' \in Seq(Tasks)
      BY <1>3 DEF Acquire, LeaveAsFirst
    <2>2. pc[t] = "queued"
      <3>1. 1 \in DOMAIN waiters /\ waiters[1] = t
        BY <1>3 DEF Acquire, LeaveAsFirst
      <3> QED
        BY <3>1 DEF LockConsistent
    <2> QED
      BY <1>3, <2>1, <2>2 DEF Acquire, history
  <1>4. ASSUME NEW t \in Tasks, Send(t)
        PROVE  HttpTypeOK' /\ Asked'
    <2>1. pc[t] = "pacing" /\ req[t] \in Requests
      BY <1>4 DEF Send
    <2>2. /\ pc' \in [Tasks -> {"idle", "queued", "pacing", "sent", "backoff", "ended"}]
          /\ outcome' \in [Tasks -> Outcomes] /\ holder' \in Tasks \cup {Null}
      BY <1>4 DEF Send
    <2>3. elapsed' \in 0 .. Interval /\ quiet' \in 0 .. Interval
      BY <1>4 DEF Send
    <2>4. age' \in [Tasks -> 0 .. Ttl]
      <3>1. age' = age \/ age' = [age EXCEPT ![t] = 0]
        BY <1>4 DEF Send
      <3>2. age \in [Tasks -> 0 .. Ttl] /\ 0 \in 0 .. Ttl
        OBVIOUS
      <3> QED
        BY ONLY <3>1, <3>2
    <2>6. sends' \in [Tasks -> Nat]
      <3>1. sends' = sends \/ sends' = [sends EXCEPT ![t] = @ + 1]
        BY <1>4 DEF Send
      <3>2. sends \in [Tasks -> Nat]
        OBVIOUS
      <3> QED
        BY ONLY <3>1, <3>2
    <2>5. Asked'
      BY <1>4, <2>1 DEF Send
    <2> QED
      BY <1>4, <2>2, <2>3, <2>4, <2>5, <2>6 DEF Send
  <1>5. ASSUME NEW t \in Tasks, Succeed(t)
        PROVE  HttpTypeOK' /\ Asked'
    <2>1. [left |-> Lifetime(t), age |-> age[t]] \in Entry
      BY DEF Entry, Lifetime
    <2>2. answers' \in [Tasks -> Seq(Statuses)]
      BY <1>5 DEF Succeed, Answer, Statuses
    <2>3. cache' \in [Requests -> Entry \cup {Null}]
      BY <1>5, <2>1 DEF Succeed
    <2> QED
      BY <1>5, <2>2, <2>3 DEF Succeed, Answer, lockVars
  <1>6. ASSUME NEW t \in Tasks, NEW status \in Statuses, BackOff(t, status)
        PROVE  HttpTypeOK' /\ Asked'
    <2>1. wait' \in [Tasks -> Int]
      BY <1>6, DelaysAreInts DEF BackOff
    <2>2. answers' \in [Tasks -> Seq(Statuses)]
      BY <1>6 DEF BackOff, Answer
    <2> QED
      BY <1>6, <2>1, <2>2 DEF BackOff, Answer, lockVars
  <1>7. ASSUME NEW t \in Tasks, NEW status \in Statuses, GiveUp(t, status)
        PROVE  HttpTypeOK' /\ Asked'
    <2>1. answers' \in [Tasks -> Seq(Statuses)]
      BY <1>7 DEF GiveUp, Answer
    <2> QED
      BY <1>7, <2>1 DEF GiveUp, Answer, lockVars
  <1>8. ASSUME NEW t \in Tasks, Retry(t)
        PROVE  HttpTypeOK' /\ Asked'
    <2>1. attempt[t] + 1 \in 0 .. MaxRetries
      BY <1>8 DEF Retry, Counted
    <2>2. waiters' \in Seq(Tasks)
      BY <1>8 DEF Retry
    <2> QED
      BY <1>8, <2>1, <2>2 DEF Retry, history
  <1>9. ASSUME NEW t \in Tasks, Finish(t)
        PROVE  HttpTypeOK' /\ Asked'
    BY <1>9 DEF Finish, lockVars, history
  <1>10. CASE UNCHANGED httpVars
    BY <1>10 DEF httpVars, taskVars, lockVars, history
  <1> QED
    BY <1>1, <1>2, <1>3, <1>4, <1>5, <1>6, <1>7, <1>8, <1>9, <1>10
    DEF HttpNext, Step, Respond

-----------------------------------------------------------------------------
(* The lock and its queue.                                                 *)

\* A task that is not in the queue may be appended to it.
LEMMA QueueGrows ==
  ASSUME NEW t \in Tasks, waiters \in Seq(Tasks), waiters' = Append(waiters, t),
         \A i \in DOMAIN waiters : waiters[i] # t,
         \A i, j \in DOMAIN waiters : waiters[i] = waiters[j] => i = j
  PROVE  /\ \A i, j \in DOMAIN waiters' : waiters'[i] = waiters'[j] => i = j
         /\ \A u : (\E i \in DOMAIN waiters' : waiters'[i] = u)
                    <=> u = t \/ \E i \in DOMAIN waiters : waiters[i] = u
  <1>1. /\ Len(waiters) \in Nat /\ DOMAIN waiters = 1 .. Len(waiters)
        /\ DOMAIN waiters' = 1 .. Len(waiters) + 1
        /\ waiters'[Len(waiters) + 1] = t
        /\ \A i \in 1 .. Len(waiters) : waiters'[i] = waiters[i]
    OBVIOUS
  <1>2. \A i \in 1 .. Len(waiters) + 1 : i \in 1 .. Len(waiters) \/ i = Len(waiters) + 1
    BY <1>1
  <1>3. Len(waiters) + 1 \in DOMAIN waiters'
    BY <1>1
  <1>4. \A i \in DOMAIN waiters : i \in DOMAIN waiters'
    BY <1>1
  <1> QED
    BY <1>1, <1>2, <1>3, <1>4

\* The first of the queue leaves it, and nobody else does.
LEMMA QueueShrinks ==
  ASSUME NEW t \in Tasks, waiters \in Seq(Tasks), LeaveAsFirst(t),
         \A i, j \in DOMAIN waiters : waiters[i] = waiters[j] => i = j
  PROVE  /\ \A i, j \in DOMAIN waiters' : waiters'[i] = waiters'[j] => i = j
         /\ \A u : (\E i \in DOMAIN waiters' : waiters'[i] = u)
                    <=> u # t /\ \E i \in DOMAIN waiters : waiters[i] = u
  <1>1. /\ Len(waiters) \in Nat \ {0} /\ DOMAIN waiters = 1 .. Len(waiters)
        /\ waiters[1] = t
        /\ DOMAIN waiters' = 1 .. Len(waiters) - 1
        /\ \A i \in 1 .. Len(waiters) - 1 : waiters'[i] = waiters[i + 1]
    BY DEF LeaveAsFirst
  <1>2. \A i \in 1 .. Len(waiters) - 1 : i + 1 \in DOMAIN waiters /\ i + 1 # 1
    BY <1>1
  <1>3. \A i \in DOMAIN waiters : i = 1 \/ (i - 1 \in 1 .. Len(waiters) - 1 /\ (i - 1) + 1 = i)
    BY <1>1
  <1>4. 1 \in DOMAIN waiters
    BY <1>1
  <1>5. ASSUME NEW i \in DOMAIN waiters', NEW j \in DOMAIN waiters', waiters'[i] = waiters'[j]
        PROVE  i = j
    <2>1. i + 1 = j + 1
      BY <1>1, <1>2, <1>5
    <2> QED
      BY <1>1, <2>1
  <1>6. ASSUME NEW u, NEW i \in DOMAIN waiters', waiters'[i] = u
        PROVE  u # t /\ \E j \in DOMAIN waiters : waiters[j] = u
    BY <1>1, <1>2, <1>4, <1>6
  <1>7. ASSUME NEW u, u # t, NEW i \in DOMAIN waiters, waiters[i] = u
        PROVE  \E j \in DOMAIN waiters' : waiters'[j] = u
    BY <1>1, <1>3, <1>7
  <1> QED
    BY <1>5, <1>6, <1>7

\* The ways in which a task moves between the places that the lock is about and others.
LEMMA LockMoves ==
  ASSUME HttpTypeOK, LockConsistent, NEW t \in Tasks, NEW at, pc' = [pc EXCEPT ![t] = at],
         \/ pc[t] \notin {"queued", "pacing"} /\ at \notin {"queued", "pacing"}
              /\ UNCHANGED <<holder, waiters>>
         \/ pc[t] \notin {"queued", "pacing"} /\ at = "queued"
              /\ waiters' = Append(waiters, t) /\ UNCHANGED holder
         \/ LeaveAsFirst(t) /\ at = "pacing" /\ holder = Null /\ holder' = t
         \/ pc[t] = "pacing" /\ at \notin {"queued", "pacing"}
              /\ holder' = Null /\ UNCHANGED waiters
  PROVE  LockConsistent'
  <1> DEFINE In(u) == \E i \in DOMAIN waiters : waiters[i] = u
             Once == \A i, j \in DOMAIN waiters : waiters[i] = waiters[j] => i = j
  <1>1. /\ waiters \in Seq(Tasks) /\ Null \notin Tasks
        /\ pc'[t] = at /\ \A u \in Tasks \ {t} : pc'[u] = pc[u]
    BY HttpAssumption DEF HttpTypeOK
  <1>2. /\ \A u \in Tasks : holder = u <=> pc[u] = "pacing"
        /\ \A u \in Tasks : pc[u] = "queued" <=> In(u)
        /\ Once
    BY DEF LockConsistent
  <1>3. SUFFICES /\ \A u \in Tasks : holder' = u <=> pc'[u] = "pacing"
                 /\ \A u \in Tasks : pc'[u] = "queued" <=> In(u)'
                 /\ Once'
    BY DEF LockConsistent
  <1>4. CASE pc[t] \notin {"queued", "pacing"} /\ at \notin {"queued", "pacing"}
               /\ UNCHANGED <<holder, waiters>>
    BY ONLY <1>1, <1>2, <1>4
  <1>5. CASE pc[t] \notin {"queued", "pacing"} /\ at = "queued"
               /\ waiters' = Append(waiters, t) /\ UNCHANGED holder
    <2>1. ~In(t)
      BY ONLY <1>2, <1>5, t \in Tasks
    <2>2. Once' /\ \A u : In(u)' <=> u = t \/ In(u)
      BY <1>1, <1>2, <1>5, <2>1, QueueGrows
    <2> HIDE DEF In, Once
    <2> QED
      BY ONLY <1>1, <1>2, <1>5, <2>2
  <1>6. CASE LeaveAsFirst(t) /\ at = "pacing" /\ holder = Null /\ holder' = t
    <2>1. Once' /\ \A u : In(u)' <=> u # t /\ In(u)
      BY <1>1, <1>2, <1>6, QueueShrinks
    <2> HIDE DEF In, Once
    <2> QED
      BY ONLY <1>1, <1>2, <1>6, <2>1
  <1>7. CASE pc[t] = "pacing" /\ at \notin {"queued", "pacing"}
               /\ holder' = Null /\ UNCHANGED waiters
    <2>1. Once' /\ \A u : In(u)' <=> In(u)
      BY ONLY <1>2, <1>7
    <2> HIDE DEF In, Once
    <2> QED
      BY ONLY <1>1, <1>2, <1>7, <2>1
  <1> QED
    BY <1>4, <1>5, <1>6, <1>7

LEMMA LockStep == HttpInv /\ [HttpNext]_httpVars => LockConsistent'
  <1> SUFFICES ASSUME HttpInv, [HttpNext]_httpVars PROVE LockConsistent'
    OBVIOUS
  <1>0. HttpTypeOK /\ LockConsistent
    BY DEF HttpInv
  <1>1. CASE UNCHANGED <<pc, holder, waiters>>
    BY <1>0, <1>1 DEF LockConsistent
  <1>2. ASSUME NEW t \in Tasks, NEW q \in Requests, Request(t, q)
        PROVE  LockConsistent'
    BY <1>0, <1>2, LockMoves DEF Request
  <1>3. ASSUME NEW t \in Tasks, Acquire(t)
        PROVE  LockConsistent'
    BY <1>0, <1>3, LockMoves DEF Acquire, LockFree
  <1>4. ASSUME NEW t \in Tasks, Send(t)
        PROVE  LockConsistent'
    <2>1. \E at \in {"sent", "ended"} : pc' = [pc EXCEPT ![t] = at]
      BY <1>4 DEF Send
    <2> QED
      BY <1>0, <1>4, <2>1, LockMoves DEF Send
  <1>5. ASSUME NEW t \in Tasks, Respond(t)
        PROVE  LockConsistent'
    <2>1. /\ pc[t] = "sent" /\ UNCHANGED <<holder, waiters>>
          /\ \E at \in {"ended", "backoff"} : pc' = [pc EXCEPT ![t] = at]
      BY <1>5 DEF Respond, Succeed, BackOff, GiveUp, Answer, lockVars
    <2> QED
      BY <1>0, <2>1, LockMoves
  <1>6. ASSUME NEW t \in Tasks, Retry(t)
        PROVE  LockConsistent'
    BY <1>0, <1>6, LockMoves DEF Retry
  <1>7. ASSUME NEW t \in Tasks, Finish(t)
        PROVE  LockConsistent'
    BY <1>0, <1>7, LockMoves DEF Finish, lockVars
  <1> QED
    BY <1>1, <1>2, <1>3, <1>4, <1>5, <1>6, <1>7
    DEF HttpNext, Step, Tick, httpVars, taskVars, lockVars

-----------------------------------------------------------------------------
(* Attempts, sends and answers.                                            *)

LEMMA AnswerTypes ==
  ASSUME HttpTypeOK, NEW t \in Tasks
  PROVE  /\ attempt[t] \in Nat /\ attempt[t] <= MaxRetries /\ MaxRetries \in Nat
         /\ sends[t] \in Nat /\ answers[t] \in Seq(Statuses) /\ Len(answers[t]) \in Nat
  BY HttpAssumption DEF HttpTypeOK

\* One more answer.
LEMMA AnswerAppended ==
  ASSUME HttpTypeOK, NEW t \in Tasks, NEW status \in Statuses, Answer(t, status)
  PROVE  /\ pc[t] = "sent"
         /\ answers' = [answers EXCEPT ![t] = Append(answers[t], status)]
         /\ Len(answers'[t]) = Len(answers[t]) + 1
         /\ answers'[t][Len(answers[t]) + 1] = status
         /\ \A i \in 1 .. Len(answers[t]) : answers'[t][i] = answers[t][i]
  <1>1. answers \in [Tasks -> Seq(Statuses)]
    BY DEF HttpTypeOK
  <1>2. answers'[t] = Append(answers[t], status)
    BY <1>1 DEF Answer
  <1> QED
    BY <1>1, <1>2 DEF Answer

LEMMA CountStep == HttpInv /\ [HttpNext]_httpVars => Counted'
  <1> SUFFICES ASSUME HttpInv, [HttpNext]_httpVars PROVE Counted'
    OBVIOUS
  <1>0. HttpTypeOK /\ LockConsistent /\ Counted
    BY DEF HttpInv
  <1> USE <1>0 DEF HttpTypeOK
  <1>1. CASE UNCHANGED <<pc, attempt, sends, answers, outcome>>
    BY <1>1 DEF Counted
  <1>2. ASSUME NEW t \in Tasks, NEW q \in Requests, Request(t, q)
        PROVE  Counted'
    <2>1. answers'[t] = <<>> /\ sends'[t] = 0 /\ attempt'[t] = 0
      BY <1>2 DEF Request
    <2>2. pc'[t] = "ended" \/ (pc'[t] = "queued" /\ outcome'[t] = "none")
      <3>1. \/ pc' = [pc EXCEPT ![t] = "ended"]
            \/ pc' = [pc EXCEPT ![t] = "queued"] /\ outcome' = [outcome EXCEPT ![t] = "none"]
        BY <1>2 DEF Request
      <3>2. t \in DOMAIN pc /\ t \in DOMAIN outcome
        OBVIOUS
      <3> QED
        BY ONLY <3>1, <3>2
    <2>4. Len(answers'[t]) = 0 /\ \A i \in 1 .. Len(answers'[t]) : FALSE
      BY <2>1
    <2>3. \A u \in Tasks \ {t} : UNCHANGED <<pc[u], attempt[u], sends[u], answers[u], outcome[u]>>
      BY <1>2 DEF Request
    <2> QED
      BY <2>1, <2>2, <2>3, <2>4 DEF Counted
  <1>3. ASSUME NEW t \in Tasks, Acquire(t)
        PROVE  Counted'
    <2>1. pc[t] = "queued"
      <3>1. 1 \in DOMAIN waiters /\ waiters[1] = t
        BY <1>3 DEF Acquire, LeaveAsFirst
      <3> QED
        BY <3>1 DEF LockConsistent
    <2> QED
      BY <1>3, <2>1 DEF Acquire, history, Counted
  <1>4. ASSUME NEW t \in Tasks, Send(t)
        PROVE  Counted'
    <2>1. pc[t] = "pacing" /\ UNCHANGED <<attempt, answers>>
      BY <1>4 DEF Send
    <2>2. \/ pc'[t] = "sent" /\ sends'[t] = sends[t] + 1 /\ UNCHANGED outcome
          \/ pc'[t] = "ended"
      BY <1>4 DEF Send
    <2>3. \A u \in Tasks \ {t} : UNCHANGED <<pc[u], sends[u], outcome[u]>>
      BY <1>4 DEF Send
    <2> QED
      BY <2>1, <2>2, <2>3 DEF Counted
  <1>5. ASSUME NEW t \in Tasks, NEW status \in Statuses, BackOff(t, status)
        PROVE  Counted'
    <2>1. Answer(t, status) /\ status \in Retriable /\ UNCHANGED <<attempt, sends, outcome>>
      BY <1>5 DEF BackOff, Retriable
    <2>2. attempt[t] < MaxRetries
      BY <1>5, AnswerTypes DEF BackOff, Exhausted
    <2>3. pc'[t] = "backoff" /\ \A u \in Tasks \ {t} : UNCHANGED <<pc[u], answers[u]>>
      BY <1>5 DEF BackOff, Answer
    <2>4. \A i \in 1 .. Len(answers'[t]) : answers'[t][i] \in Retriable
      <3>1. \A i \in 1 .. Len(answers[t]) : answers[t][i] \in Retriable
        BY <2>1 DEF Counted, Answer
      <3>2. Len(answers[t]) \in Nat
        BY AnswerTypes
      <3>3. \A i \in 1 .. Len(answers[t]) + 1 : i \in 1 .. Len(answers[t]) \/ i = Len(answers[t]) + 1
        BY ONLY <3>2
      <3>4. /\ Len(answers'[t]) = Len(answers[t]) + 1
            /\ answers'[t][Len(answers[t]) + 1] = status
            /\ \A i \in 1 .. Len(answers[t]) : answers'[t][i] = answers[t][i]
        BY <2>1, AnswerAppended
      <3> QED
        BY ONLY <2>1, <3>1, <3>3, <3>4
    <2>5. /\ sends'[t] = attempt'[t] + 1 /\ Len(answers'[t]) = attempt'[t] + 1
          /\ attempt'[t] < MaxRetries /\ outcome'[t] = "none"
      BY <2>1, <2>2, AnswerAppended DEF Counted
    <2> QED
      BY <2>1, <2>3, <2>4, <2>5 DEF Counted
  <1>6. ASSUME NEW t \in Tasks, Succeed(t) \/ \E status \in Statuses : GiveUp(t, status)
        PROVE  Counted'
    <2>1. /\ pc'[t] = "ended"
          /\ \A u \in Tasks \ {t} : UNCHANGED <<pc[u], attempt[u], sends[u], answers[u], outcome[u]>>
      BY <1>6 DEF Succeed, GiveUp, Answer
    <2> QED
      BY <2>1 DEF Counted
  <1>7. ASSUME NEW t \in Tasks, Retry(t)
        PROVE  Counted'
    <2>1. pc[t] = "backoff" /\ pc'[t] = "queued" /\ attempt'[t] = attempt[t] + 1
      BY <1>7 DEF Retry
    <2>2. /\ UNCHANGED <<sends, answers, outcome>>
          /\ \A u \in Tasks \ {t} : UNCHANGED <<pc[u], attempt[u]>>
      BY <1>7 DEF Retry, history
    <2> QED
      BY <2>1, <2>2 DEF Counted
  <1>8. ASSUME NEW t \in Tasks, Finish(t)
        PROVE  Counted'
    BY <1>8 DEF Finish, history, Counted
  <1> QED
    BY <1>1, <1>2, <1>3, <1>4, <1>5, <1>6, <1>7, <1>8
    DEF HttpNext, Step, Respond, Tick, httpVars, taskVars, history

\* AnswersJustify for one task, of its sends, answers and outcome.
Justified(sent, replies, end) ==
  /\ sent <= MaxRetries + 1
  /\ \A i \in 1 .. Len(replies) - 1 : replies[i] \in Retriable
  /\ end = "rate_limited" => Len(replies) = MaxRetries + 1 /\ replies[MaxRetries + 1] = "429"
  /\ end = "unavailable" =>
       /\ Len(replies) > 0
       /\ \/ replies[Len(replies)] = "4xx"
          \/ Len(replies) = MaxRetries + 1 /\ replies[Len(replies)] \in {"5xx", "error"}

LEMMA JustifiedTasks == AnswersJustify => \A t \in Tasks : Justified(sends[t], answers[t], outcome[t])
  BY DEF AnswersJustify, Justified, Retriable

\* The answer that a request ends with, after retriable ones.
LEMMA LastAnswer ==
  ASSUME HttpTypeOK, Counted, NEW t \in Tasks, NEW status \in Statuses, Answer(t, status)
  PROVE  /\ sends[t] <= MaxRetries + 1
         /\ Len(answers'[t]) = attempt[t] + 1
         /\ answers'[t][attempt[t] + 1] = status
         /\ \A i \in 1 .. Len(answers'[t]) - 1 : answers'[t][i] \in Retriable
  <1>1. /\ sends[t] = attempt[t] + 1 /\ Len(answers[t]) = attempt[t]
        /\ \A i \in 1 .. Len(answers[t]) : answers[t][i] \in Retriable
    BY DEF Counted, Answer
  <1>2. attempt[t] \in Nat /\ attempt[t] <= MaxRetries /\ MaxRetries \in Nat
    BY AnswerTypes
  <1>3. /\ Len(answers'[t]) = Len(answers[t]) + 1
        /\ answers'[t][Len(answers[t]) + 1] = status
        /\ \A i \in 1 .. Len(answers[t]) : answers'[t][i] = answers[t][i]
    BY AnswerAppended
  <1>4. \A i \in 1 .. Len(answers'[t]) - 1 : i \in 1 .. Len(answers[t])
    BY ONLY <1>1, <1>2, <1>3
  <1>5. sends[t] <= MaxRetries + 1
    BY ONLY <1>1, <1>2
  <1>6. Len(answers'[t]) = attempt[t] + 1 /\ answers'[t][attempt[t] + 1] = status
    BY ONLY <1>1, <1>3
  <1>7. \A i \in 1 .. Len(answers'[t]) - 1 : answers'[t][i] \in Retriable
    BY ONLY <1>1, <1>3, <1>4
  <1> QED
    BY ONLY <1>5, <1>6, <1>7

LEMMA JustifyStep == HttpInv /\ [HttpNext]_httpVars => AnswersJustify'
  <1> SUFFICES ASSUME HttpInv, [HttpNext]_httpVars, NEW t \in Tasks
               PROVE  Justified(sends'[t], answers'[t], outcome'[t])
    BY DEF AnswersJustify, Justified, Retriable
  <1>0. HttpTypeOK /\ Counted /\ \A u \in Tasks : Justified(sends[u], answers[u], outcome[u])
    BY JustifiedTasks DEF HttpInv
  <1>00. /\ MaxRetries \in Nat /\ sends \in [Tasks -> Nat]
         /\ answers \in [Tasks -> Seq(Statuses)] /\ outcome \in [Tasks -> Outcomes]
    BY <1>0, HttpAssumption DEF HttpTypeOK
  <1>1. CASE UNCHANGED <<sends[t], answers[t], outcome[t]>>
    BY <1>0, <1>1
  <1>2. ASSUME NEW q \in Requests, Request(t, q)
        PROVE  Justified(sends'[t], answers'[t], outcome'[t])
    <2>1. sends'[t] = 0 /\ answers'[t] = <<>>
      BY <1>00, <1>2 DEF Request
    <2>2. outcome'[t] \in {"response", "none"}
      BY <1>00, <1>2 DEF Request
    <2>3. \A i \in 1 .. Len(<<>>) - 1 : FALSE
      OBVIOUS
    <2> QED
      BY <1>00, <2>1, <2>2, <2>3 DEF Justified
  <1>3. CASE Send(t)
    <2>1. pc[t] = "pacing" /\ outcome[t] = "none" /\ sends[t] + 1 <= MaxRetries + 1 /\ sends[t] \in Nat
      BY <1>0, <1>3, AnswerTypes DEF Send, Counted
    <2>2. answers'[t] = answers[t] /\ sends'[t] \in {sends[t], sends[t] + 1}
      BY <1>00, <1>3 DEF Send
    <2>3. outcome'[t] \in {"none", "runtime_error"}
      BY <1>00, <1>3, <2>1 DEF Send
    <2> QED
      BY <1>0, <1>00, <2>1, <2>2, <2>3 DEF Justified
  <1>4. CASE Succeed(t)
    <2>1. Answer(t, "ok") /\ outcome'[t] = "response" /\ sends'[t] = sends[t]
      BY <1>00, <1>4 DEF Succeed
    <2> QED
      BY <1>0, <2>1, LastAnswer DEF Justified, Statuses
  <1>5. ASSUME NEW status \in Statuses, BackOff(t, status)
        PROVE  Justified(sends'[t], answers'[t], outcome'[t])
    <2>1. Answer(t, status) /\ outcome'[t] = outcome[t] /\ sends'[t] = sends[t]
      BY <1>5 DEF BackOff
    <2>2. outcome[t] = "none"
      BY <1>0, <2>1 DEF Counted, Answer
    <2> QED
      BY <1>0, <2>1, <2>2, LastAnswer DEF Justified
  <1>6. ASSUME NEW status \in Statuses \ {"ok"}, GiveUp(t, status)
        PROVE  Justified(sends'[t], answers'[t], outcome'[t])
    <2>1. /\ Answer(t, status) /\ sends'[t] = sends[t]
          /\ outcome'[t] = IF status = "429" THEN "rate_limited" ELSE "unavailable"
      BY <1>00, <1>6 DEF GiveUp
    <2>2. /\ sends[t] <= MaxRetries + 1
          /\ Len(answers'[t]) = attempt[t] + 1 /\ answers'[t][attempt[t] + 1] = status
          /\ \A i \in 1 .. Len(answers'[t]) - 1 : answers'[t][i] \in Retriable
      BY <1>0, <2>1, LastAnswer
    <2>3. status # "4xx" => attempt[t] = MaxRetries
      BY <1>6 DEF GiveUp, Exhausted, Statuses
    <2>4. attempt[t] \in Nat
      BY <1>0, AnswerTypes
    <2>5. CASE status = "429"
      BY <1>00, <2>1, <2>2, <2>3, <2>4, <2>5 DEF Justified
    <2>6. CASE status # "429"
      BY <1>00, <2>1, <2>2, <2>3, <2>4, <2>6 DEF Justified, Statuses
    <2> QED
      BY <2>5, <2>6
  <1>7. ASSUME NEW u \in Tasks \ {t}, Step(u) \/ \E q \in Requests : Request(u, q)
        PROVE  UNCHANGED <<sends[t], answers[t], outcome[t]>>
    BY <1>00, <1>7
    DEF Step, Request, Acquire, Send, Respond, Succeed, BackOff, GiveUp, Answer, Retry, Finish, history
  <1>8. CASE Acquire(t) \/ Retry(t) \/ Finish(t) \/ Tick \/ UNCHANGED httpVars
    BY <1>1, <1>8 DEF Acquire, Retry, Finish, Tick, httpVars, taskVars, history
  <1> QED
    BY <1>1, <1>2, <1>3, <1>4, <1>5, <1>6, <1>7, <1>8 DEF HttpNext, Step, Respond

-----------------------------------------------------------------------------
(* The cache and the clock.                                                *)

LEMMA DatedStep == HttpInv /\ [HttpNext]_httpVars => Dated'
  <1> SUFFICES ASSUME HttpInv, [HttpNext]_httpVars PROVE Dated'
    OBVIOUS
  <1>0. HttpTypeOK /\ Asked /\ LockConsistent /\ Dated /\ Ttl \in Nat
    BY HttpAssumption DEF HttpInv
  <1>00. /\ pc \in [Tasks -> {"idle", "queued", "pacing", "sent", "backoff", "ended"}]
         /\ age \in [Tasks -> 0 .. Ttl] /\ begun \in [Tasks -> 0 .. Ttl]
         /\ cache \in [Requests -> Entry \cup {Null}]
    BY <1>0 DEF HttpTypeOK
  <1>1. CASE Tick
    <2>1. ASSUME NEW q \in Requests, cache'[q] # Null
          PROVE  q.method = "GET" /\ cache'[q].left + cache'[q].age <= Ttl
      <3>1. /\ cache[q] # Null
            /\ cache'[q] = [left |-> Sooner(cache[q].left), age |-> Older(cache[q].age, Ttl)]
        BY <1>00, <1>1, <2>1 DEF Tick
      <3>2. /\ cache[q].left \in 0 .. Ttl /\ cache[q].age \in 0 .. Ttl
            /\ q.method = "GET" /\ cache[q].left + cache[q].age <= Ttl
        BY <1>0, <1>00, <3>1 DEF Dated, Entry
      <3>3. /\ cache'[q].left = Sooner(cache[q].left)
            /\ cache'[q].age = Older(cache[q].age, Ttl)
        BY <3>1
      <3> QED
        BY <1>0, <3>2, <3>3 DEF Sooner, Older, AtMost
    <2>2. ASSUME NEW t \in Tasks, pc'[t] = "sent"
          PROVE  age'[t] <= begun'[t]
      <3>1. /\ age'[t] = Older(age[t], Ttl) /\ begun'[t] = Older(begun[t], Ttl)
            /\ age[t] <= begun[t]
        BY <1>0, <1>00, <1>1, <2>2 DEF Tick, Dated
      <3>2. age[t] \in 0 .. Ttl /\ begun[t] \in 0 .. Ttl
        BY <1>00
      <3> QED
        BY <1>0, <3>1, <3>2 DEF Older, AtMost
    <2> QED
      BY <2>1, <2>2 DEF Dated
  <1>2. ASSUME NEW t \in Tasks, Send(t)
        PROVE  Dated'
    <2>1. UNCHANGED <<cache, begun>> /\ begun[t] \in 0 .. Ttl
      BY <1>00, <1>2 DEF Send
    <2>2. pc'[t] = "ended" \/ age'[t] = 0
      BY <1>00, <1>2 DEF Send
    <2>3. \A u \in Tasks \ {t} : UNCHANGED <<pc[u], age[u]>>
      BY <1>00, <1>2 DEF Send
    <2> QED
      BY <1>0, <2>1, <2>2, <2>3 DEF Dated
  <1>3. ASSUME NEW t \in Tasks, Succeed(t)
        PROVE  Dated'
    <2>1. /\ UNCHANGED <<age, begun>> /\ pc'[t] = "ended"
          /\ \A u \in Tasks \ {t} : pc'[u] = pc[u]
      BY <1>00, <1>3 DEF Succeed, Answer
    <2>2. /\ age[t] \in 0 .. Ttl /\ begun[t] \in 0 .. Ttl /\ age[t] <= begun[t]
          /\ req[t] \in Requests
      BY <1>0, <1>00, <1>3 DEF Succeed, Answer, Dated, Asked
    <2>3. \/ UNCHANGED cache
          \/ /\ req[t].method = "GET"
             /\ cache' = [cache EXCEPT ![req[t]] = [left |-> Ttl - begun[t], age |-> age[t]]]
      BY <1>3 DEF Succeed, Lifetime
    <2>4. \A q \in Requests : cache'[q] # Null =>
            q.method = "GET" /\ cache'[q].left + cache'[q].age <= Ttl
      BY <1>0, <1>00, <2>2, <2>3 DEF Dated
    <2> QED
      BY <1>0, <2>1, <2>4 DEF Dated
  <1>4. ASSUME NEW t \in Tasks,
               \/ \E q \in Requests : Request(t, q)
               \/ Acquire(t) \/ Retry(t) \/ Finish(t)
               \/ \E status \in Statuses : BackOff(t, status) \/ GiveUp(t, status)
        PROVE  Dated'
    <2>1. UNCHANGED <<cache, age>> /\ pc'[t] # "sent"
      BY <1>00, <1>4 DEF Request, Acquire, Retry, Finish, BackOff, GiveUp, Answer, history
    <2>2. \A u \in Tasks \ {t} : UNCHANGED <<pc[u], begun[u]>>
      BY <1>00, <1>4 DEF Request, Acquire, Retry, Finish, BackOff, GiveUp, Answer
    <2> QED
      BY <1>0, <2>1, <2>2 DEF Dated
  <1>5. CASE UNCHANGED httpVars
    BY <1>0, <1>5 DEF Dated, httpVars, taskVars, history
  <1> QED
    BY <1>1, <1>2, <1>3, <1>4, <1>5 DEF HttpNext, Step, Respond

LEMMA PacedStep == HttpInv /\ [HttpNext]_httpVars => Paced'
  <1> SUFFICES ASSUME HttpInv, [HttpNext]_httpVars PROVE Paced'
    OBVIOUS
  <1>0. HttpTypeOK /\ LockConsistent /\ Paced /\ Interval \in Nat
    BY HttpAssumption DEF HttpInv
  <1>00. /\ pc \in [Tasks -> {"idle", "queued", "pacing", "sent", "backoff", "ended"}]
         /\ wait \in [Tasks -> Int] /\ elapsed \in 0 .. Interval /\ quiet \in 0 .. Interval
    BY <1>0 DEF HttpTypeOK
  <1>1. CASE Tick
    <2>1. elapsed' <= quiet'
      BY <1>0, <1>00, <1>1 DEF Tick, Paced, Older, AtMost
    <2>2. ASSUME NEW t \in Tasks, pc'[t] = "pacing"
          PROVE  quiet' + wait'[t] >= Interval
      <3>1. /\ quiet' = Older(quiet, Interval) /\ wait'[t] = Sooner(wait[t])
            /\ quiet + wait[t] >= Interval /\ wait[t] \in Int
        BY <1>0, <1>00, <1>1, <2>2 DEF Tick, Paced
      <3> QED
        BY <1>0, <1>00, <3>1 DEF Older, Sooner, AtMost
    <2> QED
      BY <2>1, <2>2 DEF Paced
  <1>2. ASSUME NEW t \in Tasks, Acquire(t)
        PROVE  Paced'
    <2>1. /\ UNCHANGED <<elapsed, quiet>> /\ wait'[t] = Interval - elapsed
          /\ \A u \in Tasks \ {t} : UNCHANGED <<pc[u], wait[u]>>
      BY <1>00, <1>2 DEF Acquire, history
    <2> QED
      BY <1>0, <1>00, <2>1 DEF Paced
  <1>3. ASSUME NEW t \in Tasks, Send(t)
        PROVE  Paced'
    <2>1. /\ pc'[t] # "pacing" /\ pc[t] = "pacing"
          /\ \A u \in Tasks \ {t} : pc'[u] = pc[u]
      BY <1>00, <1>3 DEF Send
    <2>2. \A u \in Tasks : pc'[u] # "pacing"
      BY <1>0, <2>1 DEF LockConsistent
    <2>3. elapsed' = 0 /\ quiet' \in {0, quiet}
      BY <1>3 DEF Send
    <2> QED
      BY <1>00, <2>2, <2>3 DEF Paced
  <1>4. ASSUME NEW t \in Tasks,
               \/ \E q \in Requests : Request(t, q)
               \/ Respond(t) \/ Retry(t) \/ Finish(t)
        PROVE  Paced'
    <2>1. UNCHANGED <<elapsed, quiet>> /\ pc'[t] # "pacing"
      BY <1>00, <1>4
      DEF Request, Respond, Succeed, BackOff, GiveUp, Answer, Retry, Finish, lockVars, history
    <2>2. \A u \in Tasks \ {t} : UNCHANGED <<pc[u], wait[u]>>
      BY <1>00, <1>4 DEF Request, Respond, Succeed, BackOff, GiveUp, Answer, Retry, Finish
    <2> QED
      BY <1>0, <2>1, <2>2 DEF Paced
  <1>5. CASE UNCHANGED httpVars
    BY <1>0, <1>5 DEF Paced, httpVars, taskVars, lockVars, history
  <1> QED
    BY <1>1, <1>2, <1>3, <1>4, <1>5 DEF HttpNext, Step

-----------------------------------------------------------------------------
(* The theorems.                                                           *)

LEMMA HttpInvStep == HttpInv /\ [HttpNext]_httpVars => HttpInv'
  BY TypeStep, LockStep, CountStep, JustifyStep, DatedStep, PacedStep DEF HttpInv

\* The invariant holds in every state of the client.
THEOREM HttpInvariant == HttpSpec => []HttpInv
  <1>1. HttpInit => HttpInv
    BY HttpInvInit
  <1>2. HttpInv /\ [HttpNext]_httpVars => HttpInv'
    BY HttpInvStep
  <1> QED
    BY <1>1, <1>2, PTL DEF HttpSpec

\* Whatever the tasks ask for and however the server answers, attempts stay within
\* max_retries, the cached lifetimes within the TTL, and only tasks wait for the lock.
THEOREM HttpTypeCorrect == HttpSpec => []HttpTypeOK
  <1>1. HttpInv => HttpTypeOK
    BY DEF HttpInv
  <1> QED
    BY <1>1, HttpInvariant, PTL

\* _rate_lock is held exactly by the task that paces itself, and a task waits for it
\* once and is not forgotten.
THEOREM LockSound == HttpSpec => []LockConsistent
  <1>1. HttpInv => LockConsistent
    BY DEF HttpInv
  <1> QED
    BY <1>1, HttpInvariant, PTL

\* What _cache serves answers a GET that was sent less than the TTL ago, for any number
\* of overlapping requests, retries and answers that overtake one another.
THEOREM CacheIsFresh == HttpSpec => []CacheFresh
  <1>1. HttpInv => CacheFresh
    <2> SUFFICES ASSUME HttpInv, NEW q \in Requests, Cached(q)
                 PROVE  q.method = "GET" /\ cache[q].age < Ttl
      BY DEF CacheFresh
    <2>1. Ttl \in Nat /\ cache \in [Requests -> Entry \cup {Null}] /\ Dated
      BY HttpAssumption DEF HttpInv, HttpTypeOK
    <2>2. cache[q] # Null /\ cache[q].left > 0
      BY DEF Cached
    <2>3. cache[q].left \in 0 .. Ttl /\ cache[q].age \in 0 .. Ttl
      BY <2>1, <2>2 DEF Entry
    <2> QED
      BY <2>1, <2>2, <2>3 DEF Dated
  <1> QED
    BY <1>1, HttpInvariant, PTL

\* However many times a request is retried, it is sent at most max_retries + 1 times, and
\* the exception that ends it follows from the answers it was given.
THEOREM OutcomesJustified == HttpSpec => []AnswersJustify
  <1>1. HttpInv => AnswersJustify
    BY DEF HttpInv
  <1> QED
    BY <1>1, HttpInvariant, PTL

\* rate_limit_per_second holds for all tasks of a client together, retries included: no
\* request leaves before the interval since the one before it has passed.
THEOREM SendsAreSpaced == HttpSpec => SendsSpaced
  <1>1. HttpInv /\ [HttpNext]_httpVars =>
          [sends' # sends /\ (\E t \in Tasks : sends'[t] > sends[t]) => quiet >= Interval]_httpVars
    <2> SUFFICES ASSUME HttpInv, HttpNext, NEW u \in Tasks, sends'[u] > sends[u]
                 PROVE  quiet >= Interval
      OBVIOUS
    <2>0. /\ HttpTypeOK /\ Paced /\ Interval \in Nat /\ sends[u] \in Nat
          /\ sends \in [Tasks -> Nat] /\ wait \in [Tasks -> Int] /\ quiet \in 0 .. Interval
      BY HttpAssumption DEF HttpInv, HttpTypeOK
    <2>1. ASSUME NEW t \in Tasks, Send(t)
          PROVE  quiet >= Interval
      <3>1. wait[t] <= 0 /\ wait[t] \in Int /\ quiet + wait[t] >= Interval
        BY <2>0, <2>1 DEF Send, Paced
      <3> QED
        BY <2>0, <3>1
    <2>2. ASSUME NEW t \in Tasks, NEW q \in Requests, Request(t, q)
          PROVE  FALSE
      <3>1. sends'[u] \in {0, sends[u]}
        BY <2>0, <2>2 DEF Request
      <3> QED
        BY <2>0, <3>1
    <2>3. ASSUME \/ Tick
                 \/ \E t \in Tasks : Acquire(t) \/ Respond(t) \/ Retry(t) \/ Finish(t)
          PROVE  FALSE
      <3>1. sends' = sends
        BY <2>3 DEF Tick, Acquire, Respond, Succeed, BackOff, GiveUp, Retry, Finish, history
      <3> QED
        BY <2>0, <3>1
    <2> QED
      BY <2>1, <2>2, <2>3 DEF HttpNext, Step
  <1> QED
    BY <1>1, HttpInvariant, PTL DEF HttpSpec, SendsSpaced
=============================================================================

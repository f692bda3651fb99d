---------------------------- MODULE ResilientHttp ----------------------------
(***************************************************************************)
(* ResilientHttpClient of providers/http.py: coroutines (Tasks) of one event *)
(* loop that share one client, its rate limit, its lock and its cache.      *)
(*                                                                         *)
(* Time is what the program reads from time.monotonic(), kept as the ages   *)
(* and remaining waits it computes from it, each capped where it stops      *)
(* mattering; Tick lets one unit pass.  A send is a call of the wrapped     *)
(* httpx client.  httpx, the server and asyncio.Lock (FIFO) are external.   *)
(***************************************************************************)
EXTENDS Integers, Sequences

CONSTANTS Tasks,          \* coroutines that may have a request under way
          Urls,           \* url and params of a request
          Methods,        \* a subset of {"GET", "POST"}
          Null,           \* no task, no request, no cache entry
          Interval,       \* 1 / rate_limit_per_second
          Ttl,            \* cache_ttl_seconds of every caller; 0 disables the cache
          MaxRetries,     \* settings.max_retries
          RetryAfters,    \* numbers a 429 may carry in Retry-After
          RetryCap,       \* the 60.0 of _retry_delay
          Closes          \* may a request be the last of a search, which then closes the
                          \* client?  {TRUE} for the generic adapter; {FALSE} within one search

VARIABLES pc,         \* where each task is
          req,        \* its request: [method, url]
          attempt,    \* the loop variable of _request_with_retries
          begun,      \* time since `now` was read in request(), capped at Ttl
          wait,       \* what is left of the task's sleep
          outcome,    \* how its last request ended
          holder,     \* who holds _rate_lock, or Null
          waiters,    \* the lock's queue
          elapsed,    \* time.monotonic() - _last_request_at, capped at Interval
          cache,      \* _cache: per key the time left to expires_at, and the entry's age
          open,       \* the wrapped client is not closed
          quiet,      \* history: time since the last send, capped at Interval
          age,        \* history: time since the task's last send, capped at Ttl
          sends,      \* history: sends of the task's request
          answers     \* history: what the server answered to the request so far

taskVars == <<pc, req, attempt, begun, wait, outcome>>
lockVars == <<holder, waiters, elapsed>>
history  == <<quiet, age, sends, answers>>
httpVars == <<taskVars, lockVars, cache, open, history>>

ASSUME HttpAssumption ==
  /\ Null \notin Tasks
  /\ Methods \subseteq {"GET", "POST"}
  /\ Interval \in Nat /\ Ttl \in Nat /\ MaxRetries \in Nat /\ RetryCap \in Nat
  /\ RetryAfters \subseteq Int
  /\ Closes \subseteq BOOLEAN

-----------------------------------------------------------------------------

Requests == [method : Methods, url : Urls]
Statuses == {"ok", "429", "5xx", "4xx", "error"}   \* "error": httpx.HTTPError
Outcomes == {"none", "response", "unavailable", "rate_limited", "runtime_error"}
Entry    == [left : 0 .. Ttl, age : 0 .. Ttl]

AtMost(n, bound) == IF n < bound THEN n ELSE bound

HttpTypeOK ==
  /\ pc \in [Tasks -> {"idle", "queued", "pacing", "sent", "backoff", "ended"}]
  /\ req \in [Tasks -> Requests \cup {Null}]
  /\ attempt \in [Tasks -> 0 .. MaxRetries]
  /\ begun \in [Tasks -> 0 .. Ttl]
  /\ wait \in [Tasks -> Int]
  /\ outcome \in [Tasks -> Outcomes]
  /\ holder \in Tasks \cup {Null}
  /\ waiters \in Seq(Tasks)
  /\ elapsed \in 0 .. Interval
  /\ cache \in [Requests -> Entry \cup {Null}]
  /\ open \in BOOLEAN
  /\ quiet \in 0 .. Interval
  /\ age \in [Tasks -> 0 .. Ttl]
  /\ sends \in [Tasks -> Nat]
  /\ answers \in [Tasks -> Seq(Statuses)]

\* _last_request_at starts at 0.0, long before any reading of the clock.
HttpInit ==
  /\ pc = [t \in Tasks |-> "idle"]
  /\ req = [t \in Tasks |-> Null]
  /\ attempt = [t \in Tasks |-> 0]
  /\ begun = [t \in Tasks |-> 0]
  /\ wait = [t \in Tasks |-> 0]
  /\ outcome = [t \in Tasks |-> "none"]
  /\ holder = Null
  /\ waiters = <<>>
  /\ elapsed = Interval
  /\ cache = [q \in Requests |-> Null]
  /\ open = TRUE
  /\ quiet = Interval
  /\ age = [t \in Tasks |-> 0]
  /\ sends = [t \in Tasks |-> 0]
  /\ answers = [t \in Tasks |-> <<>>]

-----------------------------------------------------------------------------

Older(n, bound) == AtMost(n + 1, bound)
Sooner(n) == IF n <= 0 THEN n ELSE n - 1

Tick ==
  /\ elapsed' = Older(elapsed, Interval)
  /\ quiet' = Older(quiet, Interval)
  /\ begun' = [t \in Tasks |-> Older(begun[t], Ttl)]
  /\ age' = [t \in Tasks |-> Older(age[t], Ttl)]
  /\ wait' = [t \in Tasks |-> Sooner(wait[t])]
  /\ cache' = [q \in Requests |->
                 IF cache[q] = Null THEN Null
                 ELSE [left |-> Sooner(cache[q].left), age |-> Older(cache[q].age, Ttl)]]
  /\ UNCHANGED <<pc, req, attempt, outcome, holder, waiters, open, sends, answers>>

Cached(q) == cache[q] # Null /\ cache[q].left > 0

\* request(): the cache look-up, and on a miss the way to the rate lock.
Request(t, q) ==
  /\ pc[t] = "idle"
  /\ req' = [req EXCEPT ![t] = q]
  /\ attempt' = [attempt EXCEPT ![t] = 0]
  /\ begun' = [begun EXCEPT ![t] = 0]
  /\ sends' = [sends EXCEPT ![t] = 0]
  /\ answers' = [answers EXCEPT ![t] = <<>>]
  /\ \/ /\ Cached(q)
        /\ pc' = [pc EXCEPT ![t] = "ended"]
        /\ outcome' = [outcome EXCEPT ![t] = "response"]
        /\ UNCHANGED waiters
     \/ /\ ~Cached(q)
        /\ pc' = [pc EXCEPT ![t] = "queued"]
        /\ outcome' = [outcome EXCEPT ![t] = "none"]
        /\ waiters' = Append(waiters, t)
  /\ UNCHANGED <<wait, holder, elapsed, cache, open, quiet, age>>

\* Defect: the lock does not keep others out.
LockIgnored == TRUE

LockFree == holder = Null

\* Defect: the latest to queue is served first.
LeaveAsLast(t) ==
  /\ waiters # <<>> /\ waiters[Len(waiters)] = t
  /\ waiters' = SubSeq(waiters, 1, Len(waiters) - 1)

LeaveAsFirst(t) ==
  /\ waiters # <<>> /\ Head(waiters) = t
  /\ waiters' = Tail(waiters)

\* async with self._rate_lock, and the sleep for what remains of the interval.
Acquire(t) ==
  /\ LockFree
  /\ LeaveAsFirst(t)
  /\ holder' = t
  /\ wait' = [wait EXCEPT ![t] = Interval - elapsed]
  /\ pc' = [pc EXCEPT ![t] = "pacing"]
  /\ UNCHANGED <<req, attempt, begun, outcome, elapsed, cache, open, history>>

\* The sleep is over: note the time, release the lock and call the client, with no
\* suspension in between.  A closed httpx client raises a RuntimeError.
Send(t) ==
  /\ pc[t] = "pacing"
  /\ wait[t] <= 0
  /\ elapsed' = 0
  /\ holder' = Null
  /\ \/ /\ open
        /\ pc' = [pc EXCEPT ![t] = "sent"]
        /\ quiet' = 0
        /\ age' = [age EXCEPT ![t] = 0]
        /\ sends' = [sends EXCEPT ![t] = @ + 1]
        /\ UNCHANGED outcome
     \/ /\ ~open
        /\ pc' = [pc EXCEPT ![t] = "ended"]
        /\ outcome' = [outcome EXCEPT ![t] = "runtime_error"]
        /\ UNCHANGED <<quiet, age, sends>>
  /\ UNCHANGED <<req, attempt, begun, wait, waiters, cache, open, answers>>

\* Defects: one attempt too many; no retry at all.
ExhaustedLate(t) == attempt[t] > MaxRetries
ExhaustedAtOnce(t) == TRUE

Exhausted(t) == attempt[t] = MaxRetries

\* _retry_delay for a 429, 2 ** attempt for everything else that is retried.  A negative
\* Retry-After passes min() as it is, and asyncio.sleep returns at once.
Delays(t, status) ==
  {2 ^ attempt[t]} \cup
    (IF status = "429" THEN {AtMost(after, RetryCap) : after \in RetryAfters} ELSE {})

Answer(t, status) ==
  /\ pc[t] = "sent"
  /\ answers' = [answers EXCEPT ![t] = Append(@, status)]

\* Defect: the lifetime counts from the answer.
LifetimeFromAnswer(t) == Ttl

Lifetime(t) == Ttl - begun[t]

\* A response below 400 is returned, and kept if it answers a GET.  Its lifetime
\* counts from the reading of the clock at the start of request().
Succeed(t) ==
  /\ Answer(t, "ok")
  /\ pc' = [pc EXCEPT ![t] = "ended"]
  /\ outcome' = [outcome EXCEPT ![t] = "response"]
  /\ cache' = IF req[t].method = "GET" /\ Ttl > 0
                THEN [cache EXCEPT ![req[t]] = [left |-> Lifetime(t), age |-> age[t]]]
                ELSE cache
  /\ UNCHANGED <<req, attempt, begun, wait, lockVars, open, quiet, age, sends>>

\* HTTPError, 429 or 5xx with attempts left: sleep, then go round the loop.
BackOff(t, status) ==
  /\ status \in {"429", "5xx", "error"}
  /\ ~Exhausted(t)
  /\ Answer(t, status)
  /\ \E delay \in Delays(t, status) : wait' = [wait EXCEPT ![t] = delay]
  /\ pc' = [pc EXCEPT ![t] = "backoff"]
  /\ UNCHANGED <<req, attempt, begun, outcome, lockVars, cache, open, quiet, age, sends>>

\* No attempt is left, or the error is the client's own (4xx).
GiveUp(t, status) ==
  /\ status \in {"429", "5xx", "error"} => Exhausted(t)
  /\ Answer(t, status)
  /\ pc' = [pc EXCEPT ![t] = "ended"]
  /\ outcome' = [outcome EXCEPT ![t] = IF status = "429" THEN "rate_limited" ELSE "unavailable"]
  /\ UNCHANGED <<req, attempt, begun, wait, lockVars, cache, open, quiet, age, sends>>

Respond(t) ==
  \/ Succeed(t)
  \/ \E status \in Statuses \ {"ok"} : BackOff(t, status) \/ GiveUp(t, status)

\* Defect: a retry passes by the rate limit.
RetryUnpaced(t) ==
  /\ pc[t] = "backoff"
  /\ wait[t] <= 0
  /\ attempt' = [attempt EXCEPT ![t] = @ + 1]
  /\ pc' = [pc EXCEPT ![t] = "pacing"]
  /\ UNCHANGED <<req, begun, wait, outcome, lockVars, cache, open, history>>

\* The next attempt begins by queueing for the rate lock.
Retry(t) ==
  /\ pc[t] = "backoff"
  /\ wait[t] <= 0
  /\ attempt' = [attempt EXCEPT ![t] = @ + 1]
  /\ waiters' = Append(waiters, t)
  /\ pc' = [pc EXCEPT ![t] = "queued"]
  /\ UNCHANGED <<req, begun, wait, outcome, holder, elapsed, cache, open, history>>

\* The caller takes the response or the exception; the generic adapter closes its
\* client in a finally clause.
Finish(t) ==
  /\ pc[t] = "ended"
  /\ pc' = [pc EXCEPT ![t] = "idle"]
  /\ \E last \in Closes : open' = (open /\ ~last)
  /\ UNCHANGED <<req, attempt, begun, wait, outcome, lockVars, cache, history>>

Step(t) == Acquire(t) \/ Send(t) \/ Respond(t) \/ Retry(t) \/ Finish(t)

HttpNext ==
  \/ Tick
  \/ \E t \in Tasks : Step(t) \/ \E q \in Requests : Request(t, q)

HttpSpec == HttpInit /\ [][HttpNext]_httpVars

\* Time passes, the loop runs every ready task, and httpx ends every call: a
\* request has a timeout, which is an HTTPError.
FairHttpSpec == HttpSpec /\ WF_httpVars(Tick) /\ \A t \in Tasks : WF_httpVars(Step(t))

-----------------------------------------------------------------------------
(* Properties.                                                             *)

\* rate_limit_per_second holds for all tasks together: two sends, first tries or
\* retries, are at least an interval apart.
SendsSpaced == [][sends' # sends /\ (\E t \in Tasks : sends'[t] > sends[t])
                    => quiet >= Interval]_httpVars

\* The lock is held exactly by the task that paces itself, and each queued task
\* waits in the queue once: no wake-up is lost, no task is queued twice.
LockConsistent ==
  /\ \A t \in Tasks : holder = t <=> pc[t] = "pacing"
  /\ \A t \in Tasks : pc[t] = "queued" <=> \E i \in DOMAIN waiters : waiters[i] = t
  /\ \A i, j \in DOMAIN waiters : waiters[i] = waiters[j] => i = j

\* What the cache would serve answers a GET that was sent less than the TTL ago,
\* however long the answer took, how often it was retried, or who overwrote it.
CacheFresh == \A q \in Requests : Cached(q) => q.method = "GET" /\ cache[q].age < Ttl

\* A request is sent at most max_retries + 1 times; ProviderRateLimited means that
\* the last of that many sends was answered 429; every other refusal came after
\* that many sends or on a 4xx; nothing is sent after an answer that settles it.
AnswersJustify ==
  \A t \in Tasks :
    /\ sends[t] <= MaxRetries + 1
    /\ \A i \in 1 .. Len(answers[t]) - 1 : answers[t][i] \in {"429", "5xx", "error"}
    /\ outcome[t] = "rate_limited" =>
         /\ Len(answers[t]) = MaxRetries + 1
         /\ answers[t][MaxRetries + 1] = "429"
    /\ outcome[t] = "unavailable" =>
         LET n == Len(answers[t])
         IN  /\ n > 0
             /\ \/ answers[t][n] = "4xx"
                \/ n = MaxRetries + 1 /\ answers[t][n] \in {"5xx", "error"}

\* Every request ends, whatever the other tasks keep asking for.
RequestsEnd == \A t \in Tasks : pc[t] \in {"queued", "pacing", "sent", "backoff"} ~> pc[t] = "ended"
=============================================================================

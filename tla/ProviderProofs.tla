--------------------------- MODULE ProviderProofs ---------------------------
(***************************************************************************)
(* Proofs about ProviderSearch for any retry budget, rate limit, lifetime of *)
(* cached answers and number of searches.                                   *)
(***************************************************************************)
EXTENDS ProviderSearch, HttpProofs

-----------------------------------------------------------------------------
(* The client.  A provider's steps keep its invariant, a fresh client and   *)
(* one that is abandoned at an await included.                              *)

Free == phase \notin Waiting => pc[Self] = "idle"

HttpStep == Tick \/ Acquire(Self) \/ Send(Self) \/ Respond(Self) \/ Retry(Self)
              \/ \E q \in Requests : Request(Self, q)

LEMMA OneTask == Self \in Tasks /\ Tasks = {Self} /\ Null # Self
  BY HttpAssumption, ProviderAssumption

\* What a search asks for.
Wanted == [method |-> IF phase = "token" THEN "POST" ELSE "GET", url |-> phase]

LEMMA WantedIsRequest == phase \in Waiting => Wanted \in Requests
  BY ProviderAssumption DEF Waiting, Wanted, Requests

LEMMA HttpStepKeeps ==
  ASSUME HttpInv, HttpStep
  PROVE  HttpInv'
  <1>1. HttpNext
    BY OneTask DEF HttpStep, HttpNext, Step
  <1> QED
    BY <1>1, HttpInvStep

\* The lock is free when the task does not wait for it.
LEMMA LockIsFree ==
  ASSUME HttpInv, pc[Self] \notin {"queued", "pacing"}
  PROVE  holder = Null /\ waiters = <<>>
  <1>1. waiters \in Seq(Tasks) /\ holder \in Tasks \cup {Null} /\ LockConsistent
    BY DEF HttpInv, HttpTypeOK
  <1>2. holder = Null
    BY <1>1, OneTask DEF LockConsistent
  <1>3. ASSUME waiters # <<>>
        PROVE  FALSE
    <2>1. 1 \in DOMAIN waiters /\ waiters[1] \in Tasks
      BY <1>1, <1>3
    <2>2. pc[Self] = "queued"
      BY <1>1, <2>1, OneTask DEF LockConsistent
    <2> QED
      BY <2>2
  <1> QED
    BY <1>2, <1>3

\* The task has no request under way any more.
LEMMA TaskIsIdle ==
  ASSUME HttpInv, pc' = [pc EXCEPT ![Self] = "idle"], holder' = Null, waiters' = <<>>,
         UNCHANGED <<req, attempt, begun, wait, outcome, elapsed, cache, history>>,
         open' \in BOOLEAN
  PROVE  HttpInv'
  <1>1. pc'[Self] = "idle" /\ \A t \in Tasks : t = Self
    BY OneTask DEF HttpInv, HttpTypeOK
  <1>2. HttpTypeOK'
    BY OneTask DEF HttpInv, HttpTypeOK, history
  <1>3. Asked' /\ Counted'
    BY <1>1 DEF Asked, Counted
  <1>4. LockConsistent'
    BY <1>1, OneTask DEF LockConsistent
  <1>5. AnswersJustify'
    BY DEF HttpInv, AnswersJustify, history
  <1>6. Dated' /\ Paced'
    BY <1>1 DEF HttpInv, Dated, Paced, history
  <1> QED
    BY <1>2, <1>3, <1>4, <1>5, <1>6 DEF HttpInv

\* A new client: no request is remembered, and none is too recent.
LEMMA NewClient ==
  ASSUME HttpInv, Free, search_ebay
  PROVE  HttpInv'
  <1>1. /\ pc[Self] = "idle" /\ \A t \in Tasks : t = Self
        /\ UNCHANGED <<taskVars, holder, waiters, age, sends, answers>>
        /\ open' = TRUE /\ elapsed' = Interval /\ quiet' = Interval
        /\ cache' = [q \in Requests |-> Null]
    BY OneTask DEF search_ebay, Begin, Free, Waiting
  <1>2. HttpTypeOK'
    BY <1>1, HttpAssumption DEF HttpInv, HttpTypeOK, taskVars
  <1>3. Asked' /\ Counted' /\ AnswersJustify' /\ LockConsistent'
    BY <1>1 DEF HttpInv, Asked, Counted, AnswersJustify, LockConsistent, taskVars
  <1>4. Dated' /\ Paced'
    BY <1>1, HttpAssumption DEF Dated, Paced, taskVars
  <1> QED
    BY <1>2, <1>3, <1>4 DEF HttpInv

\* The steps of a search on its client.
LEMMA ClientSteps ==
  ASSUME HttpInv, Free, [ProviderNext]_providerVars
  PROVE  HttpInv'
  <1>1. CASE Elapse
    BY <1>1, HttpStepKeeps DEF Elapse, HttpStep
  <1>2. CASE Ask
    <2>1. \E q \in Requests : Request(Self, q)
      BY <1>2, WantedIsRequest DEF Ask, Wanted
    <2> QED
      BY <2>1, HttpStepKeeps DEF HttpStep
  <1>3. CASE Work
    BY <1>3, HttpStepKeeps DEF Work, HttpStep
  <1>4. ASSUME NEW body, Took(body), elapsed' = elapsed, open' \in BOOLEAN
        PROVE  HttpInv'
    <2>1. holder = Null /\ waiters = <<>>
      BY <1>4, LockIsFree DEF Took
    <2> QED
      BY <1>4, <2>1, TaskIsIdle DEF Took, history
  <1>5. CASE Granted
    BY <1>4, <1>5 DEF Granted, HttpInv, HttpTypeOK
  <1>6. CASE Conclude
    BY <1>4, <1>6 DEF Conclude, aclose
  <1>7. CASE Cancel
    BY <1>7, TaskIsIdle DEF Cancel, Relinquish, aclose
  <1>8. CASE Refuse \/ search_generic \/ UNCHANGED providerVars
    <2>1. UNCHANGED httpVars
      BY <1>8 DEF Refuse, search_generic, providerVars
    <2> QED
      BY <2>1, HttpInvStep
  <1>9. CASE search_ebay
    BY <1>9, NewClient
  <1> QED
    BY <1>1, <1>2, <1>3, <1>5, <1>6, <1>7, <1>8, <1>9 DEF ProviderNext, Proceed

-----------------------------------------------------------------------------
(* The search.                                                             *)

AnyBody == {"good", "empty", "incompatible", "unreadable"}
Unasked == [sends |-> 0, outcome |-> "none", body |-> Null]
GetListings == [method |-> "GET", url |-> "listings"]

\* A search under way: it has all it needs, its request is the one of its phase, and
\* nothing is on record of an answer to it.  Only a generic provider that was searched
\* before can find its client closed, and then sends nothing.
Underway ==
  phase \in Waiting =>
    /\ missing = {} /\ searches > 0
    /\ pc[Self] # "idle" => req[Self] = Wanted
    /\ trail[phase] = [Unasked EXCEPT !.sends = IF pc[Self] = "idle" THEN 0 ELSE sends[Self]]
    /\ phase = "token" => kind = "ebay" /\ trail["listings"] = Unasked
    /\ phase = "listings" /\ kind = "ebay" => trail["token"].body = "good"
    /\ ~open => /\ kind = "generic" /\ searches > 1
                /\ pc[Self] # "idle" => sends[Self] = 0

\* How the request ended, before the search takes notice.
Settled ==
  pc[Self] = "ended" =>
    /\ outcome[Self] # "none"
    /\ outcome[Self] = "unavailable" => sends[Self] > 0
    /\ outcome[Self] = "runtime_error" => ~open
    /\ outcome[Self] = "response" /\ sends[Self] = 0 => phase = "listings" /\ stored # Null

\* The body of a cached response is known, except to a search that has just got it.
StoredKnown ==
  phase # "cancelled" /\ cache[GetListings] # Null =>
    \/ stored # Null
    \/ phase = "listings" /\ pc[Self] = "ended" /\ outcome[Self] = "response" /\ sends[Self] > 0

OpenAtFirst == searches = 0 => open

Trails == [Waiting -> [sends : 0 .. MaxRetries + 1, outcome : Outcomes, body : AnyBody \cup {Null}]]

ProviderInv ==
  /\ HttpInv /\ Free /\ SearchTypeOK /\ trail \in Trails
  /\ Underway /\ Settled /\ StoredKnown /\ OpenAtFirst
  /\ ClientReleased /\ StatusJustified

LEMMA BodiesDiffer ==
  /\ Null \notin AnyBody /\ Null \notin ProviderStatus
  /\ Bodies["token"] = {"good", "empty", "incompatible"}
  /\ Bodies["listings"] = {"good", "incompatible", "unreadable"}
  /\ \A r \in Waiting : Bodies[r] \subseteq AnyBody
  BY ProviderAssumption DEF Bodies, AnyBody, Waiting

LEMMA GetListingsIsRequest == GetListings \in Requests
  BY ProviderAssumption DEF GetListings, Requests

LEMMA ProviderInvInit == ProviderInit => ProviderInv
  <1> SUFFICES ASSUME ProviderInit PROVE ProviderInv
    OBVIOUS
  <1>1. HttpInv /\ pc[Self] = "idle" /\ open /\ phase = "idle"
    BY HttpInvInit, OneTask DEF ProviderInit, HttpInit
  <1>2. trail = [r \in Waiting |-> Unasked] /\ MaxRetries \in Nat
    BY HttpAssumption DEF ProviderInit, NoTrail, Unasked
  <1>3. trail \in Trails
    BY <1>2 DEF Trails, Unasked, Outcomes
  <1>4. SearchTypeOK
    BY <1>1, <1>2, ProviderAssumption
    DEF ProviderInit, SearchTypeOK, HttpInv, Unasked, Outcomes, Waiting
  <1>5. StoredKnown
    BY GetListingsIsRequest DEF ProviderInit, HttpInit, StoredKnown
  <1> QED
    BY <1>1, <1>3, <1>4, <1>5
    DEF ProviderInv, Free, Underway, Settled, OpenAtFirst, ClientReleased, StatusJustified, Waiting

\* Waiting for time to pass changes nothing but the ages.
LEMMA ElapseStep ==
  ASSUME ProviderInv, HttpInv', Elapse
  PROVE  ProviderInv'
  <1>1. UNCHANGED <<pc, req, outcome, holder, waiters, open, sends>> /\ UNCHANGED searchVars
    BY DEF Elapse, Tick
  <1>2. cache'[GetListings] # Null => cache[GetListings] # Null
    BY GetListingsIsRequest DEF Elapse, Tick
  <1> QED
    BY <1>1, <1>2
    DEF ProviderInv, Free, SearchTypeOK, HttpInv, Underway, Settled, StoredKnown, OpenAtFirst,
        ClientReleased, StatusJustified, Trails, Wanted, searchVars

\* A search begins, or is refused.
LEMMA BeginStep ==
  ASSUME ProviderInv, HttpInv', Refuse \/ search_ebay \/ search_generic
  PROVE  ProviderInv'
  <1>1. /\ phase \in {"idle", "ended"} /\ pc[Self] = "idle" /\ pc' = pc
        /\ searches \in 0 .. MaxSearches /\ searches' = searches + 1 /\ searches' \in 1 .. MaxSearches
        /\ UNCHANGED <<kind, missing>>
    BY ProviderAssumption
    DEF Refuse, search_ebay, search_generic, Begin, ProviderInv, Free, SearchTypeOK, Waiting,
        httpVars, taskVars
  <1>2. trail' = [r \in Waiting |-> Unasked] /\ MaxRetries \in Nat
    BY HttpAssumption DEF Refuse, search_ebay, search_generic, Begin, NoTrail, Unasked
  <1>3. trail' \in Trails
    BY <1>2 DEF Trails, Unasked, Outcomes
  <1>4. \/ /\ missing # {} /\ phase' = "ended" /\ status' = "unavailable"
           /\ UNCHANGED <<stored, cache, open>>
        \/ /\ missing = {} /\ kind = "ebay" /\ phase' = "token" /\ status' = Null
           /\ stored' = Null /\ open' = TRUE /\ cache' = [q \in Requests |-> Null]
        \/ /\ missing = {} /\ kind = "generic" /\ phase' = "listings" /\ status' = Null
           /\ UNCHANGED <<stored, cache, open>>
    BY DEF Refuse, search_ebay, search_generic, httpVars
  <1>5. SearchTypeOK'
    <2>1. /\ kind' \in Kinds /\ missing' \subseteq Needs[kind'] /\ HttpTypeOK'
          /\ searches' \in 0 .. MaxSearches /\ stored' \in Bodies.listings \cup {Null}
      BY <1>1, <1>4 DEF ProviderInv, SearchTypeOK, HttpInv
    <2>2. /\ phase' \in {"idle", "ended", "cancelled"} \cup Waiting
          /\ status' \in ProviderStatus \cup {Null}
          /\ status' = Null <=> phase' # "ended"
      BY <1>4, BodiesDiffer DEF ProviderStatus, Waiting
    <2> QED
      BY <1>2, <2>1, <2>2 DEF SearchTypeOK, Unasked, Outcomes, Waiting
  <1>6. Free' /\ Settled'
    BY <1>1, <1>4 DEF Free, Settled, Waiting
  <1>7. StoredKnown'
    BY <1>1, <1>4, GetListingsIsRequest DEF ProviderInv, StoredKnown
  <1>8. OpenAtFirst' /\ ClientReleased'
    BY <1>1, <1>4 DEF OpenAtFirst, ClientReleased
  <1>9. Underway'
    BY <1>1, <1>2, <1>4 DEF ProviderInv, OpenAtFirst, Underway, Waiting, Unasked
  <1>10. StatusJustified'
    BY <1>1, <1>2, <1>4, BodiesDiffer DEF StatusJustified, Unasked, NoTrail, AnyBody, Waiting
  <1> QED
    BY <1>3, <1>5, <1>6, <1>7, <1>8, <1>9, <1>10 DEF ProviderInv

\* The request of the phase goes to the client, which may have the answer.
LEMMA AskStep ==
  ASSUME ProviderInv, HttpInv', Ask
  PROVE  ProviderInv'
  <1>1. /\ phase \in Waiting /\ Wanted \in Requests /\ Request(Self, Wanted)
        /\ UNCHANGED searchVars
    BY WantedIsRequest DEF Ask, Wanted
  <1>2. /\ pc[Self] = "idle" /\ req'[Self] = Wanted /\ sends'[Self] = 0
        /\ UNCHANGED <<cache, open>>
    BY <1>1, OneTask DEF Request, ProviderInv, HttpInv, HttpTypeOK
  <1>3. \/ pc'[Self] = "queued"
        \/ pc'[Self] = "ended" /\ outcome'[Self] = "response" /\ cache[Wanted] # Null
    BY <1>1, OneTask DEF Request, Cached, ProviderInv, HttpInv, HttpTypeOK
  <1>4. cache[Wanted] # Null => phase = "listings" /\ stored # Null
    <2>1. cache[Wanted] # Null => Wanted.method = "GET"
      BY <1>1 DEF ProviderInv, HttpInv, Dated
    <2>2. cache[Wanted] # Null => phase = "listings" /\ Wanted = GetListings
      BY <1>1, <2>1 DEF Wanted, Waiting, GetListings
    <2> QED
      BY <1>2, <2>2 DEF ProviderInv, StoredKnown
  <1>5. Free' /\ Settled' /\ StoredKnown' /\ OpenAtFirst'
    BY <1>1, <1>2, <1>3, <1>4
    DEF ProviderInv, Free, Settled, StoredKnown, OpenAtFirst, searchVars
  <1>6. Underway'
    BY <1>1, <1>2, <1>3 DEF ProviderInv, Underway, Wanted, Unasked, searchVars
  <1>7. SearchTypeOK' /\ trail' \in Trails
    BY <1>1 DEF ProviderInv, SearchTypeOK, HttpInv, Trails, searchVars
  <1>8. ClientReleased' /\ StatusJustified'
    BY <1>1 DEF ClientReleased, StatusJustified, Waiting, searchVars
  <1> QED
    BY <1>5, <1>6, <1>7, <1>8 DEF ProviderInv

\* What the client does about a request under way.
LEMMA ClientAtWork ==
  ASSUME HttpInv, Acquire(Self) \/ Send(Self) \/ Respond(Self) \/ Retry(Self)
  PROVE  /\ pc[Self] \notin {"idle", "ended"} /\ pc'[Self] # "idle"
         /\ UNCHANGED <<req, open>>
         /\ sends'[Self] = sends[Self] \/ open
         /\ \/ pc'[Self] # "ended" /\ cache' = cache
            \/ outcome'[Self] = "runtime_error" /\ ~open /\ cache' = cache
            \/ /\ sends'[Self] > 0 /\ outcome'[Self] \in {"unavailable", "rate_limited"}
               /\ cache' = cache
            \/ /\ pc'[Self] = "ended" /\ sends'[Self] > 0 /\ outcome'[Self] = "response"
               /\ req[Self].method # "GET" => cache' = cache
  <1> USE OneTask DEF HttpInv, HttpTypeOK
  <1>1. CASE Acquire(Self)
    <2>1. pc[Self] = "queued"
      <3>1. 1 \in DOMAIN waiters /\ waiters[1] = Self
        BY <1>1 DEF Acquire, LeaveAsFirst
      <3> QED
        BY <3>1 DEF LockConsistent
    <2> QED
      BY <1>1, <2>1 DEF Acquire, history
  <1>2. CASE Send(Self)
    BY <1>2 DEF Send
  <1>3. CASE Succeed(Self)
    <2>1. pc[Self] = "sent" /\ sends' = sends /\ sends[Self] = attempt[Self] + 1
      BY <1>3 DEF Succeed, Answer, Counted
    <2>2. sends'[Self] > 0
      BY <2>1, HttpAssumption
    <2> QED
      BY <1>3, <2>1, <2>2 DEF Succeed
  <1>4. ASSUME NEW s \in Statuses, BackOff(Self, s)
        PROVE  /\ pc[Self] = "sent" /\ pc'[Self] = "backoff"
               /\ UNCHANGED <<req, open, sends, cache>>
    BY <1>4 DEF BackOff, Answer
  <1>5. ASSUME NEW s \in Statuses, GiveUp(Self, s)
        PROVE  /\ pc[Self] = "sent" /\ pc'[Self] = "ended"
               /\ UNCHANGED <<req, open, sends, cache>>
               /\ sends'[Self] > 0 /\ outcome'[Self] \in {"unavailable", "rate_limited"}
    <2>1. pc[Self] = "sent" /\ sends' = sends /\ sends[Self] = attempt[Self] + 1
      BY <1>5 DEF GiveUp, Answer, Counted
    <2>2. sends'[Self] > 0
      BY <2>1, HttpAssumption
    <2> QED
      BY <1>5, <2>1, <2>2 DEF GiveUp
  <1>6. CASE Retry(Self)
    BY <1>6 DEF Retry, history
  <1> QED
    BY <1>1, <1>2, <1>3, <1>4, <1>5, <1>6 DEF Respond

LEMMA WorkStep ==
  ASSUME ProviderInv, HttpInv', Work
  PROVE  ProviderInv'
  <1>1. /\ pc[Self] \notin {"idle", "ended"} /\ pc'[Self] # "idle"
        /\ UNCHANGED <<req, open>>
        /\ sends'[Self] = sends[Self] \/ open
        /\ \/ pc'[Self] # "ended" /\ cache' = cache
           \/ outcome'[Self] = "runtime_error" /\ ~open /\ cache' = cache
           \/ /\ sends'[Self] > 0 /\ outcome'[Self] \in {"unavailable", "rate_limited"}
              /\ cache' = cache
           \/ /\ pc'[Self] = "ended" /\ sends'[Self] > 0 /\ outcome'[Self] = "response"
              /\ req[Self].method # "GET" => cache' = cache
    BY ClientAtWork DEF Work, ProviderInv
  <1>2. /\ phase \in Waiting /\ UNCHANGED <<kind, missing, phase, status, searches, stored>>
        /\ trail' = [trail EXCEPT ![phase].sends = sends'[Self]]
    BY DEF Work
  <1>3. sends'[Self] \in 0 .. MaxRetries + 1
    BY OneTask, HttpAssumption DEF HttpInv, HttpTypeOK, AnswersJustify
  <1>4. trail \in Trails /\ trail' \in Trails
    BY <1>2, <1>3 DEF ProviderInv, Trails
  <1>5. /\ trail'[phase] = [trail[phase] EXCEPT !.sends = sends'[Self]]
        /\ \A r \in Waiting : r # phase => trail'[r] = trail[r]
    BY <1>2, <1>4 DEF Trails
  <1>6. SearchTypeOK'
    <2>1. \A r \in Waiting : /\ trail'[r].sends \in 0 .. MaxRetries + 1
                             /\ trail'[r].outcome \in Outcomes
                             /\ trail'[r].body \in Bodies[r] \cup {Null}
      BY <1>2, <1>3, <1>4, <1>5 DEF ProviderInv, SearchTypeOK, Trails
    <2> QED
      BY <1>2, <2>1 DEF ProviderInv, SearchTypeOK, HttpInv
  <1>7. Free' /\ OpenAtFirst' /\ ClientReleased' /\ StatusJustified'
    BY <1>1, <1>2
    DEF ProviderInv, Free, OpenAtFirst, ClientReleased, StatusJustified, Waiting
  <1>8. Settled'
    BY <1>1 DEF Settled
  <1>9. StoredKnown'
    BY <1>1, <1>2 DEF ProviderInv, Underway, Wanted, StoredKnown, Waiting
  <1>10. Underway'
    <2>1. trail'[phase] = [Unasked EXCEPT !.sends = sends'[Self]]
      BY <1>1, <1>2, <1>5 DEF ProviderInv, Underway, Unasked
    <2>2. /\ phase = "token" => trail'["listings"] = trail["listings"]
          /\ phase = "listings" => trail'["token"] = trail["token"]
      BY <1>5 DEF Waiting
    <2>3. ~open => sends'[Self] = 0
      BY <1>1, <1>2 DEF ProviderInv, Underway
    <2> QED
      BY <1>1, <1>2, <2>1, <2>2, <2>3 DEF ProviderInv, Underway, Wanted
  <1> QED
    BY <1>4, <1>6, <1>7, <1>8, <1>9, <1>10 DEF ProviderInv

\* The search takes what its request brought.
LEMMA TookFacts ==
  ASSUME ProviderInv, phase \in Waiting, NEW body, Took(body)
  PROVE  /\ pc[Self] = "ended" /\ pc'[Self] = "idle"
         /\ holder = Null /\ waiters = <<>>
         /\ UNCHANGED <<kind, missing, searches, holder, waiters, cache>>
         /\ body = Null <=> outcome[Self] # "response"
         /\ body # Null => body \in Bodies[phase]
         /\ trail'[phase] = [sends |-> sends[Self], outcome |-> outcome[Self], body |-> body]
         /\ \A r \in Waiting : r # phase => trail'[r] = trail[r]
         /\ trail' \in Trails
         /\ stored' = IF phase = "listings" /\ body # Null THEN body ELSE stored
  <1>1. /\ pc[Self] = "ended" /\ pc'[Self] = "idle"
        /\ UNCHANGED <<kind, missing, searches, holder, waiters, cache>>
        /\ stored' = IF phase = "listings" /\ body # Null THEN body ELSE stored
    BY OneTask DEF Took, ProviderInv, HttpInv, HttpTypeOK
  <1>2. holder = Null /\ waiters = <<>>
    BY <1>1, LockIsFree DEF ProviderInv
  <1>3. (body = Null <=> outcome[Self] # "response") /\ (body # Null => body \in Bodies[phase])
    <2>1. CASE outcome[Self] # "response"
      BY <2>1 DEF Took
    <2>2. CASE outcome[Self] = "response" /\ sends[Self] = 0
      <3>1. body = stored /\ phase = "listings" /\ stored # Null
        BY <1>1, <2>2 DEF Took, ProviderInv, Settled
      <3> QED
        BY <2>2, <3>1 DEF ProviderInv, SearchTypeOK, Bodies
    <2>3. CASE outcome[Self] = "response" /\ sends[Self] # 0
      BY <2>3, BodiesDiffer DEF Took
    <2> QED
      BY <2>1, <2>2, <2>3
  <1>4. trail[phase] = [Unasked EXCEPT !.sends = sends[Self]]
    BY <1>1 DEF ProviderInv, Underway
  <1>5. trail' = [trail EXCEPT ![phase].outcome = outcome[Self], ![phase].body = body]
    BY DEF Took
  <1>6. /\ trail'[phase] = [sends |-> sends[Self], outcome |-> outcome[Self], body |-> body]
        /\ \A r \in Waiting : r # phase => trail'[r] = trail[r]
    BY <1>4, <1>5 DEF ProviderInv, Trails, Unasked
  <1>7. trail' \in Trails
    <2>1. outcome[Self] \in Outcomes /\ body \in AnyBody \cup {Null}
      BY <1>3, OneTask, BodiesDiffer DEF ProviderInv, HttpInv, HttpTypeOK
    <2> QED
      BY <1>5, <2>1 DEF ProviderInv, Trails
  <1> QED
    BY <1>1, <1>2, <1>3, <1>6, <1>7

\* What a request has brought leaves the types of the record, and the cached body, sound.
LEMMA TookKeeps ==
  ASSUME ProviderInv, HttpInv', phase \in Waiting, NEW body, Took(body),
         phase' \in {"listings", "ended"}, status' \in ProviderStatus \cup {Null},
         status' = Null <=> phase' # "ended"
  PROVE  SearchTypeOK' /\ Free' /\ Settled' /\ StoredKnown' /\ OpenAtFirst'
  <1>1. /\ pc[Self] = "ended" /\ pc'[Self] = "idle"
        /\ UNCHANGED <<kind, missing, searches, cache>>
        /\ body = Null <=> outcome[Self] # "response"
        /\ body # Null => body \in Bodies[phase]
        /\ trail'[phase] = [sends |-> sends[Self], outcome |-> outcome[Self], body |-> body]
        /\ \A r \in Waiting : r # phase => trail'[r] = trail[r]
        /\ trail' \in Trails
        /\ stored' = IF phase = "listings" /\ body # Null THEN body ELSE stored
    BY TookFacts
  <1>2. stored' \in Bodies.listings \cup {Null}
    BY <1>1 DEF ProviderInv, SearchTypeOK, Bodies
  <1>3. ASSUME NEW r \in Waiting
        PROVE  /\ trail'[r].sends \in 0 .. MaxRetries + 1
               /\ trail'[r].outcome \in Outcomes
               /\ trail'[r].body \in Bodies[r] \cup {Null}
    <2>1. trail'[r].sends \in 0 .. MaxRetries + 1 /\ trail'[r].outcome \in Outcomes
      BY <1>1 DEF Trails
    <2>2. trail'[r].body \in Bodies[r] \cup {Null}
      BY <1>1 DEF ProviderInv, SearchTypeOK
    <2> QED
      BY <2>1, <2>2
  <1>4. SearchTypeOK'
    BY <1>1, <1>2, <1>3 DEF ProviderInv, SearchTypeOK, HttpInv, Waiting
  <1>5. Free' /\ Settled'
    BY <1>1 DEF Free, Settled
  <1>6. StoredKnown'
    <2>1. CASE phase = "listings" /\ body # Null
      <3>1. stored' # Null
        BY <1>1, <2>1
      <3> QED
        BY <3>1 DEF StoredKnown
    <2>2. CASE ~(phase = "listings" /\ body # Null)
      <3>1. stored' = stored /\ (phase = "listings" => outcome[Self] # "response")
        BY <1>1, <2>2
      <3>2. cache[GetListings] # Null => stored # Null
        BY <3>1 DEF ProviderInv, StoredKnown, Waiting
      <3> QED
        BY <1>1, <3>1, <3>2 DEF StoredKnown
    <2> QED
      BY <2>1, <2>2
  <1>7. OpenAtFirst'
    BY <1>1 DEF ProviderInv, Underway, OpenAtFirst
  <1> QED
    BY <1>4, <1>5, <1>6, <1>7

LEMMA GrantedStep ==
  ASSUME ProviderInv, HttpInv', Granted
  PROVE  ProviderInv'
  <1>1. /\ phase = "token" /\ phase' = "listings" /\ phase \in Waiting
        /\ Took("good") /\ UNCHANGED <<status, open>>
    BY DEF Granted, Waiting
  <1>2. /\ pc[Self] = "ended" /\ pc'[Self] = "idle"
        /\ UNCHANGED <<kind, missing, searches>>
        /\ trail'["token"].body = "good" /\ trail'["listings"] = trail["listings"]
        /\ trail' \in Trails
    <2>1. /\ pc[Self] = "ended" /\ pc'[Self] = "idle"
          /\ UNCHANGED <<kind, missing, searches>>
          /\ trail'[phase] = [sends |-> sends[Self], outcome |-> outcome[Self], body |-> "good"]
          /\ \A r \in Waiting : r # phase => trail'[r] = trail[r]
          /\ trail' \in Trails
      BY <1>1, TookFacts
    <2> QED
      BY <1>1, <2>1 DEF Waiting
  <1>3. status' = Null
    BY <1>1 DEF ProviderInv, SearchTypeOK
  <1>4. SearchTypeOK' /\ Free' /\ Settled' /\ StoredKnown' /\ OpenAtFirst'
    BY <1>1, <1>3, TookKeeps
  <1>5. Underway'
    BY <1>1, <1>2 DEF ProviderInv, Underway, Unasked
  <1>6. ClientReleased' /\ StatusJustified'
    BY <1>1 DEF ClientReleased, StatusJustified
  <1> QED
    BY <1>2, <1>4, <1>5, <1>6 DEF ProviderInv

\* The status of a search follows from what its last request brought.
LEMMA ConcludeStep ==
  ASSUME ProviderInv, HttpInv', Conclude
  PROVE  ProviderInv'
  <1>1. PICK body : /\ Took(body) /\ status' = Verdict(body)
                    /\ ~(phase = "token" /\ body = "good")
    BY DEF Conclude
  <1>2. phase \in Waiting /\ phase' = "ended" /\ open' = FALSE
    BY DEF Conclude, aclose
  <1> DEFINE how == outcome[Self]
  <1>3. /\ pc[Self] = "ended" /\ pc'[Self] = "idle"
        /\ holder = Null /\ waiters = <<>>
        /\ UNCHANGED <<kind, missing, searches, holder, waiters>>
        /\ body = Null <=> how # "response"
        /\ body # Null => body \in Bodies[phase]
        /\ trail'[phase] = [sends |-> sends[Self], outcome |-> how, body |-> body]
        /\ \A r \in Waiting : r # phase => trail'[r] = trail[r]
        /\ trail' \in Trails
    BY <1>1, <1>2, TookFacts
  <1>4. /\ missing = {} /\ kind \in {"ebay", "generic"}
        /\ phase = "token" => kind = "ebay" /\ trail["listings"] = Unasked
        /\ phase = "listings" /\ kind = "ebay" => trail["token"].body = "good"
        /\ how \in {"response", "unavailable", "rate_limited", "runtime_error"}
        /\ how = "unavailable" => sends[Self] > 0
        /\ how = "runtime_error" => kind = "generic" /\ searches > 1 /\ sends[Self] = 0
    <2>1. how \in {"response", "unavailable", "rate_limited", "runtime_error"}
      BY <1>3, OneTask DEF ProviderInv, HttpInv, HttpTypeOK, Outcomes, Settled
    <2> QED
      BY <1>2, <1>3, <2>1, ProviderAssumption DEF ProviderInv, SearchTypeOK, Underway, Settled
  <1>5. /\ how # "response" => status' = (IF how = "runtime_error" THEN "error" ELSE how)
        /\ how = "response" =>
             /\ body = "empty" => phase = "token" /\ status' = "unavailable"
             /\ body = "incompatible" =>
                  status' = (IF kind = "generic" THEN "unavailable" ELSE "error")
             /\ body = "unreadable" => status' = "error"
             /\ body = "good" => phase = "listings" /\ status' = "available"
             /\ body \in AnyBody
    BY <1>1, <1>2, <1>3, <1>4, BodiesDiffer DEF Verdict, AnyBody, Waiting
  <1> HIDE DEF how
  <1>6. status' \in ProviderStatus
    BY <1>4, <1>5 DEF ProviderStatus, AnyBody
  <1>7. SearchTypeOK' /\ Free' /\ Settled' /\ StoredKnown' /\ OpenAtFirst'
    BY <1>1, <1>2, <1>6, BodiesDiffer, TookKeeps
  <1>8. Underway' /\ ClientReleased'
    BY <1>2, <1>3 DEF Underway, ClientReleased, Waiting
  <1>9. StatusJustified'
    <2>1. CASE phase = "token"
      <3>1. /\ trail'["listings"].outcome = "none" /\ trail'["listings"].body = Null
            /\ trail'["token"] = [sends |-> sends[Self], outcome |-> how, body |-> body]
        BY <1>3, <1>4, <2>1 DEF Unasked, Waiting
      <3> QED
        BY <1>3, <1>4, <1>5, <2>1, <3>1, BodiesDiffer DEF StatusJustified, AnyBody
    <2>2. CASE phase = "listings"
      <3>1. /\ trail'["listings"] = [sends |-> sends[Self], outcome |-> how, body |-> body]
            /\ trail'["token"] = trail["token"]
        BY <1>3, <2>2 DEF Waiting
      <3> QED
        BY <1>3, <1>4, <1>5, <2>2, <3>1, BodiesDiffer DEF StatusJustified, AnyBody
    <2> QED
      BY <1>2, <2>1, <2>2 DEF Waiting
  <1> QED
    BY <1>3, <1>7, <1>8, <1>9 DEF ProviderInv

\* Ctrl-C at an await.
LEMMA CancelStep ==
  ASSUME ProviderInv, HttpInv', Cancel
  PROVE  ProviderInv'
  <1>1. /\ phase \in Waiting /\ phase' = "cancelled" /\ pc'[Self] = "idle"
        /\ holder' = Null /\ waiters' = <<>> /\ open' = FALSE
        /\ UNCHANGED <<kind, missing, status, searches, stored, trail>>
    BY OneTask DEF Cancel, Relinquish, aclose, ProviderInv, HttpInv, HttpTypeOK
  <1>2. SearchTypeOK' /\ trail' \in Trails
    BY <1>1 DEF ProviderInv, SearchTypeOK, HttpInv, Trails, Waiting
  <1>3. searches > 0
    BY <1>1 DEF ProviderInv, Underway
  <1> QED
    BY <1>1, <1>2, <1>3
    DEF ProviderInv, Free, Underway, Settled, StoredKnown, OpenAtFirst, ClientReleased,
        StatusJustified, Waiting

LEMMA ProviderInvStep == ProviderInv /\ [ProviderNext]_providerVars => ProviderInv'
  <1> SUFFICES ASSUME ProviderInv, [ProviderNext]_providerVars PROVE ProviderInv'
    OBVIOUS
  <1>1. HttpInv'
    BY ClientSteps DEF ProviderInv
  <1>2. CASE UNCHANGED providerVars
    BY <1>1, <1>2
    DEF ProviderInv, Free, SearchTypeOK, HttpInv, Underway, Settled, StoredKnown, OpenAtFirst,
        ClientReleased, StatusJustified, Trails, Wanted, searchVars, providerVars, httpVars,
        taskVars, lockVars, history
  <1> QED
    BY <1>1, <1>2, ElapseStep, BeginStep, AskStep, WorkStep, GrantedStep, ConcludeStep, CancelStep
    DEF ProviderNext, Proceed

\* The invariant holds in every state of a provider.
THEOREM ProviderInvariant == ProviderSpec => []ProviderInv
  <1> QED
    BY ProviderInvInit, ProviderInvStep, PTL DEF ProviderSpec

\* A search's record and its client keep their types, the retry budget included.
THEOREM SearchTypeCorrect == ProviderSpec => []SearchTypeOK
  <1>1. ProviderInv => SearchTypeOK
    BY DEF ProviderInv
  <1> QED
    BY <1>1, ProviderInvariant, PTL

\* The status that _safe_search gives a search is what happened to it, for any number of
\* retries and of searches of one object.
THEOREM StatusIsJustified == ProviderSpec => []StatusJustified
  <1>1. ProviderInv => StatusJustified
    BY DEF ProviderInv
  <1> QED
    BY <1>1, ProviderInvariant, PTL

\* However a search ends, cancelled at any await included, its client is closed and the
\* client's lock is free.
THEOREM ClientIsReleased == ProviderSpec => []ClientReleased
  <1>1. ProviderInv => ClientReleased
    BY DEF ProviderInv
  <1> QED
    BY <1>1, ProviderInvariant, PTL

\* The rate limit holds across the requests of a search and of a client's later searches.
THEOREM SearchSendsSpaced == ProviderSpec => SendsSpaced
  <1>1. ASSUME ProviderInv, ProviderNext, NEW u \in Tasks, sends'[u] > sends[u]
        PROVE  quiet >= Interval
    <2>0. /\ HttpInv /\ HttpTypeOK /\ u = Self /\ sends \in [Tasks -> Nat]
          /\ wait \in [Tasks -> Int] /\ quiet \in 0 .. Interval /\ Interval \in Nat
      BY <1>1, OneTask, HttpAssumption DEF ProviderInv, HttpInv, HttpTypeOK
    <2>1. CASE Send(Self)
      <3>1. wait[Self] <= 0 /\ wait[Self] \in Int /\ quiet + wait[Self] >= Interval
        BY <2>0, <2>1 DEF Send, HttpInv, Paced
      <3> QED
        BY <2>0, <3>1
    <2>2. CASE Ask
      <3>1. sends'[Self] = 0
        BY <2>0, <2>2 DEF Ask, Request
      <3> QED
        BY <1>1, <2>0, <3>1
    <2>3. CASE ~Send(Self) /\ ~Ask
      <3>1. sends' = sends
        BY <1>1, <2>3
        DEF ProviderNext, Proceed, Refuse, search_ebay, search_generic, Work, Granted, Conclude,
            Cancel, Elapse, Took, Tick, Acquire, Respond, Succeed, BackOff, GiveUp, Retry,
            httpVars, taskVars, history
      <3> QED
        BY <1>1, <2>0, <3>1
    <2> QED
      BY <2>1, <2>2, <2>3
  <1>2. ProviderInv /\ [ProviderNext]_providerVars =>
          [sends' # sends /\ (\E t \in Tasks : sends'[t] > sends[t]) => quiet >= Interval]_httpVars
    BY <1>1 DEF providerVars
  <1> QED
    BY <1>2, ProviderInvariant, PTL DEF ProviderSpec, SendsSpaced

=============================================================================

--------------------------- MODULE ProviderSearch ---------------------------
(***************************************************************************)
(* The search() of one built-in provider object on ResilientHttpClient, as   *)
(* _safe_search of service.py runs it and names its outcome.                 *)
(*                                                                         *)
(* ebay     makes a client for each search, asks for a token, then for the   *)
(*          listings, and closes the client (ebay.py)                       *)
(* generic  asks for the listings with the client of its constructor, and    *)
(*          closes that (generic.py)                                        *)
(*                                                                         *)
(* Ctrl-C may cancel a search at any await: asyncio.run cancels the main     *)
(* task, gather the searches.  The marketplace is external.                 *)
(***************************************************************************)
EXTENDS ResilientHttp

CONSTANTS Self,          \* the coroutine of the search, the only one on its client
          Kinds,         \* a subset of {"ebay", "generic"}
          MaxSearches    \* bound: how often the object is searched

VARIABLES kind,       \* the provider's kind
          missing,    \* what is not set of what the provider needs
          phase,      \* "idle", waiting for the "token" or the "listings", "ended", "cancelled"
          status,     \* how the last search ended, or Null
          searches,   \* searches begun
          stored,     \* the body in the cached response
          trail       \* history: per request of this search its sends, outcome and body

searchVars == <<kind, missing, phase, status, searches, stored, trail>>
providerVars == <<httpVars, searchVars>>

-----------------------------------------------------------------------------

Waiting == {"token", "listings"}
\* What the environment and the site's settings must have before anything is sent.
credentials == {"client_id", "client_secret"}
endpoint    == {"endpoint", "https"}
headers     == {"headers_from_env"}
Needs == [ebay |-> credentials, generic |-> endpoint \cup headers]

\* "incompatible": json, KeyError, ValidationError and the like; "unreadable": a price
\* that is no number (decimal.InvalidOperation); "empty": no access_token.
Bodies == [token |-> {"good", "empty", "incompatible"}, listings |-> {"good", "incompatible", "unreadable"}]
NoTrail == [r \in Waiting |-> [sends |-> 0, outcome |-> "none", body |-> Null]]
ProviderStatus == {"available", "unavailable", "rate_limited", "error"}

ASSUME ProviderAssumption ==
  /\ Tasks = {Self} /\ Closes = {FALSE}
  /\ Urls = {"token", "listings"} /\ Methods = {"GET", "POST"}
  /\ Kinds \subseteq {"ebay", "generic"}
  /\ MaxSearches \in Nat \ {0}
  /\ Null \notin Bodies.token \cup Bodies.listings \cup ProviderStatus

SearchTypeOK ==
  /\ HttpTypeOK
  /\ kind \in Kinds /\ missing \subseteq Needs[kind]
  /\ phase \in {"idle", "ended", "cancelled"} \cup Waiting
  /\ status \in ProviderStatus \cup {Null}
  /\ status = Null <=> phase # "ended"
  /\ searches \in 0 .. MaxSearches
  /\ stored \in Bodies.listings \cup {Null}
  /\ \A r \in Waiting :
       /\ trail[r].sends \in 0 .. MaxRetries + 1
       /\ trail[r].outcome \in Outcomes
       /\ trail[r].body \in Bodies[r] \cup {Null}

ProviderInit ==
  /\ HttpInit
  /\ kind \in Kinds /\ missing \in SUBSET Needs[kind]
  /\ phase = "idle" /\ status = Null /\ searches = 0 /\ stored = Null /\ trail = NoTrail

-----------------------------------------------------------------------------

Begin ==
  /\ phase \in {"idle", "ended"}
  /\ searches < MaxSearches
  /\ searches' = searches + 1
  /\ trail' = NoTrail
  /\ UNCHANGED <<kind, missing>>

\* Missing credentials or settings: nothing is sent, and no client is made or closed.
Refuse ==
  /\ missing # {}
  /\ Begin
  /\ phase' = "ended"
  /\ status' = "unavailable"
  /\ UNCHANGED <<httpVars, stored>>

\* A new client knows nothing of the requests of another.
search_ebay ==
  /\ kind = "ebay" /\ missing = {}
  /\ Begin
  /\ phase' = "token"
  /\ status' = Null
  /\ open' = TRUE
  /\ elapsed' = Interval /\ quiet' = Interval
  /\ cache' = [q \in Requests |-> Null]
  /\ stored' = Null
  /\ UNCHANGED <<taskVars, holder, waiters, age, sends, answers>>

search_generic ==
  /\ kind = "generic" /\ missing = {}
  /\ Begin
  /\ phase' = "listings"
  /\ status' = Null
  /\ UNCHANGED <<httpVars, stored>>

Ask ==
  /\ phase \in Waiting
  /\ Request(Self, [method |-> IF phase = "token" THEN "POST" ELSE "GET", url |-> phase])
  /\ UNCHANGED searchVars

\* The client at work.
Work ==
  /\ phase \in Waiting
  /\ Acquire(Self) \/ Send(Self) \/ Respond(Self) \/ Retry(Self)
  /\ trail' = [trail EXCEPT ![phase].sends = sends'[Self]]
  /\ UNCHANGED <<kind, missing, phase, status, searches, stored>>

\* What the request brought: its body if there is a response.  A response from the
\* cache has the body that was stored with it, compatible or not.
Took(body) ==
  /\ pc[Self] = "ended"
  /\ IF outcome[Self] # "response" THEN body = Null
     ELSE IF sends[Self] = 0 THEN body = stored
     ELSE body \in Bodies[phase]
  /\ stored' = IF phase = "listings" /\ body # Null THEN body ELSE stored
  /\ trail' = [trail EXCEPT ![phase].outcome = outcome[Self], ![phase].body = body]
  /\ pc' = [pc EXCEPT ![Self] = "idle"]
  /\ UNCHANGED <<kind, missing, searches, req, attempt, begun, wait, outcome,
                 holder, waiters, cache, quiet, age, sends, answers>>

\* Defect: without a token in the answer, ask again.
GrantedInTheEnd ==
  /\ phase = "token"
  /\ \E body \in {"good", "empty"} :
       /\ Took(body)
       /\ phase' = IF body = "good" THEN "listings" ELSE "token"
  /\ UNCHANGED <<status, elapsed, open>>

\* Defect: the listings are asked for with a client of their own.
GrantedAnew ==
  /\ phase = "token"
  /\ Took("good")
  /\ phase' = "listings"
  /\ elapsed' = Interval
  /\ UNCHANGED <<status, open>>

\* _token: the request for the listings follows on the same client.
Granted ==
  /\ phase = "token"
  /\ Took("good")
  /\ phase' = "listings"
  /\ UNCHANGED <<status, elapsed, open>>

\* Defect: whatever goes wrong is the marketplace's unavailability.
VerdictAlike(body) == IF body = "good" THEN "available" ELSE "unavailable"

\* What search() raises or returns, as _safe_search calls it.  The generic adapter turns
\* a ValueError and its like into ProviderUnavailable; nobody catches the RuntimeError
\* of a closed client, nor InvalidOperation.
Verdict(body) ==
  CASE outcome[Self] \in {"unavailable", "rate_limited"} -> outcome[Self]
    [] outcome[Self] = "runtime_error" -> "error"
    [] body = "empty" -> "unavailable"
    [] body = "incompatible" -> IF kind = "generic" THEN "unavailable" ELSE "error"
    [] body = "unreadable" -> "error"
    [] body = "good" -> "available"

\* finally: await client.aclose()
aclose == open' = FALSE

Conclude ==
  /\ phase \in Waiting
  /\ \E body \in UNION {Bodies[r] : r \in Waiting} \cup {Null} :
       /\ ~(phase = "token" /\ body = "good")
       /\ Took(body)
       /\ status' = Verdict(body)
  /\ phase' = "ended"
  /\ aclose
  /\ UNCHANGED elapsed

\* Defect: the cancelled task leaves the lock to itself.
Release == UNCHANGED <<holder, waiters>>

\* async with: the lock is released, or its queue left.
Relinquish == holder' = Null /\ waiters' = <<>>

\* A CancelledError at the await; it is no Exception, so that _safe_search lets it pass.
Cancel ==
  /\ phase \in Waiting
  /\ pc[Self] # "idle"
  /\ phase' = "cancelled"
  /\ pc' = [pc EXCEPT ![Self] = "idle"]
  /\ Relinquish
  /\ aclose
  /\ UNCHANGED <<kind, missing, status, searches, stored, trail, req, attempt, begun, wait, outcome,
                 elapsed, cache, history>>

Elapse == Tick /\ UNCHANGED searchVars

Proceed == Ask \/ Work \/ Granted \/ Conclude

ProviderNext == Refuse \/ search_ebay \/ search_generic \/ Proceed \/ Cancel \/ Elapse

\* Time passes, the loop runs the ready coroutine, and httpx ends every call.
ProviderSpec ==
  ProviderInit /\ [][ProviderNext]_providerVars
    /\ WF_providerVars(Elapse) /\ WF_providerVars(Proceed)

-----------------------------------------------------------------------------
(* Properties; SendsSpaced of ResilientHttp holds across the two requests of *)
(* a search as well.                                                       *)

\* The status in the diagnostics is what happened: listings were found exactly if the
\* marketplace's last answer was good, eBay was asked for them only with a token, a
\* marketplace is said to limit or to be unavailable only if it was asked and limited,
\* failed or gave an unusable answer, and a client that an earlier search has closed is
\* never laid at its door.  What an unusable answer is called is left open here.
StatusJustified ==
  phase = "ended" =>
    LET found == trail["listings"]
        last  == IF found.outcome = "none" THEN trail["token"] ELSE found
    IN  /\ missing # {} => status = "unavailable" /\ trail = NoTrail
        /\ status = "available" <=> found.body = "good"
        /\ kind = "ebay" /\ found.outcome # "none" => trail["token"].body = "good"
        /\ status = "rate_limited" <=> last.outcome = "rate_limited"
        /\ status = "unavailable" /\ missing = {} =>
             \/ last.outcome = "unavailable" /\ last.sends > 0
             \/ last.body \in {"empty", "incompatible", "unreadable"}
        /\ status = "error" =>
             \/ last.body \in {"incompatible", "unreadable"}
             \/ kind = "generic" /\ searches > 1 /\ last.sends = 0

\* However a search that was begun ends, Ctrl-C at any await included, its client is
\* closed, and nobody holds the client's lock or waits for it.
ClientReleased ==
  missing = {} /\ phase \in {"ended", "cancelled"} => ~open /\ holder = Null /\ waiters = <<>>

\* Every search of a built-in provider ends, so that gather does.
SearchesEnd == phase \in Waiting ~> phase \in {"ended", "cancelled"}
=============================================================================

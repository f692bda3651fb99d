------------------------------ MODULE DealWatch ------------------------------
(***************************************************************************)
(* The command line (cli.main) and the event detection (watch.py) on top of *)
(* the store: invocations of `dealfinder search`, `watch` and `show` that    *)
(* share one database.  A watch reads its baseline, searches, saves, compares*)
(* what it found with the baseline and notifies, with no transaction around  *)
(* these steps.  What the search finds is any member of Runs.               *)
(***************************************************************************)
EXTENDS DealStore

CONSTANTS Commands,   \* a subset of {"watch", "search", "show"}: what gets invoked
          Faults,     \* a subset of {"kill", "notifier", "abort"}: what may go wrong
          Overlap,    \* may a second invocation start while one runs?
          Top,        \* --top: how many ranked results an invocation keeps
          MinScore,   \* watch.minimum_score
          MinDropBp   \* watch.minimum_price_drop_percent, in hundredths of a percent

VARIABLES phase,      \* where each invocation is in main()
          command,    \* args.command
          previous,   \* the ranking of the baseline run, <<>> when there is none
          baseline,   \* history: the id of the run `previous` was read from; of a `show`,
                      \* load_rank's selected_run
          events,     \* the result of detect_deal_events
          shown,      \* the rank a `show` was asked for and the rows found, [rank, items]
          announced   \* history: the notifications, in the order they were sent

watchLocals == <<phase, command, previous, baseline, events, shown>>
watchVars == <<storeVars, phase, command, previous, baseline, events, shown, announced>>

ASSUME WatchAssumption ==
  /\ Commands \subseteq {"watch", "search", "show"}
  /\ Faults \subseteq {"kill", "notifier", "abort"}
  /\ Overlap \in BOOLEAN
  /\ Top \in Nat /\ MinScore \in Nat /\ MinDropBp \in Nat
  /\ \A item \in Items : item.price \in Nat /\ item.score \in Nat

-----------------------------------------------------------------------------
(* detect_deal_events.  Prices are whole cents.                             *)

\* Defect: the percentage is cut off, not rounded.
DropBpCut(was, now) == ((was - now) * 10000) \div was

\* The percentage as quantize(Decimal("0.01")) rounds it, half to even, times 100.
DropBp(was, now) ==
  LET scaled == (was - now) * 10000
      down   == scaled \div was
      twice  == 2 * (scaled % was)
  IN  IF twice > was \/ (twice = was /\ down % 2 = 1) THEN down + 1 ELSE down

\* Defect: a score that just reaches the minimum does not count.
NewDealsAbove(current, old) ==
  {[type |-> "new_strong_deal", item |-> current[i], previous_price |-> Null] :
     i \in {i \in DOMAIN current : /\ current[i].key \notin KeysIn(old)
                                   /\ current[i].score > MinScore}}

\* An item of the current ranking that the old one does not list at all.
NewDeals(current, old) ==
  {[type |-> "new_strong_deal", item |-> current[i], previous_price |-> Null] :
     i \in {i \in DOMAIN current : /\ current[i].key \notin KeysIn(old)
                                   /\ current[i].score >= MinScore}}

\* Pairs of a current item and the one that previous_by_key holds for its key.
Pairs(current, old) ==
  UNION {{<<current[i], old[j]>> : j \in LastAt(old, current[i].key)} : i \in DOMAIN current}

PriceDrops(current, old) ==
  {[type |-> "price_drop", item |-> p[1], previous_price |-> p[2].price] :
     p \in {p \in Pairs(current, old) : /\ p[2].price > p[1].price
                                        /\ DropBp(p[2].price, p[1].price) >= MinDropBp}}

\* The list's order is the ranking's and is left out.
detect_deal_events(current, old) == NewDeals(current, old) \cup PriceDrops(current, old)

-----------------------------------------------------------------------------

Phases == {"idle", "loading", "searching", "notifying", "showing", "selecting", "done"}
NothingShown == [rank |-> 0, items |-> {}]

Events == [type : {"new_strong_deal", "price_drop"}, item : Items,
           previous_price : Nat \cup {Null}]

WatchTypeOK ==
  /\ TypeOK
  /\ phase \in [Clients -> Phases]
  /\ command \in [Clients -> Commands \cup {"none"}]
  /\ previous \in [Clients -> Seq(Items)]
  /\ baseline \in [Clients -> Nat]
  /\ events \in [Clients -> SUBSET Events]
  /\ shown \in [Clients -> [rank : Nat, items : SUBSET Items]]
  /\ announced \in Seq([run : Nat, events : SUBSET Events])

WatchInit ==
  /\ Init
  /\ phase = [c \in Clients |-> "idle"]
  /\ command = [c \in Clients |-> "none"]
  /\ previous = [c \in Clients |-> <<>>]
  /\ baseline = [c \in Clients |-> 0]
  /\ events = [c \in Clients |-> {}]
  /\ shown = [c \in Clients |-> NothingShown]
  /\ announced = <<>>

\* Defect: concurrencyPolicy: Allow.
MayStartAnyTime == TRUE

\* The CronJob's concurrencyPolicy: Forbid keeps invocations apart; nothing in
\* the program does.
MayStart == Overlap \/ \A c \in Clients : phase[c] = "idle"

Start(c, cmd) ==
  /\ phase[c] = "idle"
  /\ MayStart
  /\ phase' = [phase EXCEPT ![c] = CASE cmd = "watch" -> "loading"
                                     [] cmd = "search" -> "searching"
                                     [] cmd = "show" -> "showing"]
  /\ command' = [command EXCEPT ![c] = cmd]
  /\ UNCHANGED <<storeVars, previous, baseline, events, shown, announced>>

\* The first SQLiteRepository(args.state) of the invocation.  The second one, in
\* _search, finds the schema current and changes nothing.
OpenRepository(c) ==
  /\ phase[c] \in {"loading", "searching", "showing"}
  /\ Initialize(c)
  /\ UNCHANGED <<watchLocals, announced>>

\* Defect: the first run is the baseline for ever.
LoadFirst(c) ==
  /\ phase[c] = "loading"
  /\ pc[c] = "ready"
  /\ IF load_run = Null
       THEN UNCHANGED <<previous, baseline>>
       ELSE /\ previous' = [previous EXCEPT ![c] = IF disk.search_runs[1].result = Null THEN <<>>
                                                  ELSE disk.search_runs[1].result.ranked]
            /\ baseline' = [baseline EXCEPT ![c] = 1]
  /\ phase' = [phase EXCEPT ![c] = "searching"]
  /\ UNCHANGED <<storeVars, command, events, shown, announced>>

\* Defect: the baseline is the stored run itself, not its ranking.
LoadPreviousRun(c) ==
  /\ phase[c] = "loading"
  /\ pc[c] = "ready"
  /\ previous' = [previous EXCEPT ![c] = load_run]
  /\ phase' = [phase EXCEPT ![c] = "searching"]
  /\ UNCHANGED <<storeVars, command, baseline, events, shown, announced>>

\* with suppress(LookupError): previous = ....load_run()
LoadPrevious(c) ==
  /\ phase[c] = "loading"
  /\ pc[c] = "ready"
  /\ IF load_run = Null
       THEN UNCHANGED <<previous, baseline>>
       ELSE /\ previous' = [previous EXCEPT ![c] = load_run.ranked]
            /\ baseline' = [baseline EXCEPT ![c] = load_run.run_id]
  /\ phase' = [phase EXCEPT ![c] = "searching"]
  /\ UNCHANGED <<storeVars, command, events, shown, announced>>

\* The providers answer, the pipeline ranks, the run goes to save_run.
Search(c, r) ==
  /\ phase[c] = "searching"
  /\ SaveRun(c, r)
  /\ UNCHANGED <<watchLocals, announced>>

Saving(c) ==
  /\ Advance(c)
  /\ UNCHANGED <<watchLocals, announced>>

SavingFails(c) ==
  /\ StatementFails(c)
  /\ UNCHANGED <<watchLocals, announced>>

\* run.ranked[: args.top]
TopOf(ranked) == SubSeq(ranked, 1, IF Len(ranked) < Top THEN Len(ranked) ELSE Top)

\* Defect: the baseline is read again after the save.
CompareWithLatest(c) ==
  /\ phase[c] = "searching"
  /\ command[c] = "watch"
  /\ pc[c] = "returned"
  /\ events' = [events EXCEPT ![c] =
                  detect_deal_events(TopOf(run[c].ranked), IF load_run = Null THEN <<>> ELSE load_run.ranked)]
  /\ phase' = [phase EXCEPT ![c] = "notifying"]
  /\ UNCHANGED <<storeVars, command, previous, baseline, shown, announced>>

\* What is kept of the run just saved, against the baseline read before the search.
Compare(c) ==
  /\ phase[c] = "searching"
  /\ command[c] = "watch"
  /\ pc[c] = "returned"
  /\ events' = [events EXCEPT ![c] = detect_deal_events(TopOf(run[c].ranked), previous[c])]
  /\ phase' = [phase EXCEPT ![c] = "notifying"]
  /\ UNCHANGED <<storeVars, command, previous, baseline, shown, announced>>

\* Defect: a run without events is passed over in silence.
NotifyIfAny(c) ==
  /\ phase[c] = "notifying"
  /\ announced' = IF events[c] = {} THEN announced
                  ELSE Append(announced, [run |-> run_id[c], events |-> events[c]])
  /\ phase' = [phase EXCEPT ![c] = "done"]
  /\ UNCHANGED <<storeVars, command, previous, baseline, events, shown>>

\* The channel takes the events, an empty list included.
Notify(c) ==
  /\ phase[c] = "notifying"
  /\ announced' = Append(announced, [run |-> run_id[c], events |-> events[c]])
  /\ phase' = [phase EXCEPT ![c] = "done"]
  /\ UNCHANGED <<storeVars, command, previous, baseline, events, shown>>

\* Defect: the newest id is one that is not committed yet.
ShowLatestDirty(c) ==
  /\ phase[c] = "showing"
  /\ pc[c] = "ready"
  /\ baseline' = [baseline EXCEPT ![c] = Len(pages.search_runs)]
  /\ phase' = [phase EXCEPT ![c] = "selecting"]
  /\ UNCHANGED <<storeVars, command, previous, events, shown, announced>>

\* load_rank: SELECT MAX(id), 0 without a run.  --run-id would take its place.
ShowLatest(c) ==
  /\ phase[c] = "showing"
  /\ pc[c] = "ready"
  /\ baseline' = [baseline EXCEPT ![c] = Len(disk.search_runs)]
  /\ phase' = [phase EXCEPT ![c] = "selecting"]
  /\ UNCHANGED <<storeVars, command, previous, events, shown, announced>>

\* The second SELECT is a transaction of its own.
ShowRank(c, rank) ==
  /\ phase[c] = "selecting"
  /\ shown' = [shown EXCEPT ![c] = [rank |-> rank, items |-> load_rank(rank, baseline[c])]]
  /\ phase' = [phase EXCEPT ![c] = "done"]
  /\ UNCHANGED <<storeVars, command, previous, baseline, events, announced>>

\* The last line of main(), or the OperationalError that main() does not catch.
Finished(c) ==
  \/ phase[c] = "done"
  \/ phase[c] = "searching" /\ command[c] = "search" /\ pc[c] = "returned"
  \/ pc[c] = "failed"

\* The bound on stored runs leaves this invocation without a save: the model's
\* end of it, not the program's.
OutOfRuns(c) ==
  /\ phase[c] = "searching"
  /\ pc[c] = "ready"
  /\ Len(disk.search_runs) >= MaxRuns

\* The process is gone; the next one in this place starts from nothing.
Gone(c) ==
  /\ IF pc[c] = "closed" THEN UNCHANGED storeVars ELSE Exit(c)
  /\ phase' = [phase EXCEPT ![c] = "idle"]
  /\ command' = [command EXCEPT ![c] = "none"]
  /\ previous' = [previous EXCEPT ![c] = <<>>]
  /\ baseline' = [baseline EXCEPT ![c] = 0]
  /\ events' = [events EXCEPT ![c] = {}]
  /\ shown' = [shown EXCEPT ![c] = NothingShown]
  /\ UNCHANGED announced

End(c) == (Finished(c) \/ OutOfRuns(c)) /\ Gone(c)

\* --config or a provider name is refused before the save.
Abort(c) ==
  /\ "abort" \in Faults
  /\ phase[c] = "searching"
  /\ pc[c] \in {"closed", "ready"}
  /\ Gone(c)

\* --notify names no channel, or the channel raises.
NotifierFails(c) ==
  /\ "notifier" \in Faults
  /\ phase[c] = "notifying"
  /\ Gone(c)

\* A signal, the deadline of the job or the node takes the process away.
Kill(c) ==
  /\ "kill" \in Faults
  /\ phase[c] # "idle"
  /\ Gone(c)

\* What a running invocation does when nothing goes wrong but the lock.
Progress(c) ==
  \/ OpenRepository(c)
  \/ LoadPrevious(c)
  \/ \E r \in Runs : Search(c, r)
  \/ Saving(c)
  \/ Compare(c)
  \/ Notify(c)
  \/ ShowLatest(c)
  \/ \E rank \in 0 .. Top : ShowRank(c, rank)
  \/ End(c)

WatchNext ==
  \/ Tick /\ UNCHANGED <<watchLocals, announced>>
  \/ \E c \in Clients : \/ \E cmd \in Commands : Start(c, cmd)
                        \/ Progress(c)
                        \/ SavingFails(c)
                        \/ Abort(c)
                        \/ NotifierFails(c)
                        \/ Kill(c)

WatchSpec == WatchInit /\ [][WatchNext]_watchVars

\* An invocation that has started is a running process: the kernel schedules it.
\* That anybody starts one, or that anything goes wrong, is not assumed.
FairWatchSpec == WatchSpec /\ \A c \in Clients : WF_watchVars(Progress(c))

-----------------------------------------------------------------------------
(* Safety.                                                                 *)

\* The ranking that was stored under an id, <<>> where there is none.
Ranking(id) ==
  IF id \notin DOMAIN disk.search_runs THEN <<>>
  ELSE IF disk.search_runs[id].result = Null THEN <<>> ELSE disk.search_runs[id].result.ranked

\* However invocations overlap or die, a notification is about a run that is
\* stored, was compared with an earlier stored run (or with nothing), never with
\* itself or a later one, and is sent at most once.
AnnouncementsSound ==
  /\ \A n \in DOMAIN announced :
       /\ announced[n].run \in DOMAIN disk.search_runs
       /\ \E id \in 0 .. announced[n].run - 1 :
            announced[n].events = detect_deal_events(TopOf(Ranking(announced[n].run)), Ranking(id))
  /\ \A n, m \in DOMAIN announced : announced[n].run = announced[m].run => n = m

\* `show N` answers with what the run that was the latest at its first read ranks N-th,
\* and finds nothing only if that run has no such rank, whatever is saved, or is half
\* saved, between its reads.  (Rank 0 is that of every unranked row; the runs of an
\* earlier version have no stored ranking; of two offers that share a key only one is found.)
ShownFromOneRun ==
  \A c \in Clients : phase[c] = "done" /\ shown[c].rank # 0 /\ baseline[c] # 0 =>
    /\ baseline[c] \in DOMAIN disk.search_runs
    /\ disk.search_runs[baseline[c]].result # Null =>
         shown[c].items = {Ranking(baseline[c])[n] :
                             n \in {shown[c].rank} \cap DOMAIN Ranking(baseline[c])}

RankedOnce(key, id) ==
  \A i, j \in DOMAIN Ranking(id) : Ranking(id)[i].key = key /\ Ranking(id)[j].key = key => i = j

\* The same news twice, the same deal as new or the same drop to the same price, means
\* that a run stored in between did not rank that offer as it is.  (Of two offers that
\* share a key the last one is the baseline of both; the cheaper one then drops again in
\* every run.)
NewsNotRepeated ==
  \A n, m \in DOMAIN announced : n < m =>
    \A event \in announced[n].events \cap announced[m].events :
      RankedOnce(event.item.key, announced[m].run - 1) =>
        \E id \in announced[n].run + 1 .. announced[m].run - 1 :
          \A i \in DOMAIN Ranking(id) : Ranking(id)[i] # event.item

-----------------------------------------------------------------------------
(* Refinement.                                                             *)

Feed == INSTANCE DealFeed WITH ledger <- LedgerOf(disk), feed <- announced

\* Invocations that do not overlap announce, at most once each, the latest
\* snapshot against the one before it, whatever breaks off in between.
ImplementsFeed == Feed!FeedSpec

-----------------------------------------------------------------------------
(* Liveness.                                                               *)

\* Every invocation ends: none is left waiting for the database or a decision.
InvocationsEnd == \A c \in Clients : phase[c] # "idle" ~> phase[c] = "idle"

\* Where nothing breaks off after the save, every run a watch stores is announced.
SnapshotsAnnounced ==
  \A c \in Clients, id \in 1 .. MaxRuns + Cardinality(Clients) :
    (command[c] = "watch" /\ pc[c] = "returned" /\ run_id[c] = id)
      ~> \E n \in DOMAIN announced : announced[n].run = id

\* An announced run shows the key among its top results, and every run so far that
\* ranked it found it strong.
StrongSoFar(k) ==
  \E n \in DOMAIN announced :
    /\ k \in KeysIn(TopOf(Ranking(announced[n].run)))
    /\ \A id \in 1 .. announced[n].run : \A i \in DOMAIN Ranking(id) :
         Ranking(id)[i].key = k => Ranking(id)[i].score >= MinScore

Notified(k) == \E n \in DOMAIN announced : \E e \in announced[n].events : e.item.key = k

\* Where nothing breaks off after the save, a deal that was strong from the start and
\* that a notification's run shows is notified, if not by this one then by another.
StrongDealsAnnounced == \A k \in Keys : StrongSoFar(k) ~> Notified(k)

=============================================================================

----------------------------- MODULE WatchProofs -----------------------------
(***************************************************************************)
(* Proofs about DealWatch for any number of invocations, any runs and any   *)
(* thresholds.                                                             *)
(***************************************************************************)
EXTENDS DealWatch, DealStoreProofs

-----------------------------------------------------------------------------
(* Invocations use the store as its clients do, which carries over all that *)
(* is proved of the store.                                                  *)

LEMMA WatchStepIsStoreStep == [WatchNext]_watchVars => [Next]_storeVars
  <1> SUFFICES ASSUME [WatchNext]_watchVars PROVE [Next]_storeVars
    OBVIOUS
  <1>1. ASSUME NEW c \in Clients, Gone(c) PROVE [Next]_storeVars
    BY <1>1 DEF Gone, Next
  <1>2. ASSUME NEW c \in Clients, Progress(c) PROVE [Next]_storeVars
    BY <1>1, <1>2
    DEF Progress, OpenRepository, LoadPrevious, Search, Saving, Compare, Notify, ShowLatest,
        ShowRank, End, Next, StoreStep
  <1>3. ASSUME NEW c \in Clients, SavingFails(c) PROVE [Next]_storeVars
    BY <1>3 DEF SavingFails, Next, StoreStep
  <1>4. ASSUME NEW c \in Clients, Abort(c) \/ NotifierFails(c) \/ Kill(c) PROVE [Next]_storeVars
    BY <1>1, <1>4 DEF Abort, NotifierFails, Kill
  <1>5. CASE Tick \/ UNCHANGED watchVars
    BY <1>5 DEF Next, watchVars
  <1>6. ASSUME NEW c \in Clients, NEW cmd \in Commands, Start(c, cmd) PROVE [Next]_storeVars
    BY <1>6 DEF Start
  <1> QED
    BY <1>2, <1>3, <1>4, <1>5, <1>6 DEF WatchNext

\* The command line keeps to the protocol of the store: whatever invocations do, the
\* database sees a behaviour of DealStore.
THEOREM WatchUsesStore == WatchSpec => Spec
  <1>1. WatchInit => Init
    BY DEF WatchInit
  <1> QED
    BY <1>1, WatchStepIsStoreStep, PTL DEF WatchSpec, Spec

StoreInv == LedgerInv /\ SavedRunIsMine

LEMMA StoreInvInit == Init => StoreInv
  BY RowsInit DEF StoreInv, Init, SavedRunIsMine

LEMMA StoreInvStep == StoreInv /\ [WatchNext]_watchVars => StoreInv'
  BY WatchStepIsStoreStep, RowsStep, SavedStep DEF StoreInv, SavedInv, LedgerInv

\* The parts of the store's invariant in one place.
LEMMA StoreTypes ==
  ASSUME StoreInv
  PROVE  /\ LockInv /\ TypeOK
         /\ disk \in Database /\ disk.search_runs \in Seq(RunRow)
         /\ Len(disk.search_runs) \in Nat
         /\ DOMAIN disk.search_runs = 1 .. Len(disk.search_runs)
         /\ pc \in [Clients -> PCs] /\ run_id \in [Clients -> Nat]
         /\ run \in [Clients -> Runs \cup {Null}]
         /\ \A c \in Clients : pc[c] = "returned" => run[c] \in Runs
  BY DEF StoreInv, LedgerInv, LockInv, TypeInv, TypeOK, RunKnown, Database

-----------------------------------------------------------------------------
(* Types.                                                                  *)

\* --top cuts a ranking at its end.
LEMMA TopOfRanking ==
  ASSUME NEW s \in Seq(Items)
  PROVE  /\ TopOf(s) \in Seq(Items)
         /\ DOMAIN TopOf(s) = {i \in DOMAIN s : i <= Top}
         /\ \A i \in DOMAIN TopOf(s) : TopOf(s)[i] = s[i]
  <1> DEFINE n == IF Len(s) < Top THEN Len(s) ELSE Top
  <1>1. n \in Nat /\ n <= Len(s) /\ Len(s) \in Nat /\ Top \in Nat
    BY WatchAssumption
  <1>2. TopOf(s) = SubSeq(s, 1, n)
    BY DEF TopOf
  <1>3. /\ TopOf(s) \in Seq(Items) /\ Len(TopOf(s)) = n
        /\ \A i \in 1 .. n : TopOf(s)[i] = s[i]
    BY <1>1, <1>2
  <1>4. DOMAIN TopOf(s) = 1 .. n /\ DOMAIN s = 1 .. Len(s)
    BY <1>3
  <1>5. 1 .. n = {i \in 1 .. Len(s) : i <= Top}
    BY <1>1
  <1> QED
    BY <1>3, <1>4, <1>5

LEMMA EventTypes ==
  ASSUME NEW current \in Seq(Items), NEW old \in Seq(Items)
  PROVE  detect_deal_events(current, old) \in SUBSET Events
  <1>1. \A i \in DOMAIN current : current[i] \in Items
    OBVIOUS
  <1>2. \A j \in DOMAIN old : old[j] \in Items /\ old[j].price \in Nat
    BY WatchAssumption
  <1>3. NewDeals(current, old) \in SUBSET Events
    BY <1>1 DEF NewDeals, Events
  <1>4. \A p \in Pairs(current, old) : p[1] \in Items /\ p[2].price \in Nat
    BY <1>1, <1>2 DEF Pairs, LastAt
  <1>5. PriceDrops(current, old) \in SUBSET Events
    BY <1>4 DEF PriceDrops, Events
  <1> QED
    BY <1>3, <1>5 DEF detect_deal_events

\* What load_run answers is the ranking stored under the latest id.
LEMMA LatestRun ==
  ASSUME StoreInv, load_run # Null
  PROVE  /\ Len(disk.search_runs) \in Nat \ {0}
         /\ load_run = disk.search_runs[Len(disk.search_runs)].result
         /\ load_run.run_id = Len(disk.search_runs)
         /\ load_run.ranked \in Seq(Items)
         /\ load_run.ranked = Ranking(Len(disk.search_runs))
  <1> DEFINE n == Len(disk.search_runs)
  <1>1. disk.search_runs # <<>> /\ load_run = disk.search_runs[n].result
    BY DEF load_run
  <1>2. n \in Nat \ {0} /\ n \in DOMAIN disk.search_runs
    BY <1>1, StoreTypes
  <1>3. disk.search_runs[n] \in RunRow
    BY <1>2, StoreTypes
  <1>4. load_run \in Results
    BY <1>1, <1>3 DEF RunRow
  <1>5. load_run.run_id = n
    BY <1>1, <1>2 DEF StoreInv, LedgerInv, RunsComplete
  <1> QED
    BY <1>1, <1>2, <1>4, <1>5 DEF Ranking, Results

LEMMA WatchTypeStep ==
  ASSUME StoreInv, WatchTypeOK, StoreInv', [WatchNext]_watchVars
  PROVE  WatchTypeOK'
  <1>0. TypeOK'
    BY DEF StoreInv, LedgerInv, LockInv, TypeInv
  <1> USE DEF WatchTypeOK, Phases
  <1>1. CASE UNCHANGED <<watchLocals, announced>>
    BY <1>0, <1>1 DEF watchLocals
  <1>2. ASSUME NEW c \in Clients, Gone(c) PROVE WatchTypeOK'
    BY <1>0, <1>2 DEF Gone, NothingShown
  <1>3. ASSUME NEW c \in Clients, NEW cmd \in Commands, Start(c, cmd) PROVE WatchTypeOK'
    BY <1>0, <1>3, WatchAssumption DEF Start
  <1>4. ASSUME NEW c \in Clients, LoadPrevious(c) PROVE WatchTypeOK'
    BY <1>0, <1>4, LatestRun DEF LoadPrevious
  <1>5. ASSUME NEW c \in Clients, Compare(c) PROVE WatchTypeOK'
    <2>1. run[c].ranked \in Seq(Items)
      BY <1>5, StoreTypes, RunTypes DEF Compare
    <2>2. detect_deal_events(TopOf(run[c].ranked), previous[c]) \in SUBSET Events
      BY <2>1, TopOfRanking, EventTypes
    <2> QED
      BY <1>0, <1>5, <2>2 DEF Compare
  <1>6. ASSUME NEW c \in Clients, Notify(c) PROVE WatchTypeOK'
    <2> DEFINE Notice == [run : Nat, events : SUBSET Events]
               notice == [run |-> run_id[c], events |-> events[c]]
    <2>1. notice \in Notice
      BY StoreTypes
    <2> HIDE DEF notice, Notice
    <2>2. announced \in Seq(Notice) => Append(announced, notice) \in Seq(Notice)
      BY <2>1
    <2>3. announced' \in Seq(Notice)
      BY <1>6, <2>2 DEF Notify, notice, Notice
    <2> QED
      BY <1>0, <1>6, <2>3 DEF Notify, Notice
  <1>7. ASSUME NEW c \in Clients, ShowLatest(c) PROVE WatchTypeOK'
    BY <1>0, <1>7, StoreTypes DEF ShowLatest
  <1>8. ASSUME NEW c \in Clients, NEW rank \in 0 .. Top, ShowRank(c, rank) PROVE WatchTypeOK'
    <2>1. load_rank(rank, baseline[c]) \in SUBSET Items
      BY StoreTypes DEF load_rank, RowsOf, Database, Row
    <2> QED
      BY <1>0, <1>8, <2>1, WatchAssumption DEF ShowRank
  <1> QED
    BY <1>1, <1>2, <1>3, <1>4, <1>5, <1>6, <1>7, <1>8
    DEF WatchNext, Progress, OpenRepository, Search, Saving, SavingFails, End, Abort, NotifierFails,
        Kill, watchVars, watchLocals

LEMMA WatchTypeInit == WatchInit => WatchTypeOK
  BY StoreInvInit, StoreTypes DEF WatchInit, WatchTypeOK, Phases, NothingShown

\* An invocation's variables keep their types: what is read back from the store is a
\* ranking, and what is announced are events.
THEOREM WatchTypeCorrect == WatchSpec => []WatchTypeOK
  <1>1. WatchInit => StoreInv
    BY StoreInvInit DEF WatchInit
  <1>2. StoreInv /\ WatchTypeOK /\ [WatchNext]_watchVars => StoreInv' /\ WatchTypeOK'
    BY StoreInvStep, WatchTypeStep
  <1> QED
    BY <1>1, <1>2, WatchTypeInit, PTL DEF WatchSpec

-----------------------------------------------------------------------------
(* Announcements.  Until it is notified, an invocation holds the ranking of *)
(* a run that is older than its own, and its own has not been announced.    *)

BaselineOlder ==
  \A c \in Clients : phase[c] \in {"idle", "loading", "searching", "notifying"} =>
    /\ baseline[c] \in 0 .. Len(disk.search_runs)
    /\ previous[c] = Ranking(baseline[c])
    /\ pc[c] = "returned" => baseline[c] < run_id[c]

EventsReady ==
  \A c \in Clients : phase[c] = "notifying" =>
    /\ pc[c] = "returned"
    /\ events[c] = detect_deal_events(TopOf(run[c].ranked), previous[c])

NotYetAnnounced ==
  \A c \in Clients : pc[c] = "returned" /\ phase[c] # "done" =>
    \A n \in DOMAIN announced : announced[n].run # run_id[c]

OwnIds == \A c, d \in Clients : pc[c] = "returned" /\ pc[d] = "returned" /\ run_id[c] = run_id[d] => c = d

WatchInv ==
  /\ StoreInv /\ WatchTypeOK
  /\ BaselineOlder /\ EventsReady /\ NotYetAnnounced /\ OwnIds
  /\ AnnouncementsSound

LEMMA WatchInvInit == WatchInit => WatchInv
  <1> SUFFICES ASSUME WatchInit PROVE WatchInv
    OBVIOUS
  <1>1. StoreInv /\ WatchTypeOK
    BY StoreInvInit, WatchTypeInit DEF WatchInit
  <1>2. 0 \notin DOMAIN disk.search_runs /\ Len(disk.search_runs) \in Nat
    BY <1>1, StoreTypes
  <1> QED
    BY <1>1, <1>2
    DEF WatchInit, Init, WatchInv, BaselineOlder, EventsReady, NotYetAnnounced, OwnIds,
        AnnouncementsSound, Ranking

\* Whatever is ranked under an id stays.
LEMMA RankingStays ==
  ASSUME StoreInv, StoreInv', [Next]_storeVars
  PROVE  /\ Len(disk.search_runs) <= Len(disk'.search_runs)
         /\ \A id \in 0 .. Len(disk.search_runs) : Ranking(id)' = Ranking(id)
  <1> DEFINE old == Len(disk.search_runs)
             new == Len(disk'.search_runs)
  <1>1. old \in Nat /\ DOMAIN disk.search_runs = 1 .. old
    BY StoreTypes
  <1>2. new \in Nat /\ DOMAIN disk'.search_runs = 1 .. new
    BY DEF StoreInv, LedgerInv, LockInv, TypeInv, TypeOK, Database
  <1>3. \A id \in 1 .. old : id \in 1 .. new /\ disk'.search_runs[id] = disk.search_runs[id]
    BY <1>1, <1>2, RunsStay DEF StoreInv, LedgerInv
  <1> HIDE DEF old, new
  <1>4. old <= new
    <2>1. CASE old = 0
      BY <1>2, <2>1
    <2>2. CASE old # 0
      <3>1. old \in 1 .. new
        BY <1>1, <1>3, <2>2
      <3> QED
        BY <3>1, <1>2
    <2> QED
      BY <2>1, <2>2
  <1>5. ASSUME NEW id \in 0 .. old
        PROVE  Ranking(id)' = Ranking(id)
    <2>1. CASE id = 0
      BY <1>1, <1>2, <2>1 DEF Ranking
    <2>2. CASE id # 0
      <3>1. id \in 1 .. old
        BY <1>1, <2>2
      <3> QED
        BY <1>1, <1>2, <1>3, <3>1 DEF Ranking
    <2> QED
      BY <2>1, <2>2
  <1> QED
    BY <1>4, <1>5 DEF old, new

\* A client that has returned keeps its run until it exits; a new one's id is fresh.
LEMMA ReturnedStep ==
  ASSUME StoreInv, [Next]_storeVars, NEW d \in Clients, pc[d] = "returned" => pc'[d] # "closed"
  PROVE  /\ pc[d] = "returned" => /\ pc'[d] = "returned"
                                  /\ run'[d] = run[d] /\ run_id'[d] = run_id[d]
         /\ pc'[d] = "returned" /\ pc[d] # "returned" =>
              /\ Commit(d)
              /\ run_id'[d] = Len(disk.search_runs) + 1
              /\ \A c \in Clients : c # d => pc'[c] = pc[c] /\ run_id'[c] = run_id[c]
  <1>1. /\ pc \in [Clients -> PCs] /\ run \in [Clients -> Runs \cup {Null}]
        /\ run_id \in [Clients -> Nat]
    BY StoreTypes
  <1>2. pc[d] = "returned" => /\ pc'[d] = "returned"
                              /\ run'[d] = run[d] /\ run_id'[d] = run_id[d]
    BY <1>1
    DEF Next, StoreStep, Advance, Tick, Initialize, AddColumn, SaveRun, InsertRun, LockTimeout,
        SaveListing, Commit, StatementFails, Exit, tables, locals, storeVars
  <1>3. ASSUME pc'[d] = "returned", pc[d] # "returned"
        PROVE  Commit(d)
    BY <1>1, <1>3
    DEF Next, StoreStep, Advance, Tick, Initialize, AddColumn, SaveRun, InsertRun, LockTimeout,
        SaveListing, Commit, StatementFails, Exit, tables, locals, storeVars
  <1>4. ASSUME Commit(d)
        PROVE  /\ run_id'[d] = Len(disk.search_runs) + 1
               /\ \A c \in Clients : c # d => pc'[c] = pc[c] /\ run_id'[c] = run_id[c]
    BY <1>1, <1>4, CommitAppends DEF Commit, StoreInv, LedgerInv
  <1> QED
    BY <1>2, <1>3, <1>4

\* Announcements that are sound stay so.
LEMMA AnnouncedStaySound ==
  ASSUME WatchInv, StoreInv', [Next]_storeVars, announced' = announced
  PROVE  AnnouncementsSound'
  <1>1. /\ Len(disk.search_runs) \in Nat /\ DOMAIN disk.search_runs = 1 .. Len(disk.search_runs)
        /\ \A id \in DOMAIN disk.search_runs : id \in DOMAIN disk'.search_runs
        /\ \A id \in 0 .. Len(disk.search_runs) : Ranking(id)' = Ranking(id)
    BY StoreTypes, RankingStays, RunsStay DEF WatchInv, StoreInv, LedgerInv
  <1>2. ASSUME NEW n \in DOMAIN announced
        PROVE  /\ announced[n].run \in DOMAIN disk'.search_runs
               /\ \E id \in 0 .. announced[n].run - 1 :
                    announced[n].events =
                      detect_deal_events(TopOf(Ranking(announced[n].run)'), Ranking(id)')
    <2>1. announced[n].run \in 1 .. Len(disk.search_runs)
      BY <1>1 DEF WatchInv, AnnouncementsSound
    <2>2. PICK id \in 0 .. announced[n].run - 1 :
            announced[n].events = detect_deal_events(TopOf(Ranking(announced[n].run)), Ranking(id))
      BY DEF WatchInv, AnnouncementsSound
    <2>3. id \in 0 .. Len(disk.search_runs) /\ announced[n].run \in 0 .. Len(disk.search_runs)
      BY <1>1, <2>1
    <2>4. Ranking(id)' = Ranking(id) /\ Ranking(announced[n].run)' = Ranking(announced[n].run)
      BY <1>1, <2>3
    <2> QED
      BY <1>1, <2>1, <2>2, <2>4
  <1> QED
    BY <1>2 DEF WatchInv, AnnouncementsSound

\* A step in the store, of an invocation that goes on.
LEMMA StoreOnlyStep ==
  ASSUME WatchInv, StoreInv', WatchTypeOK', [Next]_storeVars, UNCHANGED <<watchLocals, announced>>,
         \A d \in Clients : pc'[d] = "closed" => pc[d] = "closed"
  PROVE  WatchInv'
  <1> DEFINE len == Len(disk.search_runs)
  <1>1. /\ StoreInv /\ len \in Nat /\ DOMAIN disk.search_runs = 1 .. len
        /\ run_id \in [Clients -> Nat]
    BY StoreTypes DEF WatchInv
  <1>2. /\ len <= Len(disk'.search_runs) /\ Len(disk'.search_runs) \in Nat
        /\ \A id \in 0 .. len : Ranking(id)' = Ranking(id)
    BY <1>1, RankingStays DEF StoreInv, LedgerInv, LockInv, TypeInv, TypeOK, Database
  <1>3. ASSUME NEW d \in Clients
        PROVE  /\ pc[d] = "returned" => /\ pc'[d] = "returned"
                                        /\ run'[d] = run[d] /\ run_id'[d] = run_id[d]
               /\ pc'[d] = "returned" /\ pc[d] # "returned" =>
                    /\ run_id'[d] = len + 1
                    /\ \A c \in Clients : c # d => pc'[c] = pc[c] /\ run_id'[c] = run_id[c]
    BY <1>1, ReturnedStep
  <1> HIDE DEF len
  <1>4. BaselineOlder'
    <2> SUFFICES ASSUME NEW c \in Clients,
                        phase[c] \in {"idle", "loading", "searching", "notifying"}
                 PROVE  /\ baseline[c] \in 0 .. Len(disk'.search_runs)
                        /\ previous[c] = Ranking(baseline[c])'
                        /\ pc'[c] = "returned" => baseline[c] < run_id'[c]
      BY DEF BaselineOlder, watchLocals
    <2>1. /\ baseline[c] \in 0 .. len /\ previous[c] = Ranking(baseline[c])
          /\ pc[c] = "returned" => baseline[c] < run_id[c]
      BY DEF WatchInv, BaselineOlder, len
    <2>2. previous[c] = Ranking(baseline[c])'
      BY <1>2, <2>1 DEF watchLocals
    <2>3. baseline[c] \in 0 .. Len(disk'.search_runs)
      BY <1>1, <1>2, <2>1
    <2>4. pc'[c] = "returned" => baseline[c] < run_id'[c]
      BY <1>1, <1>3, <2>1
    <2> QED
      BY <2>2, <2>3, <2>4
  <1>5. EventsReady'
    BY <1>3 DEF WatchInv, EventsReady, watchLocals
  <1>6. NotYetAnnounced'
    <2>1. \A n \in DOMAIN announced : announced[n].run \in 1 .. len
      BY <1>1 DEF WatchInv, AnnouncementsSound
    <2> QED
      BY <1>1, <1>3, <2>1 DEF WatchInv, NotYetAnnounced, watchLocals
  <1>7. OwnIds'
    <2>1. \A d \in Clients : pc[d] = "returned" => run_id[d] \in 1 .. len
      BY <1>1 DEF StoreInv, SavedRunIsMine
    <2> QED
      BY <1>1, <1>3, <2>1 DEF WatchInv, OwnIds
  <1> QED
    BY <1>4, <1>5, <1>6, <1>7, AnnouncedStaySound DEF WatchInv

\* A process is gone, and its place is as at the start.
LEMMA GoneStep ==
  ASSUME WatchInv, StoreInv', WatchTypeOK', NEW c \in Clients, Gone(c)
  PROVE  WatchInv'
  <1>1. /\ disk' = disk /\ announced' = announced
        /\ pc'[c] = "closed"
        /\ \A d \in Clients : d # c => pc'[d] = pc[d] /\ run'[d] = run[d] /\ run_id'[d] = run_id[d]
    BY StoreTypes DEF WatchInv, Gone, Exit, storeVars
  <1>2. /\ phase'[c] = "idle" /\ previous'[c] = <<>> /\ baseline'[c] = 0
        /\ \A d \in Clients : d # c => /\ phase'[d] = phase[d] /\ previous'[d] = previous[d]
                                       /\ baseline'[d] = baseline[d] /\ events'[d] = events[d]
    BY DEF WatchInv, WatchTypeOK, Gone
  <1>3. Len(disk.search_runs) \in Nat /\ Ranking(0) = <<>>
    BY StoreTypes DEF WatchInv, Ranking
  <1>4. \A id : Ranking(id)' = Ranking(id)
    BY <1>1 DEF Ranking
  <1>5. BaselineOlder'
    BY <1>1, <1>2, <1>3, <1>4 DEF WatchInv, BaselineOlder
  <1>6. EventsReady' /\ NotYetAnnounced' /\ OwnIds'
    BY <1>1, <1>2 DEF WatchInv, EventsReady, NotYetAnnounced, OwnIds
  <1>7. AnnouncementsSound'
    BY <1>1, <1>4 DEF WatchInv, AnnouncementsSound
  <1> QED
    BY <1>5, <1>6, <1>7 DEF WatchInv

\* A step of main() between its calls of the store, which changes nothing stored.
LEMMA StepsOfMain ==
  ASSUME WatchInv, StoreInv', WatchTypeOK', UNCHANGED storeVars, announced' = announced,
         BaselineOlder', EventsReady',
         \A c \in Clients : pc[c] = "returned" /\ phase'[c] # "done" => phase[c] # "done"
  PROVE  WatchInv'
  <1>1. \A id : Ranking(id)' = Ranking(id)
    BY DEF Ranking, storeVars
  <1>2. AnnouncementsSound'
    BY <1>1 DEF WatchInv, AnnouncementsSound, storeVars
  <1>3. NotYetAnnounced' /\ OwnIds'
    BY DEF WatchInv, NotYetAnnounced, OwnIds, storeVars
  <1> QED
    BY <1>2, <1>3 DEF WatchInv

\* Between load_run and the comparison previous is the ranking of the baseline.
LEMMA LoadPreviousStep ==
  ASSUME WatchInv, StoreInv', WatchTypeOK', NEW c \in Clients, LoadPrevious(c)
  PROVE  WatchInv'
  <1> DEFINE len == Len(disk.search_runs)
  <1>1. /\ UNCHANGED <<storeVars, events>> /\ announced' = announced
        /\ phase[c] = "loading" /\ phase'[c] = "searching" /\ pc[c] = "ready"
        /\ \A d \in Clients : d # c => /\ phase'[d] = phase[d] /\ previous'[d] = previous[d]
                                       /\ baseline'[d] = baseline[d]
    BY DEF WatchInv, WatchTypeOK, LoadPrevious
  <1>2. \/ previous'[c] = previous[c] /\ baseline'[c] = baseline[c]
        \/ /\ load_run # Null
           /\ previous'[c] = load_run.ranked /\ baseline'[c] = load_run.run_id
    BY DEF WatchInv, WatchTypeOK, LoadPrevious
  <1>3. baseline'[c] \in 0 .. len /\ previous'[c] = Ranking(baseline'[c])
    BY <1>1, <1>2, LatestRun DEF WatchInv, BaselineOlder
  <1>4. \A id : Ranking(id)' = Ranking(id)
    BY <1>1 DEF Ranking, storeVars
  <1>5. BaselineOlder'
    BY <1>1, <1>3, <1>4 DEF WatchInv, BaselineOlder, storeVars
  <1>6. EventsReady'
    BY <1>1 DEF WatchInv, EventsReady, storeVars
  <1> QED
    BY <1>1, <1>5, <1>6, StepsOfMain

\* What is announced is the comparison of the run just saved with an older one.
LEMMA NotifyStep ==
  ASSUME WatchInv, StoreInv', WatchTypeOK', NEW c \in Clients, Notify(c)
  PROVE  WatchInv'
  <1> DEFINE Notice == [run : Nat, events : SUBSET Events]
             notice == [run |-> run_id[c], events |-> events[c]]
  <1>1. /\ UNCHANGED <<storeVars, previous, baseline, events>>
        /\ announced' = Append(announced, notice)
        /\ phase[c] = "notifying" /\ phase'[c] = "done"
        /\ \A d \in Clients : d # c => phase'[d] = phase[d]
    BY DEF WatchInv, WatchTypeOK, Notify
  <1>2. /\ pc[c] = "returned"
        /\ events[c] = detect_deal_events(TopOf(run[c].ranked), previous[c])
        /\ baseline[c] \in 0 .. Len(disk.search_runs)
        /\ previous[c] = Ranking(baseline[c]) /\ baseline[c] < run_id[c]
    BY <1>1 DEF WatchInv, EventsReady, BaselineOlder
  <1>3. run_id[c] \in Nat /\ run[c] \in Runs /\ Len(disk.search_runs) \in Nat
    BY <1>2, StoreTypes DEF WatchInv
  <1>4. run_id[c] \in DOMAIN disk.search_runs /\ Ranking(run_id[c]) = run[c].ranked
    <2>0. /\ run_id[c] \in DOMAIN disk.search_runs
          /\ disk.search_runs[run_id[c]] =
               [started_at |-> observed_at[c], result |-> result_json(run[c], run_id[c])]
      BY <1>2 DEF WatchInv, StoreInv, SavedRunIsMine
    <2>1. /\ run_id[c] \in DOMAIN disk.search_runs
          /\ disk.search_runs[run_id[c]].result = result_json(run[c], run_id[c])
      BY <2>0
    <2>2. result_json(run[c], run_id[c]) \in Results
      BY <1>3, RunTypes
    <2>3. result_json(run[c], run_id[c]) # Null
      BY <2>2, ConstantsAssumption DEF Results
    <2> QED
      BY <2>1, <2>3 DEF Ranking, result_json
  <1>5. \A n \in DOMAIN announced : announced[n].run # run_id[c]
    BY <1>1, <1>2 DEF WatchInv, NotYetAnnounced
  <1>6. notice.run = run_id[c] /\ notice.events = events[c] /\ notice \in Notice
    BY <1>3 DEF WatchInv, WatchTypeOK
  <1> HIDE DEF notice
  <1>7. announced \in Seq(Notice)
    BY DEF WatchInv, WatchTypeOK
  <1> HIDE DEF Notice
  <1>8. /\ DOMAIN announced' = DOMAIN announced \cup {Len(announced) + 1}
        /\ Len(announced) + 1 \notin DOMAIN announced
        /\ announced'[Len(announced) + 1] = notice
        /\ \A n \in DOMAIN announced : announced'[n] = announced[n]
    BY <1>1, <1>6, <1>7
  <1>9. \A id : Ranking(id)' = Ranking(id)
    BY <1>1 DEF Ranking, storeVars
  <1>10. \E id \in 0 .. notice.run - 1 :
           notice.events = detect_deal_events(TopOf(Ranking(notice.run)), Ranking(id))
    <2>1. baseline[c] \in 0 .. run_id[c] - 1
      BY <1>2, <1>3
    <2> QED
      BY <1>2, <1>4, <1>6, <2>1
  <1>11. AnnouncementsSound'
    <2>1. ASSUME NEW n \in DOMAIN announced'
          PROVE  /\ announced'[n].run \in DOMAIN disk'.search_runs
                 /\ \E id \in 0 .. announced'[n].run - 1 :
                      announced'[n].events =
                        detect_deal_events(TopOf(Ranking(announced'[n].run)), Ranking(id))
      BY <1>1, <1>4, <1>6, <1>8, <1>10 DEF WatchInv, AnnouncementsSound, storeVars
    <2>2. \A n, m \in DOMAIN announced' : announced'[n].run = announced'[m].run => n = m
      BY <1>5, <1>6, <1>8 DEF WatchInv, AnnouncementsSound
    <2> QED
      BY <1>9, <2>1, <2>2 DEF AnnouncementsSound
  <1>12. NotYetAnnounced'
    <2> SUFFICES ASSUME NEW d \in Clients, pc[d] = "returned", phase'[d] # "done",
                        NEW n \in DOMAIN announced'
                 PROVE  announced'[n].run # run_id[d]
      BY <1>1 DEF NotYetAnnounced, storeVars
    <2>1. d # c /\ phase[d] # "done"
      BY <1>1
    <2>2. run_id[d] # run_id[c]
      BY <1>2, <2>1 DEF WatchInv, OwnIds
    <2> QED
      BY <1>6, <1>8, <2>1, <2>2 DEF WatchInv, NotYetAnnounced
  <1>13. BaselineOlder'
    BY <1>1, <1>9 DEF WatchInv, BaselineOlder, storeVars
  <1>14. EventsReady' /\ OwnIds'
    BY <1>1 DEF WatchInv, EventsReady, OwnIds, storeVars
  <1> QED
    BY <1>11, <1>12, <1>13, <1>14 DEF WatchInv

\* One step of the command line keeps the invariant.
LEMMA WatchInvStep == WatchInv /\ [WatchNext]_watchVars => WatchInv'
  <1> SUFFICES ASSUME WatchInv, [WatchNext]_watchVars PROVE WatchInv'
    OBVIOUS
  <1>0. StoreInv' /\ WatchTypeOK' /\ [Next]_storeVars
    BY StoreInvStep, WatchTypeStep, WatchStepIsStoreStep DEF WatchInv
  <1>pc. pc \in [Clients -> PCs]
    BY StoreTypes DEF WatchInv
  <1>1. CASE Tick /\ UNCHANGED <<watchLocals, announced>>
    BY <1>0, <1>1, StoreOnlyStep DEF Tick, locals
  <1>2. ASSUME NEW c \in Clients, OpenRepository(c) PROVE WatchInv'
    BY <1>0, <1>pc, <1>2, StoreOnlyStep DEF OpenRepository, Initialize
  <1>3. ASSUME NEW c \in Clients, NEW r \in Runs, Search(c, r) PROVE WatchInv'
    BY <1>0, <1>pc, <1>3, StoreOnlyStep DEF Search, SaveRun
  <1>4. ASSUME NEW c \in Clients, Saving(c) PROVE WatchInv'
    <2>1. \A d \in Clients : pc'[d] = "closed" => pc[d] = "closed"
      BY <1>pc, <1>4
      DEF Saving, Advance, AddColumn, InsertRun, LockTimeout, SaveListing, Commit
    <2> QED
      BY <1>0, <1>4, <2>1, StoreOnlyStep DEF Saving
  <1>5. ASSUME NEW c \in Clients, SavingFails(c) PROVE WatchInv'
    BY <1>0, <1>pc, <1>5, StoreOnlyStep DEF SavingFails, StatementFails
  <1>6. ASSUME NEW c \in Clients, Gone(c) PROVE WatchInv'
    BY <1>0, <1>6, GoneStep
  <1>7. ASSUME NEW c \in Clients, LoadPrevious(c) PROVE WatchInv'
    BY <1>0, <1>7, LoadPreviousStep
  <1>8. ASSUME NEW c \in Clients, Notify(c) PROVE WatchInv'
    BY <1>0, <1>8, NotifyStep
  <1>9. ASSUME NEW c \in Clients, NEW cmd \in Commands, Start(c, cmd) PROVE WatchInv'
    <2>1. /\ UNCHANGED <<storeVars, previous, baseline, events>> /\ announced' = announced
          /\ phase[c] = "idle" /\ phase'[c] \in {"loading", "searching", "showing"}
          /\ \A d \in Clients : d # c => phase'[d] = phase[d]
      BY <1>9, WatchAssumption DEF Start, WatchInv, WatchTypeOK
    <2>2. \A id : Ranking(id)' = Ranking(id)
      BY <2>1 DEF Ranking, storeVars
    <2>3. BaselineOlder' /\ EventsReady'
      BY <2>1, <2>2 DEF WatchInv, BaselineOlder, EventsReady, storeVars
    <2> QED
      BY <1>0, <2>1, <2>3, StepsOfMain
  <1>10. ASSUME NEW c \in Clients, Compare(c) PROVE WatchInv'
    <2>1. /\ UNCHANGED <<storeVars, previous, baseline>> /\ announced' = announced
          /\ phase[c] = "searching" /\ phase'[c] = "notifying" /\ pc[c] = "returned"
          /\ events'[c] = detect_deal_events(TopOf(run[c].ranked), previous[c])
          /\ \A d \in Clients : d # c => phase'[d] = phase[d] /\ events'[d] = events[d]
      BY <1>10 DEF Compare, WatchInv, WatchTypeOK
    <2>2. \A id : Ranking(id)' = Ranking(id)
      BY <2>1 DEF Ranking, storeVars
    <2>3. BaselineOlder' /\ EventsReady'
      BY <2>1, <2>2 DEF WatchInv, BaselineOlder, EventsReady, storeVars
    <2> QED
      BY <1>0, <2>1, <2>3, StepsOfMain
  <1>11. ASSUME NEW c \in Clients, ShowLatest(c) \/ \E rank \in 0 .. Top : ShowRank(c, rank)
         PROVE  WatchInv'
    <2>1. /\ UNCHANGED <<storeVars, previous, events>> /\ announced' = announced
          /\ phase[c] \in {"showing", "selecting"} /\ phase'[c] \in {"selecting", "done"}
          /\ \A d \in Clients : d # c => phase'[d] = phase[d] /\ baseline'[d] = baseline[d]
      BY <1>11 DEF ShowLatest, ShowRank, WatchInv, WatchTypeOK
    <2>2. \A id : Ranking(id)' = Ranking(id)
      BY <2>1 DEF Ranking, storeVars
    <2>3. BaselineOlder' /\ EventsReady'
      BY <2>1, <2>2 DEF WatchInv, BaselineOlder, EventsReady, storeVars
    <2> QED
      BY <1>0, <2>1, <2>3, StepsOfMain
  <1>12. CASE UNCHANGED watchVars
    BY <1>0, <1>12, StoreOnlyStep DEF watchVars, watchLocals, storeVars
  <1> QED
    BY <1>1, <1>2, <1>3, <1>4, <1>5, <1>6, <1>7, <1>8, <1>9, <1>10, <1>11, <1>12
    DEF WatchNext, Progress, End, Abort, NotifierFails, Kill

\* However many invocations overlap, and wherever they die, a notification is about a
\* stored run, compares it with an older stored one, and is sent once.
THEOREM AnnouncementsStaySound == WatchSpec => []AnnouncementsSound
  <1>1. WatchInv => AnnouncementsSound
    BY DEF WatchInv
  <1> QED
    BY <1>1, WatchInvInit, WatchInvStep, PTL DEF WatchSpec

-----------------------------------------------------------------------------
(* What `show` answers, where no two offers of a search run share a key.    *)

ShownSoFar ==
  /\ \A c \in Clients : phase[c] = "selecting" => baseline[c] \in 0 .. Len(disk.search_runs)
  /\ \A c \in Clients : phase[c] # "done" => shown[c] = NothingShown
  /\ ShownFromOneRun

ShowInv == WatchInv /\ RowsHoldRanked /\ ShownSoFar

\* The store goes on: what was shown is still what the same run ranks.
LEMMA ShownStays ==
  ASSUME ShowInv, StoreInv', [Next]_storeVars, UNCHANGED watchLocals
  PROVE  ShownSoFar'
  <1>1. /\ StoreInv /\ Len(disk.search_runs) \in Nat /\ Len(disk'.search_runs) \in Nat
        /\ DOMAIN disk.search_runs = 1 .. Len(disk.search_runs)
    BY StoreTypes DEF ShowInv, WatchInv, StoreInv, LedgerInv, LockInv, TypeInv, TypeOK, Database
  <1>2. /\ Len(disk.search_runs) <= Len(disk'.search_runs)
        /\ \A id \in 0 .. Len(disk.search_runs) : Ranking(id)' = Ranking(id)
        /\ \A id \in DOMAIN disk.search_runs : /\ id \in DOMAIN disk'.search_runs
                                               /\ disk'.search_runs[id] = disk.search_runs[id]
    BY <1>1, RankingStays, RunsStay DEF StoreInv, LedgerInv
  <1>3. UNCHANGED <<phase, baseline, shown>>
    BY DEF watchLocals
  <1>4. ASSUME NEW c \in Clients, phase[c] = "done", shown[c].rank # 0, baseline[c] # 0
        PROVE  /\ baseline[c] \in DOMAIN disk'.search_runs
               /\ disk'.search_runs[baseline[c]].result # Null =>
                    shown[c].items = {Ranking(baseline[c])'[n] :
                                        n \in {shown[c].rank} \cap DOMAIN Ranking(baseline[c])'}
    <2>1. /\ baseline[c] \in DOMAIN disk.search_runs
          /\ disk.search_runs[baseline[c]].result # Null =>
               shown[c].items = {Ranking(baseline[c])[n] :
                                   n \in {shown[c].rank} \cap DOMAIN Ranking(baseline[c])}
      BY <1>4 DEF ShowInv, ShownSoFar, ShownFromOneRun
    <2>2. Ranking(baseline[c])' = Ranking(baseline[c])
      BY <1>1, <1>2, <1>3, <2>1
    <2> QED
      BY <1>2, <2>1, <2>2
  <1>5. ShownFromOneRun'
    BY <1>3, <1>4 DEF ShownFromOneRun
  <1>6. \A c \in Clients : phase[c] = "selecting" => baseline[c] \in 0 .. Len(disk'.search_runs)
    BY <1>1, <1>2 DEF ShowInv, ShownSoFar
  <1> QED
    BY <1>3, <1>5, <1>6 DEF ShowInv, ShownSoFar

\* A step of main() by one invocation that stores nothing.
LEMMA ShownMainStep ==
  ASSUME ShowInv, disk' = disk, NEW c \in Clients,
         \A d \in Clients : d # c => /\ phase'[d] = phase[d] /\ baseline'[d] = baseline[d]
                                     /\ shown'[d] = shown[d],
         phase'[c] = "selecting" => baseline'[c] \in 0 .. Len(disk.search_runs),
         phase'[c] # "done" => shown'[c] = NothingShown,
         phase'[c] = "done" => \/ shown'[c] = NothingShown
                               \/ /\ baseline'[c] \in 0 .. Len(disk.search_runs)
                                  /\ shown'[c].rank \in Nat
                                  /\ shown'[c].items = load_rank(shown'[c].rank, baseline'[c])
  PROVE  ShownSoFar'
  <1>1. /\ DOMAIN disk.search_runs = 1 .. Len(disk.search_runs) /\ Len(disk.search_runs) \in Nat
        /\ LedgerInv /\ RowsHoldRanked
    BY StoreTypes DEF ShowInv, WatchInv, StoreInv
  <1>2. ASSUME phase'[c] = "done", shown'[c].rank # 0, baseline'[c] # 0
        PROVE  /\ baseline'[c] \in DOMAIN disk.search_runs
               /\ disk.search_runs[baseline'[c]].result # Null =>
                    shown'[c].items = {Ranking(baseline'[c])[n] :
                                         n \in {shown'[c].rank} \cap DOMAIN Ranking(baseline'[c])}
    <2>1. /\ baseline'[c] \in 0 .. Len(disk.search_runs)
          /\ shown'[c].items = load_rank(shown'[c].rank, baseline'[c])
      BY <1>2 DEF NothingShown
    <2>2. baseline'[c] \in DOMAIN disk.search_runs
      BY <1>1, <1>2, <2>1
    <2>3. ASSUME disk.search_runs[baseline'[c]].result # Null
          PROVE  Ranking(baseline'[c]) = disk.search_runs[baseline'[c]].result.ranked
      BY <2>2, <2>3 DEF Ranking
    <2> QED
      BY <1>1, <1>2, <2>1, <2>2, <2>3, RankFound
  <1>3. \A id : Ranking(id)' = Ranking(id)
    BY DEF Ranking
  <1>4. ASSUME NEW d \in Clients, phase'[d] = "done", shown'[d].rank # 0, baseline'[d] # 0
        PROVE  /\ baseline'[d] \in DOMAIN disk.search_runs
               /\ disk.search_runs[baseline'[d]].result # Null =>
                    shown'[d].items = {Ranking(baseline'[d])[n] :
                                         n \in {shown'[d].rank} \cap DOMAIN Ranking(baseline'[d])}
    <2>1. CASE d = c
      BY <1>2, <1>4, <2>1
    <2>2. CASE d # c
      BY <1>4, <2>2 DEF ShowInv, ShownSoFar, ShownFromOneRun
    <2> QED
      BY <2>1, <2>2
  <1>5. ShownFromOneRun'
    BY <1>3, <1>4 DEF ShownFromOneRun
  <1> QED
    BY <1>5 DEF ShowInv, ShownSoFar

LEMMA ShownStep ==
  ASSUME \A r \in Runs : OneOfferPerKey(r),
         ShowInv, [WatchNext]_watchVars
  PROVE  ShowInv'
  <1>0. WatchInv /\ WatchInv' /\ StoreInv' /\ [Next]_storeVars
    BY WatchInvStep, WatchStepIsStoreStep DEF ShowInv, WatchInv
  <1>r. RowsHoldRanked'
    BY <1>0, RowsHeldStep DEF ShowInv, WatchInv, StoreInv
  <1>t. /\ phase \in [Clients -> Phases] /\ baseline \in [Clients -> Nat]
        /\ shown \in [Clients -> [rank : Nat, items : SUBSET Items]]
        /\ Len(disk.search_runs) \in Nat
        /\ \A c \in Clients : /\ phase[c] # "done" => shown[c] = NothingShown
                              /\ phase[c] = "selecting" => baseline[c] \in 0 .. Len(disk.search_runs)
    BY <1>0, StoreTypes DEF ShowInv, ShownSoFar, WatchInv, WatchTypeOK
  <1>1. ASSUME UNCHANGED watchLocals PROVE ShownSoFar'
    BY <1>0, <1>1, ShownStays
  <1>2. ASSUME NEW c \in Clients, Gone(c) PROVE ShownSoFar'
    <2>1. disk' = disk /\ phase'[c] = "idle" /\ shown'[c] = NothingShown
      BY <1>0, <1>2, <1>t, StoreTypes DEF Gone, Exit, storeVars, WatchInv
    <2>2. \A d \in Clients : d # c => /\ phase'[d] = phase[d] /\ baseline'[d] = baseline[d]
                                      /\ shown'[d] = shown[d]
      BY <1>2 DEF Gone
    <2> QED
      BY <2>1, <2>2, ShownMainStep
  <1>3. ASSUME NEW c \in Clients,
               LoadPrevious(c) \/ Compare(c) \/ Notify(c) \/ \E cmd \in Commands : Start(c, cmd)
        PROVE  ShownSoFar'
    <2>1. /\ disk' = disk /\ shown' = shown
          /\ phase[c] # "done" /\ phase'[c] # "selecting"
          /\ \A d \in Clients : d # c => phase'[d] = phase[d] /\ baseline'[d] = baseline[d]
      BY <1>3, <1>t, WatchAssumption DEF LoadPrevious, Compare, Notify, Start, storeVars
    <2> QED
      BY <1>t, <2>1, ShownMainStep
  <1>4. ASSUME NEW c \in Clients, ShowLatest(c) PROVE ShownSoFar'
    <2>1. /\ disk' = disk /\ shown' = shown
          /\ phase[c] = "showing" /\ phase'[c] = "selecting"
          /\ baseline'[c] = Len(disk.search_runs)
          /\ \A d \in Clients : d # c => phase'[d] = phase[d] /\ baseline'[d] = baseline[d]
      BY <1>4, <1>t DEF ShowLatest, storeVars
    <2> QED
      BY <1>t, <2>1, ShownMainStep
  <1>5. ASSUME NEW c \in Clients, NEW rank \in 0 .. Top, ShowRank(c, rank) PROVE ShownSoFar'
    <2>1. /\ disk' = disk /\ baseline' = baseline
          /\ phase[c] = "selecting" /\ phase'[c] = "done"
          /\ shown'[c] = [rank |-> rank, items |-> load_rank(rank, baseline[c])]
          /\ \A d \in Clients : d # c => phase'[d] = phase[d] /\ shown'[d] = shown[d]
      BY <1>5, <1>t DEF ShowRank, storeVars
    <2>2. rank \in Nat
      BY WatchAssumption
    <2>3. shown'[c].rank = rank /\ shown'[c].items = load_rank(rank, baseline[c])
      BY <2>1
    <2>4. \A d \in Clients : d # c => /\ phase'[d] = phase[d] /\ baseline'[d] = baseline[d]
                                      /\ shown'[d] = shown[d]
      BY <2>1
    <2> HIDE DEF load_rank
    <2> QED
      BY <1>t, <2>1, <2>2, <2>3, <2>4, ShownMainStep
  <1>6. ShownSoFar'
    BY <1>1, <1>2, <1>3, <1>4, <1>5
    DEF WatchNext, Progress, OpenRepository, Search, Saving, SavingFails, End, Abort, NotifierFails,
        Kill, watchVars, watchLocals
  <1> QED
    BY <1>0, <1>6, <1>r DEF ShowInv

\* If no two offers of a run share a key, `show` answers out of the run that was the
\* latest when it looked, however many invocations save in the meantime.
THEOREM ShowsOneRun ==
  ASSUME \A r \in Runs : OneOfferPerKey(r)
  PROVE  WatchSpec => []ShownFromOneRun
  <1>1. WatchInit => ShowInv
    <2> SUFFICES ASSUME WatchInit PROVE ShowInv
      OBVIOUS
    <2>1. WatchInv /\ RowsHoldRanked
      BY WatchInvInit, RowsHeldInit DEF WatchInit
    <2>2. ShownSoFar
      BY DEF WatchInit, ShownSoFar, ShownFromOneRun
    <2> QED
      BY <2>1, <2>2 DEF ShowInv
  <1>2. ShowInv /\ [WatchNext]_watchVars => ShowInv'
    BY ShownStep
  <1>3. ShowInv => ShownFromOneRun
    BY DEF ShowInv, ShownSoFar
  <1> QED
    BY <1>1, <1>2, <1>3, PTL DEF WatchSpec

=============================================================================

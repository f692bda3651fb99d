--------------------------- MODULE DealStoreProofs ---------------------------
(***************************************************************************)
(* Proofs about DealStore for every number of clients, keys, listings and  *)
(* runs and for every bound, and that it implements DealLedger.            *)
(***************************************************************************)
EXTENDS DealStore, ListProofs, SequenceTheorems, TLAPS

-----------------------------------------------------------------------------
(* Type correctness.  A client in save_run has a run in its hands.         *)

RunKnown == \A c \in Clients : pc[c] \in {"waiting", "writing", "returned"} => run[c] \in Runs

TypeInv == TypeOK /\ RunKnown

\* What save_run reads off a search run has the types of the columns it fills.
LEMMA RunTypes ==
  ASSUME NEW r \in Runs
  PROVE  /\ r.ranked \in Seq(Items)
         /\ Observed(r) \in Seq(Items)
         /\ KeysIn(Observed(r)) \subseteq Keys
         /\ \A k : unique_observed(r, k) \subseteq Items
         /\ \A k : rank_by_key(r, k) \subseteq Nat
         /\ \A id \in Nat : result_json(r, id) \in Results
  <1>1. r \in [ranked : Seq(Items), observed : Seq(Items)]
    BY ConstantsAssumption DEF RunsAssumption
  <1>2. r.ranked \in Seq(Items) /\ Observed(r) \in Seq(Items)
    BY <1>1 DEF Observed
  <1>3. \A s \in Seq(Items) : \A i \in DOMAIN s : s[i] \in Items /\ i \in Nat
    OBVIOUS
  <1>4. KeysIn(Observed(r)) \subseteq Keys
    BY <1>2, <1>3, ConstantsAssumption DEF KeysIn
  <1>5. \A k : unique_observed(r, k) \subseteq Items
    BY <1>2, <1>3 DEF unique_observed, LastAt
  <1>6. \A k : rank_by_key(r, k) \subseteq Nat
    BY <1>2, <1>3 DEF rank_by_key, LastAt
  <1>7. \A id \in Nat : result_json(r, id) \in Results
    BY <1>2 DEF result_json, Results
  <1> QED
    BY <1>2, <1>4, <1>5, <1>6, <1>7

\* UPDATE search_runs SET result_json leaves a table of runs.
LEMMA ResultStored ==
  ASSUME NEW s \in Seq(RunRow), NEW i \in Nat, NEW result \in Results
  PROVE  [s EXCEPT ![i].result = result] \in Seq(RunRow)
  <1>1. ASSUME i \in 1 .. Len(s)
        PROVE  [s EXCEPT ![i].result = result] \in Seq(RunRow)
    <2> DEFINE row == [s[i] EXCEPT !.result = result]
    <2>1. s[i] \in RunRow
      BY <1>1
    <2>2. row \in RunRow
      BY <2>1 DEF RunRow
    <2>3. [s EXCEPT ![i] = row] \in Seq(RunRow)
      BY <1>1, <2>2, ExceptSeq
    <2> QED
      BY <2>3
  <1>2. ASSUME i \notin 1 .. Len(s)
        PROVE  [s EXCEPT ![i].result = result] \in Seq(RunRow)
    <2>1. [s EXCEPT ![i].result = result] = s
      BY <1>2
    <2> QED
      BY <2>1
  <1> QED
    BY <1>1, <1>2

LEMMA TypeInit == Init => TypeInv
  <1> SUFFICES ASSUME Init PROVE TypeInv
    OBVIOUS
  <1>1. EmptyDatabase \in Database
    BY DEF EmptyDatabase, Database
  <1>2. ASSUME NEW item \in Items
        PROVE  LegacyDatabase(item) \in Database
    <2>1. item.key \in Keys
      BY ConstantsAssumption
    <2>2. LegacyDatabase(item).search_runs \in Seq(RunRow)
      BY DEF LegacyDatabase, RunRow
    <2>3. LegacyDatabase(item).listings \in [Keys -> ListingRow \cup {Null}]
      BY DEF LegacyDatabase, ListingRow
    <2>4. LegacyDatabase(item).observations \in SUBSET Row
      BY <2>1 DEF LegacyDatabase, Row
    <2> QED
      BY <2>2, <2>3, <2>4 DEF LegacyDatabase, Database
  <1>3. disk \in Database
    BY <1>1, <1>2 DEF Init
  <1> QED
    BY <1>3 DEF Init, TypeInv, TypeOK, RunKnown, PCs

\* One step of the store keeps the types.
LEMMA TypeStep == TypeInv /\ [Next]_storeVars => TypeInv'
  <1> SUFFICES ASSUME TypeInv, [Next]_storeVars PROVE TypeInv'
    OBVIOUS
  <1> USE DEF TypeInv, TypeOK, RunKnown, PCs
  <1>1. CASE Tick
    BY <1>1 DEF Tick, tables, locals
  <1>2. ASSUME NEW c \in Clients, Initialize(c) PROVE TypeInv'
    BY <1>2 DEF Initialize
  <1>3. ASSUME NEW c \in Clients, AddColumn(c) PROVE TypeInv'
    BY <1>3 DEF AddColumn
  <1>4. ASSUME NEW c \in Clients, NEW r \in Runs, SaveRun(c, r) PROVE TypeInv'
    BY <1>4 DEF SaveRun, tables
  <1>5. ASSUME NEW c \in Clients, InsertRun(c) PROVE TypeInv'
    <2>1. run[c] \in Runs
      BY <1>5 DEF InsertRun
    <2>2. [started_at |-> observed_at[c], result |-> result_json(run[c], 0)] \in RunRow
      BY <2>1, RunTypes DEF RunRow
    <2>3. pages' \in Database
      <3> DEFINE row == [started_at |-> observed_at[c], result |-> result_json(run[c], 0)]
      <3>1. disk.search_runs \in Seq(RunRow)
        BY DEF Database
      <3>2. Append(disk.search_runs, row) \in Seq(RunRow)
        BY <2>2, <3>1
      <3>3. pages' = [disk EXCEPT !.search_runs = Append(@, row)]
        BY <1>5 DEF InsertRun
      <3> QED
        BY <3>2, <3>3 DEF Database
    <2>4. run_id' \in [Clients -> Nat]
      <3>1. Len(disk.search_runs) + 1 \in Nat
        BY DEF Database
      <3>2. run_id' = [run_id EXCEPT ![c] = Len(disk.search_runs) + 1]
        BY <1>5 DEF InsertRun
      <3> QED
        BY <3>1, <3>2
    <2>5. todo' \in [Clients -> SUBSET Keys]
      BY <1>5, <2>1, RunTypes DEF InsertRun
    <2> QED
      BY <1>5, <2>3, <2>4, <2>5 DEF InsertRun
  <1>6. ASSUME NEW c \in Clients, LockTimeout(c) PROVE TypeInv'
    BY <1>6 DEF LockTimeout, tables
  <1>7. ASSUME NEW c \in Clients, NEW k \in Keys, SaveListing(c, k) PROVE TypeInv'
    <2>1. run[c] \in Runs
      BY <1>7 DEF SaveListing
    <2>2. PICK item \in unique_observed(run[c], k), rank \in rank_by_key(run[c], k) :
            pages' = [pages EXCEPT
                        !.listings = Upsert(@, k, observed_at[c]),
                        !.observations = Observe(@, [run_id |-> run_id[c], key |-> k, item |-> item,
                                                     rank |-> rank, observed_at |-> observed_at[c]])]
      BY <1>7 DEF SaveListing
    <2>3. item \in Items /\ rank \in Nat
      BY <2>1, RunTypes
    <2>4. Upsert(pages.listings, k, observed_at[c]) \in [Keys -> ListingRow \cup {Null}]
      BY DEF Upsert, Database, ListingRow
    <2>5. [run_id |-> run_id[c], key |-> k, item |-> item, rank |-> rank,
           observed_at |-> observed_at[c]] \in Row
      BY <2>3 DEF Row
    <2>6. pages' \in Database
      BY <2>2, <2>4, <2>5 DEF Database, Observe
    <2> QED
      BY <1>7, <2>6 DEF SaveListing
  <1>8. ASSUME NEW c \in Clients, Commit(c) PROVE TypeInv'
    <2>1. run[c] \in Runs
      BY <1>8 DEF Commit
    <2>2. result_json(run[c], run_id[c]) \in Results
      BY <2>1, RunTypes
    <2>3. [pages.search_runs EXCEPT ![run_id[c]].result = result_json(run[c], run_id[c])]
            \in Seq(RunRow)
      BY <2>2, ResultStored DEF Database
    <2>4. disk' \in Database
      BY <1>8, <2>3 DEF Commit, Database
    <2> QED
      BY <1>8, <2>4 DEF Commit
  <1>9. ASSUME NEW c \in Clients, StatementFails(c) PROVE TypeInv'
    BY <1>9 DEF StatementFails
  <1>10. ASSUME NEW c \in Clients, Exit(c) PROVE TypeInv'
    BY <1>10 DEF Exit
  <1>11. CASE UNCHANGED storeVars
    BY <1>11 DEF storeVars
  <1> QED
    BY <1>1, <1>2, <1>3, <1>4, <1>5, <1>6, <1>7, <1>8, <1>9, <1>10, <1>11
    DEF Next, StoreStep, Advance

\* The tables, the lock and every client's variables keep their types in every
\* behaviour: no NULL, no foreign key or rank of the wrong kind is ever written.
THEOREM TypeCorrect == Spec => []TypeOK
  <1>1. TypeInv => TypeOK
    BY DEF TypeInv
  <1> QED
    BY <1>1, TypeInit, TypeStep, PTL DEF Spec

-----------------------------------------------------------------------------
(* The inductive invariant of the transactions.  Besides Isolation it says *)
(* that no committed observation belongs to a run that is not there yet, so *)
(* that the id a transaction assigns is fresh, and that a writer's list    *)
(* holds keys of its own run only.                                         *)

LockInv ==
  /\ TypeInv
  /\ Isolation
  /\ ReferencesExist(disk)
  /\ writer # NoClient => todo[writer] \subseteq KeysIn(Observed(run[writer]))

LEMMA LockInit == Init => LockInv
  <1> SUFFICES ASSUME Init PROVE LockInv
    OBVIOUS
  <1>1. TypeInv
    BY TypeInit
  <1>2. Isolation
    BY ConstantsAssumption DEF Init, Isolation
  <1>3. ReferencesExist(disk)
    <2>1. ReferencesExist(EmptyDatabase)
      BY DEF EmptyDatabase, ReferencesExist
    <2>2. \A item \in Items : ReferencesExist(LegacyDatabase(item))
      BY DEF LegacyDatabase, ReferencesExist
    <2> QED
      BY <2>1, <2>2 DEF Init
  <1> QED
    BY <1>1, <1>2, <1>3 DEF Init, LockInv

\* A step that leaves the tables and the lock alone, and the variables of every
\* client that writes, keeps the transaction's invariant.
LEMMA BystanderStep ==
  ASSUME LockInv, TypeInv', UNCHANGED <<disk, pages, writer>>,
         \A c \in Clients : pc[c] = "writing" <=> pc'[c] = "writing",
         \A c \in Clients : pc[c] = "writing" => /\ run'[c] = run[c]
                                                 /\ run_id'[c] = run_id[c]
                                                 /\ observed_at'[c] = observed_at[c]
                                                 /\ todo'[c] = todo[c]
  PROVE  LockInv'
  <1>1. writer # NoClient => writer \in Clients /\ pc[writer] = "writing"
    BY DEF LockInv, Isolation, TypeInv, TypeOK
  <1>2. ReferencesExist(disk)'
    BY DEF LockInv, ReferencesExist
  <1>3. Isolation'
    BY <1>1 DEF LockInv, Isolation, RowsOf
  <1>4. (writer # NoClient => todo[writer] \subseteq KeysIn(Observed(run[writer])))'
    BY <1>1 DEF LockInv
  <1> QED
    BY <1>2, <1>3, <1>4 DEF LockInv

\* The transaction's steps: the INSERT that begins it.
LEMMA InsertRunStep ==
  ASSUME LockInv, TypeInv', NEW c \in Clients, InsertRun(c)
  PROVE  LockInv'
  <1> DEFINE id == Len(disk.search_runs) + 1
             row == [started_at |-> observed_at[c], result |-> result_json(run[c], 0)]
  <1>1. /\ writer = NoClient /\ writer' = c
        /\ pc' = [pc EXCEPT ![c] = "writing"] /\ pc[c] = "waiting"
        /\ run_id' = [run_id EXCEPT ![c] = id]
        /\ pages' = [disk EXCEPT !.search_runs = Append(@, row)]
        /\ todo' = [todo EXCEPT ![c] = KeysIn(Observed(run[c]))]
        /\ disk' = disk /\ run' = run /\ observed_at' = observed_at
    BY DEF InsertRun, LockFree
  <1>2. /\ disk \in Database /\ c # NoClient
        /\ pc \in [Clients -> PCs] /\ run_id \in [Clients -> Nat]
        /\ todo \in [Clients -> SUBSET Keys]
    BY ConstantsAssumption DEF LockInv, TypeInv, TypeOK
  <1>3. run_id'[c] = id /\ todo'[c] = KeysIn(Observed(run[c])) /\ pc'[c] = "writing"
    BY <1>1, <1>2
  <1>4. pages'.search_runs = Append(disk.search_runs, row)
    BY <1>1, <1>2 DEF Database
  <1>5. pages'.observations = disk.observations
    BY <1>1, <1>2 DEF Database
  <1>6. \A o \in disk.observations : o.run_id # id
    BY <1>2 DEF LockInv, ReferencesExist, Database
  <1>7. ASSUME NEW d \in Clients
        PROVE  writer' = d <=> pc'[d] = "writing"
    <2>1. writer = d <=> pc[d] = "writing"
      BY DEF LockInv, Isolation
    <2>2. CASE d = c
      BY <1>1, <1>3, <2>2
    <2>3. CASE d # c
      BY <1>1, <1>2, <2>1, <2>3, ConstantsAssumption
    <2> QED
      BY <2>2, <2>3
  <1>8. Isolation'
    <2>1. {o \in pages'.observations : o.run_id # id} = disk.observations
      BY <1>5, <1>6
    <2>2. {o.key : o \in RowsOf(pages', id)} = {}
      BY <1>5, <1>6 DEF RowsOf
    <2> QED
      BY <1>1, <1>2, <1>3, <1>4, <1>7, <2>1, <2>2 DEF Isolation
  <1>9. ReferencesExist(disk)'
    BY <1>1 DEF LockInv, ReferencesExist
  <1> QED
    BY <1>1, <1>3, <1>8, <1>9 DEF LockInv

\* One round of the loop.
LEMMA SaveListingStep ==
  ASSUME LockInv, TypeInv', NEW c \in Clients, NEW k \in Keys, SaveListing(c, k)
  PROVE  LockInv'
  <1>1. PICK item \in unique_observed(run[c], k), rank \in rank_by_key(run[c], k) :
          pages' = [pages EXCEPT
                      !.listings = Upsert(@, k, observed_at[c]),
                      !.observations = Observe(@, [run_id |-> run_id[c], key |-> k, item |-> item,
                                                   rank |-> rank, observed_at |-> observed_at[c]])]
    BY DEF SaveListing
  <1> DEFINE row == [run_id |-> run_id[c], key |-> k, item |-> item, rank |-> rank,
                     observed_at |-> observed_at[c]]
  <1>2. /\ pc[c] = "writing" /\ k \in todo[c]
        /\ todo' = [todo EXCEPT ![c] = @ \ {k}]
        /\ UNCHANGED <<disk, writer, pc, run, observed_at, run_id>>
    BY DEF SaveListing
  <1>3. writer = c /\ c # NoClient
    BY <1>2, ConstantsAssumption DEF LockInv, Isolation
  <1>4. /\ pages \in Database /\ todo \in [Clients -> SUBSET Keys]
    BY DEF LockInv, TypeInv, TypeOK
  <1>5. pages'.search_runs = pages.search_runs
    BY <1>1, <1>4 DEF Database
  <1>6. pages'.observations = pages.observations \cup {row}
    BY <1>1, <1>4 DEF Database, Observe
  <1>7. todo'[c] = todo[c] \ {k}
    BY <1>2, <1>4
  <1>8. disk.observations = {o \in pages'.observations : o.run_id # run_id[c]}
    BY <1>3, <1>6 DEF LockInv, Isolation
  <1>9. {o.key : o \in RowsOf(pages', run_id[c])} = KeysIn(Observed(run[c])) \ todo'[c]
    <2>1. {o.key : o \in RowsOf(pages, run_id[c])} = KeysIn(Observed(run[c])) \ todo[c]
      BY <1>3 DEF LockInv, Isolation
    <2>2. RowsOf(pages', run_id[c]) = RowsOf(pages, run_id[c]) \cup {row}
      BY <1>6 DEF RowsOf
    <2>3. {o.key : o \in RowsOf(pages', run_id[c])}
            = {o.key : o \in RowsOf(pages, run_id[c])} \cup {k}
      <3>1. row.key = k
        OBVIOUS
      <3> HIDE DEF row
      <3> QED
        BY <2>2, <3>1
    <2>4. k \in KeysIn(Observed(run[c]))
      BY <1>2, <1>3 DEF LockInv
    <2> QED
      BY <1>2, <1>7, <2>1, <2>3, <2>4
  <1>10. Isolation'
    BY <1>2, <1>3, <1>5, <1>8, <1>9 DEF LockInv, Isolation
  <1>11. ReferencesExist(disk)'
    BY <1>2 DEF LockInv, ReferencesExist
  <1> QED
    BY <1>2, <1>3, <1>7, <1>10, <1>11 DEF LockInv

\* The COMMIT: the transaction's tables become the committed ones.
LEMMA CommitStep ==
  ASSUME LockInv, TypeInv', NEW c \in Clients, Commit(c)
  PROVE  LockInv' /\ disk.observations \subseteq disk'.observations
  <1> DEFINE id == run_id[c]
  <1>1. /\ pc[c] = "writing" /\ pc' = [pc EXCEPT ![c] = "returned"]
        /\ disk' = [pages EXCEPT !.search_runs[id].result = result_json(run[c], id)]
        /\ pages' = disk' /\ writer' = NoClient
    BY DEF Commit
  <1>2. writer = c /\ c # NoClient
    BY <1>1, ConstantsAssumption DEF LockInv, Isolation
  <1>3. disk \in Database /\ pages \in Database /\ pc \in [Clients -> PCs]
    BY DEF LockInv, TypeInv, TypeOK
  <1>4. disk'.observations = pages.observations
    BY <1>1, <1>3 DEF Database
  <1>5. DOMAIN disk'.search_runs = DOMAIN pages.search_runs
    BY <1>1, <1>3 DEF Database
  <1>6. /\ id = Len(disk.search_runs) + 1
        /\ pages.search_runs = Append(disk.search_runs,
                                      [started_at |-> observed_at[c],
                                       result     |-> result_json(run[c], 0)])
        /\ disk.observations = {o \in pages.observations : o.run_id # id}
    BY <1>2 DEF LockInv, Isolation
  <1>7. DOMAIN pages.search_runs = DOMAIN disk.search_runs \cup {id}
    BY <1>3, <1>6 DEF Database
  <1>8. ReferencesExist(disk)'
    <2>1. \A o \in disk.observations : o.run_id \in DOMAIN disk.search_runs
      BY DEF LockInv, ReferencesExist
    <2>2. \A o \in pages.observations : o.run_id \in DOMAIN disk.search_runs \cup {id}
      BY <1>6, <2>1
    <2> QED
      BY <1>4, <1>5, <1>7, <2>2 DEF ReferencesExist
  <1>9. ASSUME NEW d \in Clients
        PROVE  writer' = d <=> pc'[d] = "writing"
    BY <1>1, <1>2, <1>3, ConstantsAssumption DEF LockInv, Isolation
  <1>10. Isolation'
    BY <1>1, <1>9 DEF Isolation
  <1>11. LockInv'
    BY <1>1, <1>8, <1>10 DEF LockInv
  <1> QED
    BY <1>4, <1>6, <1>11

\* A transaction that ends without COMMIT leaves nothing behind.
LEMMA RollbackStep ==
  ASSUME LockInv, TypeInv', NEW c \in Clients, writer = c,
         writer' = NoClient, pages' = disk, disk' = disk,
         NEW stop \in PCs \ {"writing"}, pc' = [pc EXCEPT ![c] = stop]
  PROVE  LockInv'
  <1>1. pc \in [Clients -> PCs] /\ c # NoClient
    BY ConstantsAssumption DEF LockInv, TypeInv, TypeOK
  <1>2. ASSUME NEW d \in Clients
        PROVE  writer' = d <=> pc'[d] = "writing"
    BY <1>1, ConstantsAssumption DEF LockInv, Isolation
  <1>3. Isolation'
    BY <1>2 DEF Isolation
  <1>4. ReferencesExist(disk)'
    BY DEF LockInv, ReferencesExist
  <1> QED
    BY <1>3, <1>4 DEF LockInv

\* One step of the store keeps the transaction's invariant.
LEMMA LockStep == LockInv /\ [Next]_storeVars => LockInv'
  <1> SUFFICES ASSUME LockInv, [Next]_storeVars PROVE LockInv'
    OBVIOUS
  <1>0. TypeInv'
    BY TypeStep DEF LockInv
  <1>pc. pc \in [Clients -> PCs]
    BY DEF LockInv, TypeInv, TypeOK
  <1>1. CASE Tick
    BY <1>0, <1>1, BystanderStep DEF Tick, tables, locals
  <1>2. ASSUME NEW c \in Clients, Initialize(c) PROVE LockInv'
    BY <1>0, <1>pc, <1>2, BystanderStep DEF Initialize
  <1>3. ASSUME NEW c \in Clients, AddColumn(c) PROVE LockInv'
    BY <1>0, <1>pc, <1>3, BystanderStep DEF AddColumn
  <1>4. ASSUME NEW c \in Clients, NEW r \in Runs, SaveRun(c, r) PROVE LockInv'
    <2>1. \A d \in Clients : pc[d] = "writing" => d # c
      BY <1>4 DEF SaveRun
    <2>2. run \in [Clients -> Runs \cup {Null}] /\ observed_at \in [Clients -> Nat]
      BY DEF LockInv, TypeInv, TypeOK
    <2> QED
      BY <1>0, <1>pc, <1>4, <2>1, <2>2, BystanderStep DEF SaveRun, tables
  <1>5. ASSUME NEW c \in Clients, InsertRun(c) PROVE LockInv'
    BY <1>0, <1>5, InsertRunStep
  <1>6. ASSUME NEW c \in Clients, LockTimeout(c) PROVE LockInv'
    BY <1>0, <1>pc, <1>6, BystanderStep DEF LockTimeout, tables
  <1>7. ASSUME NEW c \in Clients, NEW k \in Keys, SaveListing(c, k) PROVE LockInv'
    BY <1>0, <1>7, SaveListingStep
  <1>8. ASSUME NEW c \in Clients, Commit(c) PROVE LockInv'
    BY <1>0, <1>8, CommitStep
  <1>9. ASSUME NEW c \in Clients, StatementFails(c) PROVE LockInv'
    <2>1. writer = c
      BY <1>9 DEF StatementFails, LockInv, Isolation
    <2> QED
      BY <1>0, <1>9, <2>1, RollbackStep DEF StatementFails, PCs
  <1>10. ASSUME NEW c \in Clients, Exit(c) PROVE LockInv'
    <2>1. CASE writer = c
      BY <1>0, <1>10, <2>1, RollbackStep DEF Exit, PCs
    <2>2. CASE writer # c
      <3>1. \A d \in Clients : pc[d] = "writing" => d # c
        BY <2>2 DEF LockInv, Isolation
      <3>2. /\ run \in [Clients -> Runs \cup {Null}] /\ observed_at \in [Clients -> Nat]
            /\ run_id \in [Clients -> Nat] /\ todo \in [Clients -> SUBSET Keys]
        BY DEF LockInv, TypeInv, TypeOK
      <3> QED
        BY <1>0, <1>pc, <1>10, <2>2, <3>1, <3>2, BystanderStep DEF Exit
    <2> QED
      BY <2>1, <2>2
  <1>11. CASE UNCHANGED storeVars
    BY <1>0, <1>11, BystanderStep DEF storeVars
  <1> QED
    BY <1>1, <1>2, <1>3, <1>4, <1>5, <1>6, <1>7, <1>8, <1>9, <1>10, <1>11
    DEF Next, StoreStep, Advance

\* At most one transaction writes, and what it has written so far is one run with
\* the next id on top of the committed tables, whatever the other clients do and
\* wherever this one stops.
THEOREM TransactionsIsolated == Spec => []Isolation
  <1>1. LockInv => Isolation
    BY DEF LockInv
  <1> QED
    BY <1>1, LockInit, LockStep, PTL DEF Spec

-----------------------------------------------------------------------------
(* The committed tables only grow, and a returned id stays the caller's.   *)

\* Replacing the element that was just appended is appending the other one.
LEMMA LastReplaced ==
  ASSUME NEW S, NEW s \in Seq(S), NEW a, NEW b
  PROVE  [Append(s, a) EXCEPT ![Len(s) + 1] = b] = Append(s, b)
  <1> DEFINE T == S \cup {a, b}
             n == Len(s) + 1
             old == Append(s, a)
             left == [old EXCEPT ![n] = b]
             right == Append(s, b)
  <1>1. s \in Seq(T) /\ a \in T /\ b \in T
    OBVIOUS
  <1> HIDE DEF T
  <1>2. /\ old \in Seq(T) /\ Len(old) = n
        /\ right \in Seq(T) /\ Len(right) = n
        /\ n \in 1 .. n
    BY <1>1
  <1>3. \A i \in 1 .. n : i # n => old[i] = s[i] /\ right[i] = s[i]
    BY <1>1
  <1>4. right[n] = b
    BY <1>1
  <1> HIDE DEF n, old, right
  <1>5. /\ left \in Seq(T) /\ Len(left) = n
        /\ \A i \in 1 .. n : left[i] = IF i = n THEN b ELSE old[i]
    BY <1>1, <1>2, ExceptSeq
  <1> HIDE DEF left
  <1>6. \A i \in 1 .. n : left[i] = right[i]
    BY <1>3, <1>4, <1>5
  <1>7. left = right
    BY <1>2, <1>5, <1>6, SeqEqual
  <1> QED
    BY <1>7 DEF left, right, old, n

\* The id a client was given names its own transaction's row: a COMMIT appends
\* that row to the committed runs, and the transaction's observations to theirs.
LEMMA CommitAppends ==
  ASSUME LockInv, NEW c \in Clients, Commit(c)
  PROVE  /\ writer = c
         /\ run_id[c] = Len(disk.search_runs) + 1
         /\ disk'.search_runs =
              Append(disk.search_runs,
                     [started_at |-> observed_at[c], result |-> result_json(run[c], run_id[c])])
         /\ disk'.listings = pages.listings
         /\ disk'.observations = pages.observations
         /\ disk.observations = {o \in pages.observations : o.run_id # run_id[c]}
  <1> DEFINE id == run_id[c]
             row == [started_at |-> observed_at[c], result |-> result_json(run[c], 0)]
             final == [started_at |-> observed_at[c], result |-> result_json(run[c], id)]
  <1>1. /\ pc[c] = "writing"
        /\ disk' = [pages EXCEPT !.search_runs[id].result = result_json(run[c], id)]
    BY DEF Commit
  <1>2. writer = c /\ c # NoClient
    BY <1>1, ConstantsAssumption DEF LockInv, Isolation
  <1>3. disk \in Database /\ pages \in Database
    BY DEF LockInv, TypeInv, TypeOK
  <1>4. /\ id = Len(disk.search_runs) + 1
        /\ pages.search_runs = Append(disk.search_runs, row)
        /\ disk.observations = {o \in pages.observations : o.run_id # id}
    BY <1>2 DEF LockInv, Isolation
  <1>5. disk'.listings = pages.listings /\ disk'.observations = pages.observations
    BY <1>1, <1>3 DEF Database
  <1>6. disk'.search_runs = [pages.search_runs EXCEPT ![id].result = result_json(run[c], id)]
    BY <1>1, <1>3 DEF Database
  <1>7. pages.search_runs[id] = row
    BY <1>3, <1>4 DEF Database
  <1>8. [row EXCEPT !.result = result_json(run[c], id)] = final
    OBVIOUS
  <1>9. disk'.search_runs = [Append(disk.search_runs, row) EXCEPT ![id] = final]
    BY <1>4, <1>6, <1>7, <1>8
  <1>10. disk'.search_runs = Append(disk.search_runs, final)
    <2> HIDE DEF row, final, id
    <2>1. disk.search_runs \in Seq(RunRow)
      BY <1>3 DEF Database
    <2>2. [Append(disk.search_runs, row) EXCEPT ![Len(disk.search_runs) + 1] = final]
            = Append(disk.search_runs, final)
      BY <2>1, LastReplaced
    <2> QED
      BY <1>4, <1>9, <2>2
  <1> QED
    BY <1>2, <1>4, <1>5, <1>10

\* Only a COMMIT changes the committed tables.
LEMMA DiskStep ==
  ASSUME [Next]_storeVars
  PROVE  disk' = disk \/ \E c \in Clients : Commit(c)
  BY DEF Next, StoreStep, Advance, Tick, Initialize, AddColumn, SaveRun, InsertRun, LockTimeout,
         SaveListing, StatementFails, Exit, tables, storeVars

\* A committed run row stays where it is.
LEMMA RunsStay ==
  ASSUME LockInv, [Next]_storeVars
  PROVE  /\ \A id \in DOMAIN disk.search_runs : /\ id \in DOMAIN disk'.search_runs
                                                /\ disk'.search_runs[id] = disk.search_runs[id]
         /\ disk.observations \subseteq disk'.observations
  <1>1. CASE disk' = disk
    BY <1>1
  <1>2. ASSUME NEW c \in Clients, Commit(c)
        PROVE  /\ \A id \in DOMAIN disk.search_runs :
                    /\ id \in DOMAIN disk'.search_runs
                    /\ disk'.search_runs[id] = disk.search_runs[id]
               /\ disk.observations \subseteq disk'.observations
    <2>1. disk.search_runs \in Seq(RunRow)
      BY DEF LockInv, TypeInv, TypeOK, Database
    <2>2. PICK row : disk'.search_runs = Append(disk.search_runs, row)
      BY <1>2, CommitAppends
    <2>3. disk.observations \subseteq disk'.observations
      BY <1>2, CommitAppends
    <2> QED
      BY <2>1, <2>2, <2>3
  <1> QED
    BY <1>1, <1>2, DiskStep

\* No save, crash, rollback or migration ever changes or removes a stored run or a
\* stored observation.
THEOREM HistoryKept == Spec => AppendOnly
  <1>1. LockInv /\ [Next]_storeVars =>
          [ /\ \A id \in DOMAIN disk.search_runs :
                 /\ id \in DOMAIN disk'.search_runs
                 /\ disk'.search_runs[id] = disk.search_runs[id]
            /\ disk.observations \subseteq disk'.observations ]_storeVars
    BY RunsStay
  <1> QED
    BY <1>1, LockInit, LockStep, PTL DEF Spec, AppendOnly

SavedInv == LockInv /\ SavedRunIsMine

\* One step of the store keeps every returned id.
LEMMA SavedStep == SavedInv /\ [Next]_storeVars => SavedInv'
  <1> SUFFICES ASSUME SavedInv, [Next]_storeVars PROVE SavedInv'
    OBVIOUS
  <1>0. LockInv /\ LockInv'
    BY LockStep DEF SavedInv
  <1>1. SUFFICES ASSUME NEW d \in Clients, pc'[d] = "returned"
                 PROVE  /\ run_id'[d] \in DOMAIN disk'.search_runs
                        /\ disk'.search_runs[run_id'[d]] =
                             [started_at |-> observed_at'[d],
                              result     |-> result_json(run'[d], run_id'[d])]
    BY <1>0 DEF SavedInv, SavedRunIsMine
  <1>2. /\ pc \in [Clients -> PCs] /\ run \in [Clients -> Runs \cup {Null}]
        /\ observed_at \in [Clients -> Nat] /\ run_id \in [Clients -> Nat]
    BY <1>0 DEF LockInv, TypeInv, TypeOK
  <1>3. CASE Commit(d)
    <2>1. disk.search_runs \in Seq(RunRow)
      BY <1>0 DEF LockInv, TypeInv, TypeOK, Database
    <2>2. UNCHANGED <<run, observed_at, run_id>>
      BY <1>3 DEF Commit
    <2> QED
      BY <1>0, <1>3, <2>1, <2>2, CommitAppends
  <1>4. CASE ~Commit(d)
    <2>1. /\ pc[d] = "returned"
          /\ run'[d] = run[d] /\ observed_at'[d] = observed_at[d] /\ run_id'[d] = run_id[d]
      BY <1>1, <1>2, <1>4
      DEF Next, StoreStep, Advance, Tick, Initialize, AddColumn, SaveRun, InsertRun, LockTimeout,
          SaveListing, Commit, StatementFails, Exit, tables, locals, storeVars
    <2>2. /\ run_id[d] \in DOMAIN disk.search_runs
          /\ disk.search_runs[run_id[d]] =
               [started_at |-> observed_at[d], result |-> result_json(run[d], run_id[d])]
      BY <2>1 DEF SavedInv, SavedRunIsMine
    <2> QED
      BY <1>0, <2>1, <2>2, RunsStay
  <1> QED
    BY <1>3, <1>4

\* The id that save_run returned names the caller's own run for as long as the
\* caller lives, whatever the other clients save.
THEOREM SavedRunKept == Spec => []SavedRunIsMine
  <1>1. Init => SavedInv
    BY LockInit DEF Init, SavedInv, SavedRunIsMine
  <1>2. SavedInv => SavedRunIsMine
    BY DEF SavedInv
  <1> QED
    BY <1>1, <1>2, SavedStep, PTL DEF Spec

-----------------------------------------------------------------------------
(* The migration.  The schema only moves forward, and a client that looks   *)
(* at it while another alters the table fails instead of going on.          *)

SchemaInv == TypeInv /\ SchemaReady

\* Every client that can save works on today's columns, however many of them
\* open and migrate the same database at once.
THEOREM SchemaMigrated == Spec => []SchemaReady
  <1>1. Init => SchemaInv
    BY TypeInit DEF Init, SchemaInv, SchemaReady
  <1>2. SchemaInv /\ [Next]_storeVars => SchemaInv'
    <2> SUFFICES ASSUME SchemaInv, [Next]_storeVars PROVE SchemaReady'
      BY TypeStep DEF SchemaInv
    <2>1. pc \in [Clients -> PCs] /\ schema \in {"absent", "legacy", "current"}
      BY DEF SchemaInv, TypeInv, TypeOK
    <2>2. schema = "current" => schema' = "current"
      BY DEF Next, StoreStep, Advance, Tick, Initialize, AddColumn, SaveRun, InsertRun,
             LockTimeout, SaveListing, Commit, StatementFails, Exit, tables, storeVars
    <2>3. ASSUME NEW c \in Clients, pc'[c] \in {"ready", "waiting", "writing", "returned"}
          PROVE  schema' = "current"
      BY <2>1, <2>2, <2>3
      DEF SchemaInv, SchemaReady, Next, StoreStep, Advance, Tick, Initialize, AddColumn, SaveRun,
          InsertRun, LockTimeout, SaveListing, Commit, StatementFails, Exit, tables, locals,
          storeVars
    <2> QED
      BY <2>3 DEF SchemaReady
  <1>3. SchemaInv => SchemaReady
    BY DEF SchemaInv
  <1> QED
    BY <1>1, <1>2, <1>3, PTL DEF Spec

-----------------------------------------------------------------------------
(* The listings table summarises the observations, inside an open          *)
(* transaction as well: an observation is added together with the upsert of *)
(* its listing, and belongs to the highest-numbered run so far.            *)

SeenInv == LockInv /\ \A k \in Keys : Summarises(disk, k) /\ Summarises(pages, k)

\* A listing whose row and observations stay is summarised as before.
LEMMA SummaryKept ==
  ASSUME NEW d, NEW e, NEW k \in Keys, Summarises(d, k),
         e.listings[k] = d.listings[k],
         \A o : o.key = k => (o \in e.observations <=> o \in d.observations)
  PROVE  Summarises(e, k)
  <1>1. {o \in e.observations : o.key = k} = {o \in d.observations : o.key = k}
    OBVIOUS
  <1> QED
    BY <1>1 DEF Summarises

\* An observation in a run numbered no lower than those the listing has, together
\* with the upsert at its time, keeps the summary.
LEMMA SummaryExtended ==
  ASSUME NEW d \in Database, NEW e, NEW k \in Keys, NEW row \in Row, Summarises(d, k),
         row.key = k,
         \A o \in d.observations : o.key = k => o.run_id <= row.run_id,
         e.listings = Upsert(d.listings, k, row.observed_at),
         e.observations = d.observations \cup {row}
  PROVE  Summarises(e, k)
  <1> DEFINE seen == {o \in d.observations : o.key = k}
  <1>1. {o \in e.observations : o.key = k} = seen \cup {row}
    OBVIOUS
  <1>2. row.run_id \in Nat /\ row.observed_at \in Nat
    BY DEF Row
  <1>3. /\ d.listings \in [Keys -> ListingRow \cup {Null}]
        /\ \A o \in seen : o.run_id \in Nat /\ o.run_id <= row.run_id
    BY DEF Database, Row
  <1>4. e.listings[k] = [first_seen |-> IF d.listings[k] = Null THEN row.observed_at
                                        ELSE d.listings[k].first_seen,
                         last_seen  |-> row.observed_at]
    BY <1>3 DEF Upsert
  <1>5. e.listings[k] \in [first_seen : Nat, last_seen : Nat]
    BY <1>2, <1>3, <1>4 DEF ListingRow
  <1>6. e.listings[k] # Null
    BY <1>5, ConstantsAssumption
  <1>7. \E o \in seen \cup {row} : /\ e.listings[k].last_seen = o.observed_at
                                   /\ \A p \in seen \cup {row} : p.run_id <= o.run_id
    BY <1>2, <1>3, <1>4
  <1>8. \E o \in seen \cup {row} : /\ e.listings[k].first_seen = o.observed_at
                                   /\ \A p \in seen \cup {row} : o.run_id <= p.run_id
    <2>1. CASE seen = {}
      <3>1. d.listings[k] = Null
        BY <2>1 DEF Summarises
      <3> QED
        BY <1>2, <1>4, <2>1, <3>1
    <2>2. CASE seen # {}
      <3>1. /\ d.listings[k] # Null
            /\ \E o \in seen : /\ d.listings[k].first_seen = o.observed_at
                               /\ \A p \in seen : o.run_id <= p.run_id
        BY <2>2 DEF Summarises
      <3> QED
        BY <1>3, <1>4, <3>1
    <2> QED
      BY <2>1, <2>2
  <1> QED
    BY <1>1, <1>6, <1>7, <1>8 DEF Summarises

LEMMA SeenInit == Init => SeenInv
  <1> SUFFICES ASSUME Init PROVE SeenInv
    OBVIOUS
  <1>1. ASSUME NEW k \in Keys
        PROVE  Summarises(EmptyDatabase, k)
    BY DEF EmptyDatabase, Summarises
  <1>2. ASSUME NEW k \in Keys, NEW item \in Items
        PROVE  Summarises(LegacyDatabase(item), k)
    <2> DEFINE row == [run_id |-> 1, key |-> item.key, item |-> item, rank |-> 1,
                       observed_at |-> 1]
    <2>1. CASE k = item.key
      <3>1. {o \in LegacyDatabase(item).observations : o.key = k} = {row}
        BY <2>1 DEF LegacyDatabase
      <3>2. LegacyDatabase(item).listings[k] = [first_seen |-> 1, last_seen |-> 1]
        BY <2>1 DEF LegacyDatabase
      <3>3. LegacyDatabase(item).listings[k] # Null
        BY <3>2, ConstantsAssumption
      <3>4. row.run_id = 1 /\ row.observed_at = 1
        OBVIOUS
      <3> HIDE DEF row
      <3> QED
        BY <3>1, <3>2, <3>3, <3>4 DEF Summarises
    <2>2. CASE k # item.key
      <3>1. {o \in LegacyDatabase(item).observations : o.key = k} = {}
        BY <2>2 DEF LegacyDatabase
      <3>2. LegacyDatabase(item).listings[k] = Null
        BY <2>2 DEF LegacyDatabase
      <3> QED
        BY <3>1, <3>2 DEF Summarises
    <2> QED
      BY <2>1, <2>2
  <1> QED
    BY <1>1, <1>2, LockInit DEF Init, SeenInv

\* One round of the loop keeps the summary of every listing.
LEMMA SeenSaveListing ==
  ASSUME SeenInv, NEW c \in Clients, NEW k \in Keys, SaveListing(c, k), NEW j \in Keys
  PROVE  Summarises(pages', j)
  <1>1. PICK item \in unique_observed(run[c], k), rank \in rank_by_key(run[c], k) :
          pages' = [pages EXCEPT
                      !.listings = Upsert(@, k, observed_at[c]),
                      !.observations = Observe(@, [run_id |-> run_id[c], key |-> k, item |-> item,
                                                   rank |-> rank, observed_at |-> observed_at[c]])]
    BY DEF SaveListing
  <1> DEFINE row == [run_id |-> run_id[c], key |-> k, item |-> item, rank |-> rank,
                     observed_at |-> observed_at[c]]
  <1>2. pages \in Database /\ disk \in Database /\ LockInv /\ Summarises(pages, j)
    BY DEF SeenInv, LockInv, TypeInv, TypeOK
  <1>3. /\ pages'.listings = Upsert(pages.listings, k, observed_at[c])
        /\ pages'.observations = pages.observations \cup {row}
    BY <1>1, <1>2 DEF Database, Observe
  <1>4. run[c] \in Runs /\ observed_at[c] \in Nat /\ run_id[c] \in Nat
    BY <1>2 DEF SaveListing, LockInv, TypeInv, TypeOK, RunKnown
  <1>5. row \in Row
    <2>1. item \in Items /\ rank \in Nat
      BY <1>4, RunTypes
    <2> QED
      BY <1>4, <2>1 DEF Row
  <1>6. CASE j = k
    <2>1. writer = c /\ c # NoClient
      BY ConstantsAssumption DEF SeenInv, LockInv, Isolation, SaveListing
    <2>2. /\ run_id[c] = Len(disk.search_runs) + 1
          /\ disk.observations = {o \in pages.observations : o.run_id # run_id[c]}
      BY <2>1 DEF SeenInv, LockInv, Isolation
    <2>3. \A o \in disk.observations : o.run_id \in 1 .. Len(disk.search_runs)
      BY <1>2 DEF LockInv, ReferencesExist, Database
    <2>4. \A o \in pages.observations : o.run_id <= run_id[c]
      <3> TAKE o \in pages.observations
      <3>1. CASE o.run_id = run_id[c]
        BY <1>4, <3>1
      <3>2. CASE o.run_id # run_id[c]
        <4>1. o \in disk.observations
          BY <2>2, <3>2
        <4>2. Len(disk.search_runs) \in Nat
          BY <1>2 DEF Database
        <4> QED
          BY <2>2, <2>3, <4>1, <4>2
      <3> QED
        BY <3>1, <3>2
    <2>5. row.key = k /\ row.run_id = run_id[c] /\ row.observed_at = observed_at[c]
      OBVIOUS
    <2> HIDE DEF row
    <2> QED
      BY <1>2, <1>3, <1>5, <1>6, <2>4, <2>5, SummaryExtended
  <1>7. CASE j # k
    <2>1. pages'.listings[j] = pages.listings[j]
      BY <1>2, <1>3, <1>7 DEF Upsert, Database
    <2>2. \A o : o.key = j => (o \in pages'.observations <=> o \in pages.observations)
      BY <1>3, <1>7
    <2> QED
      BY <1>2, <2>1, <2>2, SummaryKept
  <1> QED
    BY <1>6, <1>7

\* One step of the store keeps the summary.
LEMMA SeenStep == SeenInv /\ [Next]_storeVars => SeenInv'
  <1> SUFFICES ASSUME SeenInv, [Next]_storeVars PROVE SeenInv'
    OBVIOUS
  <1>0. LockInv /\ LockInv'
    BY LockStep DEF SeenInv
  <1>1. SUFFICES ASSUME NEW j \in Keys PROVE Summarises(disk', j) /\ Summarises(pages', j)
    BY <1>0 DEF SeenInv
  <1>2. Summarises(disk, j) /\ Summarises(pages, j)
    BY DEF SeenInv
  <1>3. CASE UNCHANGED <<disk, pages>>
    BY <1>2, <1>3
  <1>4. CASE disk' = disk /\ pages' = disk
    BY <1>2, <1>4
  <1>5. ASSUME NEW c \in Clients, InsertRun(c)
        PROVE  disk' = disk /\ Summarises(pages', j)
    <2>1. disk' = disk /\ disk \in Database
      BY <1>0, <1>5 DEF InsertRun, LockInv, TypeInv, TypeOK
    <2>2. pages'.listings = disk.listings /\ pages'.observations = disk.observations
      BY <1>5, <2>1 DEF InsertRun, Database
    <2> QED
      BY <1>2, <2>1, <2>2, SummaryKept
  <1>6. ASSUME NEW c \in Clients, NEW k \in Keys, SaveListing(c, k)
        PROVE  disk' = disk /\ Summarises(pages', j)
    BY <1>6, SeenSaveListing DEF SaveListing
  <1>7. ASSUME NEW c \in Clients, Commit(c)
        PROVE  disk' = pages' /\ Summarises(disk', j)
    <2>1. disk'.listings = pages.listings /\ disk'.observations = pages.observations
      BY <1>0, <1>7, CommitAppends
    <2>2. disk' = pages'
      BY <1>7 DEF Commit
    <2> QED
      BY <1>2, <2>1, <2>2, SummaryKept
  <1>8. \/ UNCHANGED <<disk, pages>>
        \/ disk' = disk /\ pages' = disk
        \/ \E c \in Clients : InsertRun(c) \/ Commit(c) \/ \E k \in Keys : SaveListing(c, k)
    BY DEF Next, StoreStep, Advance, Tick, Initialize, AddColumn, SaveRun, LockTimeout,
           StatementFails, Exit, tables, storeVars
  <1> QED
    BY <1>2, <1>3, <1>4, <1>5, <1>6, <1>7, <1>8

\* The first-seen and last-seen times of every listing are the times of its
\* observations in the lowest- and the highest-numbered stored run, whatever saves
\* overlap, fail or die half way.
THEOREM SummaryCorrect == Spec => []SeenMatchesHistory
  <1>1. SeenInv => SeenMatchesHistory
    BY DEF SeenInv, SeenMatchesHistory
  <1> QED
    BY <1>1, SeenInit, SeenStep, PTL DEF Spec

-----------------------------------------------------------------------------
(* The ledger of search runs.  DealStore stores whole snapshots: what a     *)
(* COMMIT adds to the tables is what DealLedger records for the same run.    *)
(* The inductive invariant: the rows of a transaction carry the item and   *)
(* the rank of their key, and no run has two rows of one key.                *)

\* The row is the one that save_run writes of run r for its key.
FromRun(r, o) == o.item \in unique_observed(r, o.key) /\ o.rank \in rank_by_key(r, o.key)

WrittenFromRun ==
  writer # NoClient => \A o \in RowsOf(pages, run_id[writer]) : FromRun(run[writer], o)

OneRowPerKey == \A o, p \in pages.observations : o.run_id = p.run_id /\ o.key = p.key => o = p

LedgerInv == LockInv /\ WrittenFromRun /\ OneRowPerKey /\ RunsComplete

LEMMA RowsInit == Init => LedgerInv
  <1> SUFFICES ASSUME Init PROVE LedgerInv
    OBVIOUS
  <1>1. LockInv /\ WrittenFromRun
    BY LockInit DEF Init, WrittenFromRun
  <1>2. CASE disk = EmptyDatabase
    <2>1. OneRowPerKey
      BY <1>2 DEF Init, OneRowPerKey, EmptyDatabase
    <2>2. RunsComplete
      BY <1>2 DEF RunsComplete, ReferencesExist, EmptyDatabase
    <2> QED
      BY <1>1, <2>1, <2>2 DEF LedgerInv
  <1>3. ASSUME NEW item \in Items, disk = LegacyDatabase(item)
        PROVE  LedgerInv
    <2> DEFINE row == [run_id |-> 1, key |-> item.key, item |-> item, rank |-> 1,
                       observed_at |-> 1]
    <2>1. disk.observations = {row} /\ row.run_id = 1
      BY <1>3 DEF LegacyDatabase
    <2>2. DOMAIN disk.search_runs = {1} /\ disk.search_runs[1].result = Null
      BY <1>3 DEF LegacyDatabase
    <2> HIDE DEF row
    <2>3. OneRowPerKey
      BY <2>1 DEF Init, OneRowPerKey
    <2>4. RunsComplete
      BY <2>1, <2>2 DEF RunsComplete, ReferencesExist, RowsOf
    <2> QED
      BY <1>1, <2>3, <2>4 DEF LedgerInv
  <1> QED
    BY <1>2, <1>3 DEF Init

\* One round of the loop adds the one row of its key.
LEMMA RowsSaveListing ==
  ASSUME LedgerInv, NEW c \in Clients, NEW k \in Keys, SaveListing(c, k)
  PROVE  WrittenFromRun' /\ OneRowPerKey'
  <1>1. PICK item \in unique_observed(run[c], k), rank \in rank_by_key(run[c], k) :
          pages' = [pages EXCEPT
                      !.listings = Upsert(@, k, observed_at[c]),
                      !.observations = Observe(@, [run_id |-> run_id[c], key |-> k, item |-> item,
                                                   rank |-> rank, observed_at |-> observed_at[c]])]
    BY DEF SaveListing
  <1> DEFINE row == [run_id |-> run_id[c], key |-> k, item |-> item, rank |-> rank,
                     observed_at |-> observed_at[c]]
  <1>2. /\ pc[c] = "writing" /\ k \in todo[c]
        /\ UNCHANGED <<writer, run, run_id>>
    BY DEF SaveListing
  <1>3. writer = c /\ c # NoClient
    BY <1>2, ConstantsAssumption DEF LedgerInv, LockInv, Isolation
  <1>4. pages'.observations = pages.observations \cup {row}
    BY <1>1 DEF LedgerInv, LockInv, TypeInv, TypeOK, Database, Observe
  <1>5. row.key = k /\ row.run_id = run_id[c] /\ FromRun(run[c], row)
    BY DEF FromRun
  <1>6. \A o \in RowsOf(pages, run_id[c]) : o.key # k
    BY <1>2, <1>3 DEF LedgerInv, LockInv, Isolation
  <1> HIDE DEF row
  <1>7. WrittenFromRun'
    BY <1>2, <1>3, <1>4, <1>5 DEF LedgerInv, WrittenFromRun, RowsOf
  <1>8. OneRowPerKey'
    BY <1>4, <1>5, <1>6 DEF LedgerInv, OneRowPerKey, RowsOf
  <1> QED
    BY <1>7, <1>8

\* What a COMMIT stores of its run, and that it leaves the other runs' rows alone.
LEMMA CommittedRows ==
  ASSUME LedgerInv, NEW c \in Clients, Commit(c)
  PROVE  /\ run[c] \in Runs
         /\ run_id[c] = Len(disk.search_runs) + 1 /\ run_id[c] \in Nat
         /\ {o.key : o \in RowsOf(disk', run_id[c])} = KeysIn(Observed(run[c]))
         /\ \A o \in RowsOf(disk', run_id[c]) : FromRun(run[c], o)
         /\ \A id : id # run_id[c] => RowsOf(disk', id) = RowsOf(disk, id)
  <1>1. LockInv /\ TypeInv
    BY DEF LedgerInv, LockInv
  <1>2. /\ writer = c /\ c # NoClient
        /\ run_id[c] = Len(disk.search_runs) + 1
        /\ disk'.observations = pages.observations
        /\ disk.observations = {o \in pages.observations : o.run_id # run_id[c]}
    BY <1>1, CommitAppends, ConstantsAssumption
  <1>3. run[c] \in Runs /\ run_id[c] \in Nat
    BY <1>1 DEF Commit, TypeInv, TypeOK, RunKnown
  <1>4. {o.key : o \in RowsOf(pages, run_id[c])} = KeysIn(Observed(run[c])) \ todo[c]
    BY <1>1, <1>2 DEF LockInv, Isolation
  <1>5. \A id : RowsOf(disk', id) = RowsOf(pages, id)
    BY <1>2 DEF RowsOf
  <1>6. {o.key : o \in RowsOf(disk', run_id[c])} = KeysIn(Observed(run[c]))
    BY <1>4, <1>5 DEF Commit, AllWritten
  <1>7. \A o \in RowsOf(disk', run_id[c]) : FromRun(run[c], o)
    BY <1>2, <1>5 DEF LedgerInv, WrittenFromRun
  <1>8. \A id : id # run_id[c] => RowsOf(disk', id) = RowsOf(disk, id)
    BY <1>2 DEF RowsOf
  <1> QED
    BY <1>2, <1>3, <1>6, <1>7, <1>8

\* The ranks in the rows of a stored run are those of its ranking, and no ranked
\* listing is left without a row.
LEMMA RanksMatch ==
  ASSUME NEW r \in Runs, NEW rows,
         {o.key : o \in rows} = KeysIn(Observed(r)),
         \A o \in rows : FromRun(r, o)
  PROVE  /\ KeysIn(r.ranked) = {o.key : o \in {o \in rows : o.rank # 0}}
         /\ \A o \in rows : o.rank # 0 => o.rank \in DOMAIN r.ranked /\ r.ranked[o.rank].key = o.key
  <1>1. r.ranked \in Seq(Items) /\ KeysIn(r.ranked) \subseteq KeysIn(Observed(r))
    BY RunTypes, ConstantsAssumption DEF RunsAssumption
  <1>2. ASSUME NEW o \in rows, o.rank # 0
        PROVE  o.rank \in DOMAIN r.ranked /\ r.ranked[o.rank].key = o.key
    BY <1>2 DEF FromRun, rank_by_key, LastAt
  <1>3. ASSUME NEW k \in KeysIn(r.ranked)
        PROVE  \E o \in rows : o.key = k /\ o.rank # 0
    <2>1. PICK o \in rows : o.key = k
      BY <1>1
    <2>2. o.rank \in LastAt(r.ranked, k)
      BY <2>1 DEF FromRun, rank_by_key
    <2>3. o.rank \in 1 .. Len(r.ranked)
      BY <1>1, <2>2 DEF LastAt
    <2> QED
      BY <2>1, <2>3
  <1>4. \A o \in rows : o.rank # 0 => o.key \in KeysIn(r.ranked)
    BY <1>2 DEF KeysIn
  <1> QED
    BY <1>2, <1>3, <1>4

\* A COMMIT leaves every stored run complete.
LEMMA CompleteCommit ==
  ASSUME LedgerInv, LockInv', NEW c \in Clients, Commit(c)
  PROVE  RunsComplete'
  <1> DEFINE id == run_id[c]
             rows == RowsOf(disk', id)
             final == [started_at |-> observed_at[c], result |-> result_json(run[c], id)]
  <1>1. /\ run[c] \in Runs /\ id = Len(disk.search_runs) + 1 /\ id \in Nat
        /\ {o.key : o \in rows} = KeysIn(Observed(run[c]))
        /\ \A o \in rows : FromRun(run[c], o)
        /\ \A other : other # id => RowsOf(disk', other) = RowsOf(disk, other)
    BY CommittedRows
  <1>2. /\ disk'.search_runs = Append(disk.search_runs, final)
        /\ disk'.observations = pages.observations
    BY CommitAppends DEF LedgerInv
  <1>3. disk.search_runs \in Seq(RunRow)
    BY DEF LedgerInv, LockInv, TypeInv, TypeOK, Database
  <1>4. DOMAIN disk'.search_runs = DOMAIN disk.search_runs \cup {id}
    BY <1>1, <1>2, <1>3
  <1>5. disk'.search_runs[id] = final
    BY <1>1, <1>2, <1>3
  <1>6. disk'.search_runs[id].result = [run_id |-> id, ranked |-> run[c].ranked]
    BY <1>5 DEF result_json
  <1>7. ASSUME NEW other \in DOMAIN disk.search_runs
        PROVE  /\ disk'.search_runs[other] = disk.search_runs[other]
               /\ RowsOf(disk', other) = RowsOf(disk, other)
    <2>1. other \in 1 .. Len(disk.search_runs)
      BY <1>3
    <2> QED
      BY <1>1, <1>2, <1>3, <2>1
  <1>8. \A o, p \in rows : o.key = p.key => o = p
    BY <1>2 DEF LedgerInv, OneRowPerKey, RowsOf
  <1>9. /\ KeysIn(run[c].ranked) = {o.key : o \in {o \in rows : o.rank # 0}}
        /\ \A o \in rows : o.rank # 0 => /\ o.rank \in DOMAIN run[c].ranked
                                         /\ run[c].ranked[o.rank].key = o.key
    BY <1>1, RanksMatch
  <1>10. ReferencesExist(disk')
    BY DEF LockInv
  <1> HIDE DEF id, rows, final
  <1> SUFFICES ASSUME NEW n \in DOMAIN disk'.search_runs
               PROVE  LET result == disk'.search_runs[n].result
                          seen   == RowsOf(disk', n)
                      IN  /\ \A o, p \in seen : o.key = p.key => o = p
                          /\ result # Null =>
                               /\ result.run_id = n
                               /\ KeysIn(result.ranked) = {o.key : o \in {o \in seen : o.rank # 0}}
                               /\ \A o \in seen : o.rank # 0 =>
                                    /\ o.rank \in DOMAIN result.ranked
                                    /\ result.ranked[o.rank].key = o.key
    BY <1>10 DEF RunsComplete
  <1>11. CASE n = id
    BY <1>6, <1>8, <1>9, <1>11 DEF rows
  <1>12. CASE n # id
    BY <1>4, <1>7, <1>12 DEF LedgerInv, RunsComplete
  <1> QED
    BY <1>11, <1>12

\* One step of the store keeps the invariant.
LEMMA RowsStep == LedgerInv /\ [Next]_storeVars => LedgerInv'
  <1> SUFFICES ASSUME LedgerInv, [Next]_storeVars PROVE LedgerInv'
    OBVIOUS
  <1>0. LockInv /\ LockInv'
    BY LockStep DEF LedgerInv
  <1>1. \A o, p \in disk.observations : o.run_id = p.run_id /\ o.key = p.key => o = p
    <2>1. disk.observations \subseteq pages.observations
      BY <1>0 DEF LockInv, Isolation
    <2> QED
      BY <2>1 DEF LedgerInv, OneRowPerKey
  <1>2. ASSUME disk' = disk
        PROVE  RunsComplete'
    BY <1>2 DEF LedgerInv, RunsComplete, ReferencesExist, RowsOf
  <1>3. ASSUME NEW c \in Clients, InsertRun(c)
        PROVE  LedgerInv'
    <2>1. /\ disk' = disk /\ disk \in Database /\ c # NoClient
          /\ writer' = c /\ run_id'[c] = Len(disk.search_runs) + 1
      BY <1>0, <1>3, ConstantsAssumption DEF InsertRun, LockInv, TypeInv, TypeOK
    <2>2. pages'.observations = disk.observations
      BY <1>3, <2>1 DEF InsertRun, Database
    <2>3. OneRowPerKey'
      BY <1>1, <2>2 DEF OneRowPerKey
    <2>4. RowsOf(pages', run_id'[c]) = {}
      BY <1>0, <2>1, <2>2 DEF LockInv, ReferencesExist, Database, RowsOf
    <2> QED
      BY <1>0, <1>2, <2>1, <2>3, <2>4 DEF LedgerInv, WrittenFromRun
  <1>4. ASSUME NEW c \in Clients, NEW k \in Keys, SaveListing(c, k)
        PROVE  LedgerInv'
    BY <1>0, <1>2, <1>4, RowsSaveListing DEF LedgerInv, SaveListing
  <1>5. ASSUME NEW c \in Clients, Commit(c)
        PROVE  LedgerInv'
    <2>1. disk'.observations = pages.observations /\ pages' = disk' /\ writer' = NoClient
      BY <1>0, <1>5, CommitAppends DEF Commit
    <2>2. OneRowPerKey' /\ WrittenFromRun'
      BY <2>1 DEF LedgerInv, OneRowPerKey, WrittenFromRun
    <2> QED
      BY <1>0, <1>5, <2>2, CompleteCommit DEF LedgerInv
  <1>6. CASE disk' = disk /\ pages' = disk /\ writer' = NoClient
    BY <1>0, <1>1, <1>2, <1>6 DEF LedgerInv, OneRowPerKey, WrittenFromRun
  <1>7. CASE /\ UNCHANGED <<disk, pages, writer>>
             /\ writer # NoClient => run'[writer] = run[writer] /\ run_id'[writer] = run_id[writer]
    BY <1>0, <1>2, <1>7 DEF LedgerInv, OneRowPerKey, WrittenFromRun, RowsOf
  <1>8. \/ \E c \in Clients : InsertRun(c) \/ Commit(c) \/ \E k \in Keys : SaveListing(c, k)
        \/ disk' = disk /\ pages' = disk /\ writer' = NoClient
        \/ /\ UNCHANGED <<disk, pages, writer>>
           /\ writer # NoClient => run'[writer] = run[writer] /\ run_id'[writer] = run_id[writer]
    <2>1. writer # NoClient => writer \in Clients /\ pc[writer] = "writing"
      BY <1>0 DEF LockInv, Isolation, TypeInv, TypeOK
    <2>2. run \in [Clients -> Runs \cup {Null}] /\ run_id \in [Clients -> Nat]
      BY <1>0 DEF LockInv, TypeInv, TypeOK
    <2> QED
      BY <2>1, <2>2
      DEF Next, StoreStep, Advance, Tick, Initialize, AddColumn, SaveRun, LockTimeout,
          StatementFails, Exit, tables, locals, storeVars
  <1> QED
    BY <1>3, <1>4, <1>5, <1>6, <1>7, <1>8

\* Every stored run is whole: its rows and its result name the same listings under
\* the same ranks, and a save that fails, times out or dies leaves no part of one.
THEOREM RunsStayComplete == Spec => []RunsComplete
  <1>1. LedgerInv => RunsComplete
    BY DEF LedgerInv
  <1> QED
    BY <1>1, RowsInit, RowsStep, PTL DEF Spec

-----------------------------------------------------------------------------
(* The refinement of DealLedger.                                           *)

\* The rank a ledger gives to a key is the one in rank_by_key.
LEMMA RanksAgree ==
  ASSUME NEW r \in Runs, NEW k, NEW n \in rank_by_key(r, k)
  PROVE  Ledger!Ranks(r, k) = {n}
  <1>1. r.ranked \in Seq(Items)
    BY RunTypes
  <1>2. \A i \in DOMAIN r.ranked : i \in Nat
    BY <1>1
  <1> DEFINE last == {i \in Ledger!LastPositions(r.ranked) : r.ranked[i].key = k}
  <1>3. last = LastAt(r.ranked, k)
    BY <1>2 DEF Ledger!LastPositions, LastAt
  <1>4. CASE k \in KeysIn(r.ranked)
    <2>1. n \in LastAt(r.ranked, k)
      BY <1>4 DEF rank_by_key
    <2>2. LastAt(r.ranked, k) = {n}
      BY <1>2, <2>1 DEF LastAt
    <2> QED
      BY <1>3, <2>2 DEF Ledger!Ranks
  <1>5. CASE k \notin KeysIn(r.ranked)
    <2>1. LastAt(r.ranked, k) = {} /\ n = 0
      BY <1>5 DEF LastAt, KeysIn, rank_by_key
    <2> QED
      BY <1>3, <2>1 DEF Ledger!Ranks
  <1> QED
    BY <1>4, <1>5

\* The rows of a run that is written in full are those of its snapshot.
LEMMA RowsAreSnapshot ==
  ASSUME NEW r \in Runs, NEW rows,
         {o.key : o \in rows} = KeysIn(Observed(r)),
         \A o \in rows : FromRun(r, o)
  PROVE  {[item |-> o.item, rank |-> o.rank] : o \in rows} = Ledger!RowsOf(r)
  <1> DEFINE s == Observed(r)
             Pair(item, rank) == [item |-> item, rank |-> rank]
             Of(i) == {Pair(s[i], n) : n \in Ledger!Ranks(r, s[i].key)}
  <1>1. s \in Seq(Items) /\ Ledger!ObservedBy(r) = s
    BY RunTypes DEF Observed, Ledger!ObservedBy
  <1>2. \A i \in DOMAIN s : i \in Nat
    BY <1>1
  <1>3. ASSUME NEW o \in rows
        PROVE  \E i \in Ledger!LastPositions(s) : /\ s[i].key = o.key /\ o.item = s[i]
                                                  /\ Ledger!Ranks(r, o.key) = {o.rank}
    <2>1. PICK i \in LastAt(s, o.key) : o.item = s[i]
      BY DEF FromRun, unique_observed
    <2>2. i \in Ledger!LastPositions(s) /\ s[i].key = o.key
      BY <1>2, <2>1 DEF LastAt, Ledger!LastPositions
    <2> QED
      BY <2>1, <2>2, RanksAgree DEF FromRun
  <1>4. ASSUME NEW i \in Ledger!LastPositions(s), NEW n \in Ledger!Ranks(r, s[i].key)
        PROVE  \E o \in rows : o.item = s[i] /\ o.rank = n
    <2>1. i \in DOMAIN s /\ s[i].key \in KeysIn(s)
      BY DEF Ledger!LastPositions, KeysIn
    <2>2. PICK o \in rows : o.key = s[i].key
      BY <2>1
    <2>3. PICK j \in Ledger!LastPositions(s) : /\ s[j].key = o.key /\ o.item = s[j]
                                               /\ Ledger!Ranks(r, o.key) = {o.rank}
      BY <1>3
    <2>4. j = i
      BY <1>2, <2>2, <2>3 DEF Ledger!LastPositions
    <2> QED
      BY <2>2, <2>3, <2>4
  <1>5. Ledger!RowsOf(r) = UNION {Of(i) : i \in Ledger!LastPositions(s)}
    BY <1>1 DEF Ledger!RowsOf
  <1> HIDE DEF s
  <1>6. ASSUME NEW o \in rows
        PROVE  Pair(o.item, o.rank) \in Ledger!RowsOf(r)
    <2>1. PICK i \in Ledger!LastPositions(s) : /\ s[i].key = o.key /\ o.item = s[i]
                                               /\ Ledger!Ranks(r, o.key) = {o.rank}
      BY <1>3
    <2>2. Pair(o.item, o.rank) \in Of(i)
      BY <2>1
    <2> HIDE DEF Pair, Of
    <2> QED
      BY <1>5, <2>2
  <1>7. ASSUME NEW x \in Ledger!RowsOf(r)
        PROVE  \E o \in rows : x = Pair(o.item, o.rank)
    <2>1. PICK i \in Ledger!LastPositions(s) : x \in Of(i)
      BY <1>5
    <2>2. PICK n \in Ledger!Ranks(r, s[i].key) : x = Pair(s[i], n)
      BY <2>1
    <2> QED
      BY <1>4, <2>2
  <1> QED
    BY <1>6, <1>7

\* A COMMIT records the run in the ledger.
LEMMA CommitRecords ==
  ASSUME LedgerInv, NEW c \in Clients, Commit(c)
  PROVE  LedgerOf(disk') = Append(LedgerOf(disk), Ledger!Snapshot(run[c]))
  <1> DEFINE id == run_id[c]
             rows == RowsOf(disk', id)
             final == [started_at |-> observed_at[c], result |-> result_json(run[c], id)]
             Entry(d, n) ==
               LET result == d.search_runs[n].result
               IN  [ranked |-> IF result = Null THEN Null ELSE result.ranked,
                    rows   |-> {[item |-> o.item, rank |-> o.rank] : o \in RowsOf(d, n)}]
             old == LedgerOf(disk)
             new == LedgerOf(disk')
             snapshot == Ledger!Snapshot(run[c])
  <1>1. /\ run[c] \in Runs /\ id = Len(disk.search_runs) + 1 /\ id \in Nat
        /\ {o.key : o \in rows} = KeysIn(Observed(run[c]))
        /\ \A o \in rows : FromRun(run[c], o)
        /\ \A other : other # id => RowsOf(disk', other) = RowsOf(disk, other)
    BY CommittedRows
  <1>2. disk'.search_runs = Append(disk.search_runs, final)
    BY CommitAppends DEF LedgerInv
  <1>3. disk.search_runs \in Seq(RunRow)
    BY DEF LedgerInv, LockInv, TypeInv, TypeOK, Database
  <1>4. DOMAIN disk.search_runs = 1 .. Len(disk.search_runs) /\ DOMAIN disk'.search_runs = 1 .. id
    BY <1>1, <1>2, <1>3
  <1>5. \A n \in 1 .. Len(disk.search_runs) : disk'.search_runs[n] = disk.search_runs[n]
    BY <1>2, <1>3
  <1>6. disk'.search_runs[id] = final
    BY <1>1, <1>2, <1>3
  <1>7. final.result # Null
    <2>1. final.result \in Results
      BY <1>1, RunTypes
    <2> QED
      BY <2>1, ConstantsAssumption DEF Results
  <1>8. Entry(disk', id) = snapshot
    <2>1. {[item |-> o.item, rank |-> o.rank] : o \in rows} = Ledger!RowsOf(run[c])
      BY <1>1, RowsAreSnapshot
    <2>2. final.result.ranked = run[c].ranked
      BY DEF result_json
    <2> HIDE DEF final, id
    <2> QED
      BY <1>6, <1>7, <2>1, <2>2 DEF Ledger!Snapshot
  <1>9. \A n \in 1 .. Len(disk.search_runs) : Entry(disk', n) = Entry(disk, n)
    <2> TAKE n \in 1 .. Len(disk.search_runs)
    <2>1. RowsOf(disk', n) = RowsOf(disk, n) /\ disk'.search_runs[n] = disk.search_runs[n]
      BY <1>1, <1>3, <1>5
    <2> QED
      BY <2>1
  <1>10. old = [n \in 1 .. Len(disk.search_runs) |-> Entry(disk, n)]
    BY <1>4 DEF LedgerOf
  <1>11. new = [n \in 1 .. id |-> Entry(disk', n)]
    BY <1>4 DEF LedgerOf
  <1> HIDE DEF Entry, snapshot, old, new, id
  <1> DEFINE T == {Entry(disk', n) : n \in 1 .. id}
             len == Len(disk.search_runs)
  <1>12. len \in Nat /\ id = len + 1
    BY <1>1, <1>3
  <1> HIDE DEF len
  <1>13. old \in Seq(T) /\ Len(old) = len /\ \A n \in 1 .. len : old[n] = Entry(disk', n)
    BY <1>9, <1>10, <1>12 DEF len
  <1>14. new \in Seq(T) /\ Len(new) = id /\ \A n \in 1 .. id : new[n] = Entry(disk', n)
    BY <1>11, <1>12
  <1>15. snapshot \in T
    BY <1>8, <1>12
  <1> HIDE DEF T
  <1>16. /\ Append(old, snapshot) \in Seq(T) /\ Len(Append(old, snapshot)) = id
         /\ \A n \in 1 .. id : Append(old, snapshot)[n] = Entry(disk', n)
    BY <1>8, <1>12, <1>13, <1>15
  <1>17. new = Append(old, snapshot)
    BY <1>14, <1>16, SeqEqual
  <1> QED
    BY <1>17 DEF new, old, snapshot

\* An empty database is an empty ledger, one of an earlier version a ledger of one run.
LEMMA LedgerInit == Init => Ledger!Init
  <1> SUFFICES ASSUME Init PROVE Ledger!Init
    OBVIOUS
  <1>1. CASE disk = EmptyDatabase
    <2>1. DOMAIN disk.search_runs = {}
      BY <1>1 DEF EmptyDatabase
    <2>2. LedgerOf(disk) = <<>>
      BY <2>1 DEF LedgerOf
    <2> QED
      BY <2>2 DEF Ledger!Init
  <1>2. ASSUME NEW item \in Items, disk = LegacyDatabase(item)
        PROVE  Ledger!Init
    <2> DEFINE row == [run_id |-> 1, key |-> item.key, item |-> item, rank |-> 1,
                       observed_at |-> 1]
               old == Ledger!OldSnapshot(item)
    <2>1. disk.observations = {row} /\ row.run_id = 1 /\ row.item = item /\ row.rank = 1
      BY <1>2 DEF LegacyDatabase
    <2>2. DOMAIN disk.search_runs = 1 .. 1 /\ disk.search_runs[1].result = Null
      BY <1>2 DEF LegacyDatabase
    <2> HIDE DEF row
    <2>3. {[item |-> o.item, rank |-> o.rank] : o \in RowsOf(disk, 1)} = {[item |-> item, rank |-> 1]}
      BY <2>1 DEF RowsOf
    <2>4. LedgerOf(disk) = [n \in 1 .. 1 |-> old]
      BY <2>2, <2>3 DEF LedgerOf, Ledger!OldSnapshot
    <2> HIDE DEF old
    <2>5. LedgerOf(disk) = <<old>>
      BY <2>4
    <2> QED
      BY <2>5 DEF Ledger!Init, old
  <1> QED
    BY <1>1, <1>2 DEF Init

\* The store is a ledger of whole snapshots: every behaviour of its clients, with
\* all their failures, is one in which runs of Runs are recorded one by one.
THEOREM StoreIsLedger == Spec => ImplementsLedger
  <1>1. LedgerInv /\ [Next]_storeVars => [Ledger!Next]_(LedgerOf(disk))
    <2> SUFFICES ASSUME LedgerInv, [Next]_storeVars
                 PROVE  Ledger!Next \/ LedgerOf(disk') = LedgerOf(disk)
      OBVIOUS
    <2>1. CASE disk' = disk
      BY <2>1
    <2>2. ASSUME NEW c \in Clients, Commit(c)
          PROVE  Ledger!Next
      <3>1. run[c] \in Runs
        BY <2>2, CommittedRows
      <3> QED
        BY <2>2, <3>1, CommitRecords DEF Ledger!Next, Ledger!Record
    <2> QED
      BY <2>1, <2>2, DiskStep
  <1> QED
    BY <1>1, LedgerInit, RowsInit, RowsStep, PTL DEF Spec, ImplementsLedger, Ledger!Spec

-----------------------------------------------------------------------------
(* What `show` finds, where no two offers of a search run share a key.      *)

OneOfferPerKey(r) ==
  /\ \A i, j \in DOMAIN r.ranked : r.ranked[i].key = r.ranked[j].key => i = j
  /\ \A i \in DOMAIN r.ranked, j \in DOMAIN Observed(r) :
       r.ranked[i].key = Observed(r)[j].key => r.ranked[i] = Observed(r)[j]

\* A row holds the item that the stored ranking has in its place.
RowsHoldRanked ==
  \A id \in DOMAIN disk.search_runs :
    LET result == disk.search_runs[id].result
    IN  result # Null =>
          /\ \A i, j \in DOMAIN result.ranked : result.ranked[i].key = result.ranked[j].key => i = j
          /\ \A o \in RowsOf(disk, id) : o.rank # 0 => result.ranked[o.rank] = o.item

LEMMA RowsHeldInit == Init => RowsHoldRanked
  BY DEF Init, RowsHoldRanked, EmptyDatabase, LegacyDatabase

LEMMA RowsHeldStep ==
  ASSUME \A r \in Runs : OneOfferPerKey(r),
         LedgerInv, RowsHoldRanked, [Next]_storeVars
  PROVE  RowsHoldRanked'
  <1>0. LockInv /\ disk.search_runs \in Seq(RunRow)
    BY DEF LedgerInv, LockInv, TypeInv, TypeOK, Database
  <1>1. CASE disk' = disk
    BY <1>1 DEF RowsHoldRanked, RowsOf
  <1>2. ASSUME NEW c \in Clients, Commit(c)
        PROVE  RowsHoldRanked'
    <2> DEFINE n == run_id[c]
               final == [started_at |-> observed_at[c], result |-> result_json(run[c], n)]
    <2>1. /\ run[c] \in Runs /\ n = Len(disk.search_runs) + 1
          /\ \A o \in RowsOf(disk', n) : FromRun(run[c], o)
          /\ \A id : id # n => RowsOf(disk', id) = RowsOf(disk, id)
      BY <1>2, CommittedRows
    <2>2. disk'.search_runs = Append(disk.search_runs, final)
      BY <1>0, <1>2, CommitAppends
    <2>3. /\ DOMAIN disk'.search_runs = DOMAIN disk.search_runs \cup {n}
          /\ disk'.search_runs[n] = final
          /\ \A id \in DOMAIN disk.search_runs : id # n /\ disk'.search_runs[id] = disk.search_runs[id]
      BY <1>0, <2>1, <2>2
    <2>4. disk'.search_runs[n].result.ranked = run[c].ranked
      BY <2>3 DEF result_json
    <2>5. ASSUME NEW o \in RowsOf(disk', n), o.rank # 0
          PROVE  run[c].ranked[o.rank] = o.item
      <3>1. o.rank \in DOMAIN run[c].ranked /\ run[c].ranked[o.rank].key = o.key
        BY <2>1, <2>5 DEF FromRun, rank_by_key, LastAt
      <3>2. PICK j \in LastAt(Observed(run[c]), o.key) : o.item = Observed(run[c])[j]
        BY <2>1 DEF FromRun, unique_observed
      <3>3. j \in DOMAIN Observed(run[c]) /\ Observed(run[c])[j].key = o.key
        BY <3>2 DEF LastAt
      <3> QED
        BY <2>1, <3>1, <3>2, <3>3 DEF OneOfferPerKey
    <2>6. \A i, j \in DOMAIN run[c].ranked : run[c].ranked[i].key = run[c].ranked[j].key => i = j
      BY <2>1 DEF OneOfferPerKey
    <2> HIDE DEF n, final
    <2> QED
      BY <2>1, <2>3, <2>4, <2>5, <2>6 DEF RowsHoldRanked
  <1> QED
    BY <1>0, <1>1, <1>2, DiskStep

\* A rank of a stored result is found, and so is what it ranks.
LEMMA RankFound ==
  ASSUME LedgerInv, RowsHoldRanked, NEW id \in DOMAIN disk.search_runs,
         disk.search_runs[id].result # Null, NEW n, n # 0
  PROVE  LET ranked == disk.search_runs[id].result.ranked
         IN  load_rank(n, id) = {ranked[i] : i \in {n} \cap DOMAIN ranked}
  <1> DEFINE ranked == disk.search_runs[id].result.ranked
             rows == RowsOf(disk, id)
  <1>1. /\ KeysIn(ranked) = {o.key : o \in {o \in rows : o.rank # 0}}
        /\ \A o \in rows : o.rank # 0 => o.rank \in DOMAIN ranked /\ ranked[o.rank].key = o.key
    BY DEF LedgerInv, RunsComplete
  <1>2. /\ \A i, j \in DOMAIN ranked : ranked[i].key = ranked[j].key => i = j
        /\ \A o \in rows : o.rank # 0 => ranked[o.rank] = o.item
    BY DEF RowsHoldRanked
  <1> HIDE DEF ranked, rows
  <1>3. ASSUME n \in DOMAIN ranked
        PROVE  \E o \in rows : o.rank = n
    <2>1. PICK o \in rows : o.rank # 0 /\ o.key = ranked[n].key
      BY <1>1, <1>3 DEF KeysIn
    <2> QED
      BY <1>1, <1>2, <1>3, <2>1
  <1>4. load_rank(n, id) = {o.item : o \in {o \in rows : o.rank = n}}
    BY DEF load_rank, rows
  <1>5. load_rank(n, id) = {ranked[i] : i \in {n} \cap DOMAIN ranked}
    BY <1>1, <1>2, <1>3, <1>4
  <1> QED
    BY <1>5 DEF ranked

\* If no two offers of a run share a key, `show` finds every rank of every stored result.
THEOREM EveryRankFound ==
  ASSUME \A r \in Runs : OneOfferPerKey(r)
  PROVE  Spec => []ShowFindsEveryRank
  <1>1. LedgerInv /\ RowsHoldRanked => ShowFindsEveryRank
    <2> SUFFICES ASSUME LedgerInv, RowsHoldRanked, NEW id \in DOMAIN disk.search_runs,
                        disk.search_runs[id].result # Null,
                        NEW n \in DOMAIN disk.search_runs[id].result.ranked
                 PROVE  load_rank(n, id) = {disk.search_runs[id].result.ranked[n]}
      BY DEF ShowFindsEveryRank
    <2>1. disk.search_runs[id].result.ranked \in Seq(Items)
      <3>1. disk.search_runs \in Seq(RunRow)
        BY DEF LedgerInv, LockInv, TypeInv, TypeOK, Database
      <3>2. disk.search_runs[id] \in RunRow
        BY <3>1
      <3>3. disk.search_runs[id].result \in Results
        BY <3>2 DEF RunRow
      <3> QED
        BY <3>3 DEF Results
    <2>2. n # 0
      BY <2>1
    <2> QED
      BY <2>2, RankFound
  <1>2. LedgerInv /\ RowsHoldRanked /\ [Next]_storeVars => LedgerInv' /\ RowsHoldRanked'
    BY RowsStep, RowsHeldStep
  <1>3. Init => LedgerInv /\ RowsHoldRanked
    BY RowsInit, RowsHeldInit
  <1> QED
    BY <1>1, <1>2, <1>3, PTL DEF Spec


-----------------------------------------------------------------------------
(* A listing's history.  Its rows are ordered by their runs, and the place of *)
(* one is how many are before it, which a later run does not change.         *)

\* Finitely many rows, of which no two are of one listing and one run.
RowsDistinct(d) ==
  /\ IsFiniteSet(d.observations)
  /\ \A o \in d.observations : o.run_id \in Nat
  /\ \A o, p \in d.observations : o.run_id = p.run_id /\ o.key = p.key => o = p

Earlier(d, k, o) == {p \in ObservationsOf(d, k) : BeforeById(p, o)}

Line(o) == [observed_at |-> o.observed_at, item |-> o.item]

\* price_history answers with each row in its place.
LEMMA HistoryLines ==
  ASSUME NEW d, RowsDistinct(d), NEW k
  PROVE  /\ Cardinality(ObservationsOf(d, k)) \in Nat
         /\ price_history(d, k) = [n \in 1 .. Cardinality(ObservationsOf(d, k)) |-> price_history(d, k)[n]]
         /\ \A n \in 1 .. Cardinality(ObservationsOf(d, k)) :
              \E o \in ObservationsOf(d, k) : Cardinality(Earlier(d, k, o)) = n - 1
         /\ \A n \in 1 .. Cardinality(ObservationsOf(d, k)) : \A o \in ObservationsOf(d, k) :
              Cardinality(Earlier(d, k, o)) = n - 1 => price_history(d, k)[n] = Line(o)
  <1> DEFINE rows == ObservationsOf(d, k)
             N == Cardinality(rows)
             ahead == [o \in rows |-> Earlier(d, k, o)]
             at(n) == CHOOSE o \in rows : Cardinality({p \in rows : BeforeById(p, o)}) = n - 1
  <1>1. rows \in SUBSET d.observations
    BY DEF ObservationsOf
  <1>2. IsFiniteSet(rows) /\ N \in Nat
    <2>1. IsFiniteSet(rows)
      BY <1>1, FS_Subset DEF RowsDistinct
    <2> QED
      BY <2>1, FS_CardinalityType
  <1>3. /\ \A o \in rows : o.run_id \in Nat
        /\ \A o, p \in rows : o.run_id = p.run_id => o = p
    BY DEF RowsDistinct, ObservationsOf
  <1>4. \A o \in rows : Earlier(d, k, o) = {p \in rows : p.run_id < o.run_id}
    BY DEF Earlier, BeforeById
  <1>5. \A o \in rows : Earlier(d, k, o) = {p \in rows : BeforeById(p, o)}
    BY DEF Earlier
  <1>6. price_history(d, k) = [n \in 1 .. N |-> Line(at(n))]
    BY DEF price_history, Line
  <1>7. DOMAIN ahead = rows /\ \A o \in rows : ahead[o] = Earlier(d, k, o)
    OBVIOUS
  <1>8. ahead \in [rows -> SUBSET rows]
    BY <1>4
  <1> HIDE DEF rows, ahead, N
  <1>9. Arranges(ahead, rows)
    <2>1. \A o, p \in rows : o \in ahead[p] <=> o.run_id < p.run_id
      BY <1>4, <1>7
    <2>2. \A o \in rows : o \notin ahead[o]
      BY <1>3, <2>1
    <2>3. \A o, p \in rows : o = p \/ o \in ahead[p] \/ p \in ahead[o]
      BY <1>3, <2>1
    <2>4. \A o, p, q \in rows : o \in ahead[p] /\ q \in ahead[o] => q \in ahead[p]
      BY <1>3, <2>1
    <2>5. \A o, p \in rows : o \in ahead[p] => ahead[o] \subseteq ahead[p]
      BY <1>8, <2>4
    <2> QED
      BY <1>2, <1>8, <2>2, <2>3, <2>5 DEF Arranges
  <1>10. /\ \A o, p \in rows : o \in ahead[p] <=> Cardinality(ahead[o]) < Cardinality(ahead[p])
         /\ \A n \in 1 .. N : \E o \in rows : Cardinality(ahead[o]) = n - 1
    BY <1>9, Places DEF N
  <1>11. ASSUME NEW n \in 1 .. N, NEW o \in rows, Cardinality(Earlier(d, k, o)) = n - 1
         PROVE  price_history(d, k)[n] = Line(o)
    <2>1. Cardinality({p \in rows : BeforeById(p, o)}) = n - 1
      BY <1>5, <1>11
    <2>2. at(n) \in rows /\ Cardinality({p \in rows : BeforeById(p, at(n))}) = n - 1
      BY <2>1
    <2> HIDE DEF at
    <2>3. Cardinality(ahead[at(n)]) = n - 1 /\ Cardinality(ahead[o]) = n - 1
      BY <1>5, <1>7, <1>11, <2>2
    <2>4. ~ (n - 1 < n - 1)
      BY <1>2
    <2>5. at(n) \notin ahead[o] /\ o \notin ahead[at(n)]
      BY <1>10, <2>2, <2>3, <2>4
    <2>6. at(n) = o
      BY <1>9, <2>2, <2>5 DEF Arranges
    <2> QED
      BY <1>6, <2>6
  <1>12. price_history(d, k) = [n \in 1 .. N |-> price_history(d, k)[n]]
    BY <1>6
  <1> QED
    BY <1>2, <1>7, <1>10, <1>11, <1>12 DEF rows, N

\* A row of a later run comes last, and nothing else moves.
LEMMA HistoryExtended ==
  ASSUME NEW d, NEW e, RowsDistinct(d), RowsDistinct(e), NEW k, NEW id \in Nat,
         \A o \in d.observations : o.run_id < id,
         d.observations = {o \in e.observations : o.run_id # id}
  PROVE  /\ Len(price_history(e, k)) <= Len(price_history(d, k)) + 1
         /\ SubSeq(price_history(e, k), 1, Len(price_history(d, k))) = price_history(d, k)
  <1> DEFINE was == price_history(d, k)
             now == price_history(e, k)
             old == ObservationsOf(d, k)
             all == ObservationsOf(e, k)
             N == Cardinality(old)
             M == Cardinality(all)
  <1>1. /\ N \in Nat /\ was = [n \in 1 .. N |-> was[n]]
        /\ \A n \in 1 .. N : \E o \in old : Cardinality(Earlier(d, k, o)) = n - 1
        /\ \A n \in 1 .. N : \A o \in old : Cardinality(Earlier(d, k, o)) = n - 1 => was[n] = Line(o)
    BY HistoryLines
  <1>2. /\ M \in Nat /\ now = [n \in 1 .. M |-> now[n]]
        /\ \A n \in 1 .. M : \A o \in all : Cardinality(Earlier(e, k, o)) = n - 1 => now[n] = Line(o)
    BY HistoryLines
  <1>3. /\ old = {o \in all : o.run_id # id} /\ \A o \in old : o.run_id < id /\ o.run_id \in Nat
        /\ \A o, p \in all : o.run_id = p.run_id => o = p
        /\ IsFiniteSet(all) /\ all \in SUBSET e.observations
    <2>1. all \in SUBSET e.observations
      BY DEF ObservationsOf
    <2>2. IsFiniteSet(all)
      BY <2>1, FS_Subset DEF RowsDistinct
    <2>3. old = {o \in all : o.run_id # id}
      BY DEF ObservationsOf
    <2> QED
      BY <2>1, <2>2, <2>3 DEF RowsDistinct, ObservationsOf
  <1>4. \A o \in old : Earlier(e, k, o) = Earlier(d, k, o)
    <2> SUFFICES ASSUME NEW o \in old PROVE Earlier(e, k, o) = Earlier(d, k, o)
      OBVIOUS
    <2>1. Earlier(e, k, o) = {p \in all : p.run_id < o.run_id}
      BY DEF Earlier, BeforeById
    <2>2. Earlier(d, k, o) = {p \in old : p.run_id < o.run_id}
      BY DEF Earlier, BeforeById
    <2>3. \A p \in all : p.run_id < o.run_id => p \in old
      BY <1>3
    <2> HIDE DEF old, all
    <2> QED
      BY <1>3, <2>1, <2>2, <2>3
  <1>5. N <= M /\ M <= N + 1
    <2>1. CASE all = old
      BY <1>1, <2>1
    <2>2. CASE all # old
      <3>1. PICK o \in all : o.run_id = id
        BY <1>3, <2>2
      <3>2. all = old \cup {o} /\ o \notin old
        BY <1>3, <3>1
      <3>3. IsFiniteSet(old)
        BY <1>3, FS_Subset
      <3>4. M = N + 1
        BY <3>2, <3>3, FS_AddElement
      <3> QED
        BY <1>1, <3>4
    <2> QED
      BY <2>1, <2>2
  <1> HIDE DEF was, now, old, all, N, M
  <1>6. ASSUME NEW n \in 1 .. N PROVE now[n] = was[n]
    <2>1. PICK o \in old : Cardinality(Earlier(d, k, o)) = n - 1
      BY <1>1
    <2>2. o \in all /\ n \in 1 .. M
      BY <1>1, <1>2, <1>3, <1>5
    <2>3. was[n] = Line(o)
      BY <1>1, <2>1
    <2>4. Cardinality(Earlier(e, k, o)) = n - 1
      BY <1>4, <2>1
    <2> QED
      BY <1>2, <2>2, <2>3, <2>4
  <1>7. Len(was) = N /\ Len(now) = M
    BY <1>1, <1>2
  <1>8. SubSeq(now, 1, N) = [n \in 1 .. N |-> now[n]]
    <2> DEFINE S == {now[n] : n \in 1 .. M}
    <2>1. now \in [1 .. M -> S]
      BY <1>2
    <2> HIDE DEF S
    <2>2. now \in Seq(S)
      BY <1>2, <2>1
    <2> QED
      BY <1>1, <1>2, <1>5, <1>7, <2>2
  <1>9. [n \in 1 .. N |-> now[n]] = was
    BY <1>1, <1>6
  <1> QED
    BY <1>5, <1>7, <1>8, <1>9 DEF was, now

\* The tables are finite.
HistoryInv == LedgerInv /\ IsFiniteSet(pages.observations)

LEMMA HistoryInit == Init => HistoryInv
  <1> SUFFICES ASSUME Init PROVE IsFiniteSet(pages.observations)
    BY RowsInit DEF HistoryInv
  <1>1. CASE disk = EmptyDatabase
    <2>1. pages.observations = {}
      BY <1>1 DEF Init, EmptyDatabase
    <2> QED
      BY <2>1, FS_EmptySet
  <1>2. ASSUME NEW item \in Items, disk = LegacyDatabase(item)
        PROVE  IsFiniteSet(pages.observations)
    <2> DEFINE row == [run_id |-> 1, key |-> item.key, item |-> item, rank |-> 1,
                       observed_at |-> 1]
    <2>1. pages.observations = {row}
      BY <1>2 DEF Init, LegacyDatabase
    <2> HIDE DEF row
    <2> QED
      BY <2>1, FS_Singleton
  <1> QED
    BY <1>1, <1>2 DEF Init

LEMMA DiskDistinct ==
  ASSUME HistoryInv
  PROVE  RowsDistinct(pages) /\ RowsDistinct(disk)
  <1>1. LockInv /\ OneRowPerKey /\ IsFiniteSet(pages.observations)
    BY DEF HistoryInv, LedgerInv
  <1>2. \A o \in pages.observations : o.run_id \in Nat
    BY <1>1 DEF LockInv, TypeInv, TypeOK, Database, Row
  <1>3. RowsDistinct(pages)
    BY <1>1, <1>2 DEF OneRowPerKey, RowsDistinct
  <1>4. disk.observations \in SUBSET pages.observations
    BY <1>1 DEF LockInv, Isolation
  <1>5. IsFiniteSet(disk.observations)
    BY <1>1, <1>4, FS_Subset
  <1> QED
    BY <1>3, <1>4, <1>5 DEF RowsDistinct

LEMMA HistoryStep == HistoryInv /\ [Next]_storeVars => HistoryInv'
  <1> SUFFICES ASSUME HistoryInv, [Next]_storeVars PROVE IsFiniteSet(pages'.observations)
    BY RowsStep DEF HistoryInv
  <1>1. LockInv
    BY DEF HistoryInv, LedgerInv
  <1>2. IsFiniteSet(pages.observations) /\ IsFiniteSet(disk.observations)
    BY DiskDistinct DEF RowsDistinct
  <1>3. ASSUME NEW c \in Clients, InsertRun(c) PROVE IsFiniteSet(pages'.observations)
    <2>1. pages'.observations = disk.observations
      BY <1>1, <1>3 DEF InsertRun, LockInv, TypeInv, TypeOK, Database
    <2> QED
      BY <1>2, <2>1
  <1>4. ASSUME NEW c \in Clients, NEW k \in Keys, SaveListing(c, k)
        PROVE  IsFiniteSet(pages'.observations)
    <2>1. \E row : pages'.observations = pages.observations \cup {row}
      BY <1>1, <1>4 DEF SaveListing, LockInv, TypeInv, TypeOK, Database, Observe
    <2> QED
      BY <1>2, <2>1, FS_AddElement
  <1>5. ASSUME NEW c \in Clients, Commit(c) PROVE IsFiniteSet(pages'.observations)
    <2>1. disk'.observations = pages.observations /\ pages' = disk'
      BY <1>1, <1>5, CommitAppends DEF Commit
    <2> QED
      BY <1>2, <2>1
  <1>6. \/ \E c \in Clients : InsertRun(c) \/ Commit(c) \/ \E k \in Keys : SaveListing(c, k)
        \/ pages' \in {pages, disk}
    BY DEF Next, StoreStep, Advance, Tick, Initialize, AddColumn, SaveRun, LockTimeout,
           StatementFails, Exit, tables, locals, storeVars
  <1> QED
    BY <1>2, <1>3, <1>4, <1>5, <1>6

\* However saves overlap, fail or die: a step leaves what history shows of a listing as it
\* is, or adds one line at its end.
THEOREM HistoriesGrow == Spec => HistoryGrows
  <1> DEFINE Grows(k) ==
        /\ Len(price_history(disk', k)) <= Len(price_history(disk, k)) + 1
        /\ SubSeq(price_history(disk', k), 1, Len(price_history(disk, k))) = price_history(disk, k)
  <1>1. ASSUME HistoryInv, [Next]_storeVars, NEW k \in Keys
        PROVE  Grows(k)
    <2>1. /\ RowsDistinct(disk) /\ RowsDistinct(pages) /\ LockInv
          /\ disk \in Database /\ Len(disk.search_runs) \in Nat
      BY <1>1, DiskDistinct DEF HistoryInv, LedgerInv, LockInv, TypeInv, TypeOK, Database
    <2> DEFINE id == Len(disk.search_runs) + 1
    <2>2. \A o \in disk.observations : o.run_id < id /\ o.run_id # id
      BY <2>1 DEF LockInv, ReferencesExist, Database
    <2>3. id \in Nat
      BY <2>1
    <2>4. /\ disk.observations = {o \in disk'.observations : o.run_id # id}
          /\ RowsDistinct(disk')
      <3>1. CASE disk' = disk
        BY <2>1, <2>2, <3>1
      <3>2. ASSUME NEW c \in Clients, Commit(c)
            PROVE  /\ disk.observations = {o \in disk'.observations : o.run_id # id}
                   /\ RowsDistinct(disk')
        BY <2>1, <3>2, CommitAppends DEF RowsDistinct
      <3> QED
        BY <1>1, <3>1, <3>2, DiskStep
    <2> HIDE DEF id
    <2> QED
      BY <2>1, <2>2, <2>3, <2>4, HistoryExtended
  <1>2. HistoryInv /\ [Next]_storeVars =>
          [\A k \in Keys :
             LET was == price_history(disk, k)
                 now == price_history(disk', k)
             IN  Len(now) <= Len(was) + 1 /\ SubSeq(now, 1, Len(was)) = was]_storeVars
    BY <1>1
  <1> QED
    BY <1>2, HistoryInit, HistoryStep, PTL DEF Spec, HistoryGrows
=============================================================================

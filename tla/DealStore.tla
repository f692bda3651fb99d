------------------------------ MODULE DealStore ------------------------------
(***************************************************************************)
(* The SQLite repository of persistence.py as its callers reach it: several *)
(* dealfinder processes (Clients), each opening the database file, perhaps  *)
(* migrating it, and saving search runs in one transaction per run.         *)
(*                                                                         *)
(* SQLite itself is external: one writer at a time, who alone sees its      *)
(* uncommitted pages; the writer's first INSERT takes the lock; a crash or  *)
(* an exception inside the transaction rolls it back; a client that waits   *)
(* longer than the busy timeout gets an OperationalError.                   *)
(***************************************************************************)
EXTENDS Integers, Sequences, FiniteSets

CONSTANTS Clients,    \* processes that use one database file
          NoClient,   \* the lock's value when no transaction writes
          Keys,       \* listing keys, "<provider>:<identity>"
          Items,      \* scored listings (RankedListing); a record with a field key
          Runs,       \* search runs (SearchRun) the service may hand to save_run
          Null,       \* SQL NULL; also the run of a client that saves nothing
          MaxRuns,    \* bound: no save starts once this many runs are stored
          MaxClock    \* bound on the wall clock

VARIABLES schema,       \* "absent", "legacy" (search_runs has no result_json) or "current"
          clock,        \* the wall clock the processes share
          disk,         \* the committed tables
          pages,        \* the tables as the open transaction sees them; else disk
          writer,       \* who holds SQLite's write lock, or NoClient
          pc,           \* where each client is in the repository's code
          run,          \* save_run's argument
          observed_at,  \* save_run's timestamp
          run_id,       \* save_run's lastrowid
          todo          \* keys of unique_observed that are not written yet

tables == <<schema, disk, pages, writer>>
locals == <<pc, run, observed_at, run_id, todo>>
storeVars == <<schema, clock, disk, pages, writer, pc, run, observed_at, run_id, todo>>

-----------------------------------------------------------------------------
(* Search runs, as save_run reads them.                                    *)

KeysIn(s) == {s[i].key : i \in DOMAIN s}

\* `observed = run.observed or run.ranked`: an empty list is falsy.
Observed(r) == IF r.observed = <<>> THEN r.ranked ELSE r.observed

\* A dict built by iterating over s keeps, for each key, the last position.
LastAt(s, k) == {i \in DOMAIN s : s[i].key = k /\ \A j \in DOMAIN s : s[j].key = k => j <= i}

\* unique_observed[k]
unique_observed(r, k) == {Observed(r)[i] : i \in LastAt(Observed(r), k)}

\* Defect: ranks are counted from 0.
rank_by_key_from_zero(r, k) == IF k \in KeysIn(r.ranked) THEN {i - 1 : i \in LastAt(r.ranked, k)}
                                                         ELSE {0}

\* rank_by_key.get(k, 0)
rank_by_key(r, k) == IF k \in KeysIn(r.ranked) THEN LastAt(r.ranked, k) ELSE {0}

\* Defect: `observed` is not excluded from the stored result.
result_json_with_observed(r, id) == [run_id |-> id, ranked |-> r.ranked, observed |-> r.observed]

\* model_dump_json: `observed` is excluded; run_id 0 stands for None.
result_json(r, id) == [run_id |-> id, ranked |-> r.ranked]

RunsAssumption ==
  /\ Runs \subseteq [ranked : Seq(Items), observed : Seq(Items)]
  /\ \A r \in Runs : KeysIn(r.ranked) \subseteq KeysIn(Observed(r))

ASSUME ConstantsAssumption ==
  /\ NoClient \notin Clients
  /\ \A item \in Items : item.key \in Keys
  /\ Null \notin Runs \cup Seq(Items)
  /\ Null \notin [run_id : Nat, ranked : Seq(Items)]
  /\ Null \notin [first_seen : Nat, last_seen : Nat]
  /\ MaxRuns \in Nat
  /\ MaxClock \in Nat
  /\ RunsAssumption

-----------------------------------------------------------------------------
(* The tables.  The position of a row of search_runs is its AUTOINCREMENT  *)
(* id: ids are dense because a rollback also undoes sqlite_sequence.       *)

Results    == [run_id : Nat, ranked : Seq(Items)]
RunRow     == [started_at : Nat, result : Results \cup {Null}]
ListingRow == [first_seen : Nat, last_seen : Nat]
Row        == [run_id : Nat, key : Keys, item : Items, rank : Nat, observed_at : Nat]
Database   == [search_runs  : Seq(RunRow),
               listings     : [Keys -> ListingRow \cup {Null}],
               observations : SUBSET Row]

EmptyDatabase == [search_runs  |-> <<>>,
                  listings     |-> [k \in Keys |-> Null],
                  observations |-> {}]

\* A database that an earlier version wrote at time 1: one run, one listing.
LegacyDatabase(item) ==
  [search_runs  |-> <<[started_at |-> 1, result |-> Null]>>,
   listings     |-> [k \in Keys |-> IF k = item.key THEN [first_seen |-> 1, last_seen |-> 1]
                                                    ELSE Null],
   observations |-> {[run_id |-> 1, key |-> item.key, item |-> item, rank |-> 1,
                      observed_at |-> 1]}]

PCs == {"closed", "altering", "ready", "waiting", "writing", "returned", "failed"}

TypeOK ==
  /\ schema \in {"absent", "legacy", "current"}
  /\ clock \in Nat
  /\ disk \in Database
  /\ pages \in Database
  /\ writer \in Clients \cup {NoClient}
  /\ pc \in [Clients -> PCs]
  /\ run \in [Clients -> Runs \cup {Null}]
  /\ observed_at \in [Clients -> Nat]
  /\ run_id \in [Clients -> Nat]
  /\ todo \in [Clients -> SUBSET Keys]

Init ==
  /\ \/ schema = "absent" /\ disk = EmptyDatabase
     \/ schema = "legacy" /\ \E item \in Items : disk = LegacyDatabase(item)
  /\ clock = 1
  /\ pages = disk
  /\ writer = NoClient
  /\ pc = [c \in Clients |-> "closed"]
  /\ run = [c \in Clients |-> Null]
  /\ observed_at = [c \in Clients |-> 0]
  /\ run_id = [c \in Clients |-> 0]
  /\ todo = [c \in Clients |-> {}]

-----------------------------------------------------------------------------

\* The clock is UTC and is assumed never to be set back.
Tick ==
  /\ clock < MaxClock
  /\ clock' = clock + 1
  /\ UNCHANGED <<tables, locals>>

\* Defect: a database that exists is taken to have today's columns.
InitializeUnmigrated(c) ==
  /\ pc[c] = "closed"
  /\ schema' = IF schema = "absent" THEN "current" ELSE schema
  /\ pc' = [pc EXCEPT ![c] = "ready"]
  /\ UNCHANGED <<clock, disk, pages, writer, run, observed_at, run_id, todo>>

\* SQLiteRepository(path): CREATE ... IF NOT EXISTS and a look at the columns
\* of search_runs, all outside any transaction.
Initialize(c) ==
  /\ pc[c] = "closed"
  /\ \/ /\ schema = "legacy"
        /\ pc' = [pc EXCEPT ![c] = "altering"]
        /\ UNCHANGED schema
     \/ /\ schema # "legacy"
        /\ schema' = "current"
        /\ pc' = [pc EXCEPT ![c] = "ready"]
  /\ UNCHANGED <<clock, disk, pages, writer, run, observed_at, run_id, todo>>

\* ALTER TABLE ... ADD COLUMN, decided on what the client saw before: if another
\* client has added the column meanwhile the statement is an error.
AddColumn(c) ==
  /\ pc[c] = "altering"
  /\ schema' = "current"
  /\ pc' = [pc EXCEPT ![c] = IF schema = "legacy" THEN "ready" ELSE "failed"]
  /\ UNCHANGED <<clock, disk, pages, writer, run, observed_at, run_id, todo>>

\* save_run up to its first statement: the timestamp is taken before the lock.
SaveRun(c, r) ==
  /\ pc[c] = "ready"
  /\ Len(disk.search_runs) < MaxRuns
  /\ run' = [run EXCEPT ![c] = r]
  /\ observed_at' = [observed_at EXCEPT ![c] = clock]
  /\ pc' = [pc EXCEPT ![c] = "waiting"]
  /\ UNCHANGED <<clock, tables, run_id, todo>>

\* Defect: two transactions write at once.
LockIgnored == TRUE

LockFree == writer = NoClient

\* INSERT INTO search_runs: takes the write lock and assigns the id.
InsertRun(c) ==
  /\ pc[c] = "waiting"
  /\ LockFree
  /\ LET id == Len(disk.search_runs) + 1
     IN  /\ run_id' = [run_id EXCEPT ![c] = id]
         /\ pages' = [disk EXCEPT !.search_runs =
                        Append(@, [started_at |-> observed_at[c],
                                   result     |-> result_json(run[c], 0)])]
  /\ todo' = [todo EXCEPT ![c] = KeysIn(Observed(run[c]))]
  /\ writer' = c
  /\ pc' = [pc EXCEPT ![c] = "writing"]
  /\ UNCHANGED <<clock, schema, disk, run, observed_at>>

\* Defect: no busy timeout ends the wait.
NoLockTimeout(c) == FALSE /\ UNCHANGED storeVars

\* The busy timeout passes while another client writes: OperationalError.
LockTimeout(c) ==
  /\ pc[c] = "waiting"
  /\ writer # NoClient
  /\ pc' = [pc EXCEPT ![c] = "failed"]
  /\ UNCHANGED <<clock, tables, run, observed_at, run_id, todo>>

\* Defect: INSERT OR REPLACE, which forgets when the listing was first seen.
InsertOrReplace(listings, k, now) == [listings EXCEPT ![k] = [first_seen |-> now, last_seen |-> now]]

\* INSERT INTO listings ... ON CONFLICT DO UPDATE: first_seen_at is kept.
Upsert(listings, k, now) ==
  [listings EXCEPT ![k] = [first_seen |-> IF @ = Null THEN now ELSE @.first_seen,
                           last_seen  |-> now]]

\* Defect: only the latest observation of a listing is kept.
ObserveLatest(observations, row) == {o \in observations : o.key # row.key} \cup {row}

\* INSERT INTO observations
Observe(observations, row) == observations \cup {row}

\* One round of the loop over unique_observed.
SaveListing(c, k) ==
  /\ pc[c] = "writing"
  /\ k \in todo[c]
  /\ \E item \in unique_observed(run[c], k), rank \in rank_by_key(run[c], k) :
       pages' = [pages EXCEPT
                   !.listings = Upsert(@, k, observed_at[c]),
                   !.observations = Observe(@, [run_id |-> run_id[c], key |-> k, item |-> item,
                                                rank |-> rank, observed_at |-> observed_at[c]])]
  /\ todo' = [todo EXCEPT ![c] = @ \ {k}]
  /\ UNCHANGED <<clock, schema, disk, writer, pc, run, observed_at, run_id>>

\* Defect: every INSERT commits, and the run with it.
AnyWritten(c) == TRUE

AllWritten(c) == todo[c] = {}

\* UPDATE search_runs SET result_json, then the COMMIT of the with block.
Commit(c) ==
  /\ pc[c] = "writing"
  /\ AllWritten(c)
  /\ disk' = [pages EXCEPT !.search_runs[run_id[c]].result = result_json(run[c], run_id[c])]
  /\ pages' = disk'
  /\ writer' = NoClient
  /\ pc' = [pc EXCEPT ![c] = "returned"]
  /\ UNCHANGED <<clock, schema, run, observed_at, run_id, todo>>

\* Defect: the error is swallowed and the id returned all the same.
StatementFailsSilently(c) ==
  /\ pc[c] = "writing"
  /\ pages' = disk
  /\ writer' = NoClient
  /\ pc' = [pc EXCEPT ![c] = "returned"]
  /\ UNCHANGED <<clock, schema, disk, run, observed_at, run_id, todo>>

\* A statement or the COMMIT raises: the with block rolls back and re-raises.
StatementFails(c) ==
  /\ pc[c] = "writing"
  /\ pages' = disk
  /\ writer' = NoClient
  /\ pc' = [pc EXCEPT ![c] = "failed"]
  /\ UNCHANGED <<clock, schema, disk, run, observed_at, run_id, todo>>

\* The process ends, by returning, by an exception or killed at any point; the
\* next connection rolls back what an unfinished transaction left.
Exit(c) ==
  /\ pc[c] # "closed"
  /\ pc' = [pc EXCEPT ![c] = "closed"]
  /\ IF writer = c
       THEN writer' = NoClient /\ pages' = disk
       ELSE UNCHANGED <<writer, pages>>
  /\ run' = [run EXCEPT ![c] = Null]
  /\ observed_at' = [observed_at EXCEPT ![c] = 0]
  /\ run_id' = [run_id EXCEPT ![c] = 0]
  /\ todo' = [todo EXCEPT ![c] = {}]
  /\ UNCHANGED <<clock, schema, disk>>

\* What a client does inside the constructor or save_run, errors of SQLite aside.
Advance(c) ==
  \/ AddColumn(c)
  \/ InsertRun(c)
  \/ LockTimeout(c)
  \/ \E k \in Keys : SaveListing(c, k)
  \/ Commit(c)

StoreStep(c) == Advance(c) \/ StatementFails(c)

Next ==
  \/ Tick
  \/ \E c \in Clients :
       \/ Initialize(c)
       \/ \E r \in Runs : SaveRun(c, r)
       \/ StoreStep(c)
       \/ Exit(c)

Spec == Init /\ [][Next]_storeVars

-----------------------------------------------------------------------------
(* Reading the database.                                                   *)

RowsOf(d, id) == {o \in d.observations : o.run_id = id}

\* load_run(): the latest run, or Null where LookupError is raised.
load_run == IF disk.search_runs = <<>> THEN Null
            ELSE disk.search_runs[Len(disk.search_runs)].result

\* load_rank(rank, id): the items SELECT may answer with; {} is LookupError.
load_rank(rank, id) == {o.item : o \in {o \in RowsOf(disk, id) : o.rank = rank}}

ObservationsOf(d, k) == {o \in d.observations : o.key = k}

\* Defect: ORDER BY observed_at.
BeforeInTime(o, p) == o.observed_at < p.observed_at \/ (o.observed_at = p.observed_at /\ o.run_id < p.run_id)

\* ORDER BY id: a run inserts one row per key, and one run writes at a time.
BeforeById(o, p) == o.run_id < p.run_id

\* The n-th row that price_history answers with has n - 1 before it.
price_history(d, k) ==
  LET rows == ObservationsOf(d, k)
      at(n) == CHOOSE o \in rows : Cardinality({p \in rows : BeforeById(p, o)}) = n - 1
  IN  [n \in 1 .. Cardinality(rows) |-> [observed_at |-> at(n).observed_at, item |-> at(n).item]]

-----------------------------------------------------------------------------
(* Safety.                                                                 *)

\* The lock and the program counters agree, and what the writer has done so far
\* adds exactly one run row, with its own timestamp, to what is committed; the
\* rows it has written are those of the keys it has taken off its list.
Isolation ==
  /\ \A c \in Clients : writer = c <=> pc[c] = "writing"
  /\ writer = NoClient => pages = disk
  /\ writer # NoClient =>
       /\ run_id[writer] = Len(disk.search_runs) + 1
       /\ pages.search_runs = Append(disk.search_runs,
                                     [started_at |-> observed_at[writer],
                                      result     |-> result_json(run[writer], 0)])
       /\ disk.observations = {o \in pages.observations : o.run_id # run_id[writer]}
       /\ {o.key : o \in RowsOf(pages, run_id[writer])} =
            KeysIn(Observed(run[writer])) \ todo[writer]

\* The foreign key: no observation without its run.
ReferencesExist(d) == \A o \in d.observations : o.run_id \in DOMAIN d.search_runs

\* A stored result names its own id, and its observations are its own: at most one
\* per key, and every ranked listing is found in one of them under a rank at which
\* the result lists it.  A save that stops half way leaves nothing.
RunsComplete ==
  /\ ReferencesExist(disk)
  /\ \A id \in DOMAIN disk.search_runs :
       LET result == disk.search_runs[id].result
           rows   == RowsOf(disk, id)
       IN  /\ \A o, p \in rows : o.key = p.key => o = p
           /\ result # Null =>
                /\ result.run_id = id
                /\ KeysIn(result.ranked) = {o.key : o \in {o \in rows : o.rank # 0}}
                /\ \A o \in rows : o.rank # 0 => /\ o.rank \in DOMAIN result.ranked
                                                 /\ result.ranked[o.rank].key = o.key

\* The listings table summarises the observations: a listing has a row exactly
\* when it has been observed in a stored run, first_seen_at is the time of its
\* observation in the lowest-numbered run and last_seen_at in the highest.
Summarises(d, k) ==
  LET seen == {o \in d.observations : o.key = k}
      row  == d.listings[k]
  IN  IF seen = {}
        THEN row = Null
        ELSE /\ row # Null
             /\ \E o \in seen : /\ row.first_seen = o.observed_at
                                /\ \A p \in seen : o.run_id <= p.run_id
             /\ \E o \in seen : /\ row.last_seen = o.observed_at
                                /\ \A p \in seen : p.run_id <= o.run_id

SeenMatchesHistory == \A k \in Keys : Summarises(disk, k)

\* When save_run has returned an id, that id is the caller's own run: no other
\* client's save can get the same id or replace the result.
SavedRunIsMine ==
  \A c \in Clients : pc[c] = "returned" =>
    /\ run_id[c] \in DOMAIN disk.search_runs
    /\ disk.search_runs[run_id[c]] =
         [started_at |-> observed_at[c], result |-> result_json(run[c], run_id[c])]

\* A client that got past the constructor works on the migrated schema: save_run
\* never names a column that is not there.
SchemaReady ==
  \A c \in Clients : pc[c] \in {"ready", "waiting", "writing", "returned"} => schema = "current"

\* `show N` finds each listing of a stored ranking under its rank.
ShowFindsEveryRank ==
  \A id \in DOMAIN disk.search_runs :
    LET result == disk.search_runs[id].result
    IN  result # Null =>
          \A n \in DOMAIN result.ranked : load_rank(n, id) = {result.ranked[n]}

\* A listing was first seen no later than it was last seen.
SeenInOrder ==
  \A k \in Keys : disk.listings[k] # Null =>
                    disk.listings[k].first_seen <= disk.listings[k].last_seen

\* Stored runs and observations are never changed or removed.
AppendOnly ==
  [][ /\ \A id \in DOMAIN disk.search_runs :
           /\ id \in DOMAIN disk'.search_runs
           /\ disk'.search_runs[id] = disk.search_runs[id]
      /\ disk.observations \subseteq disk'.observations ]_storeVars

\* What `history` shows of a listing only gets longer, at its end and by one line for a
\* run, in whatever order overlapping saves took their timestamps.
HistoryGrows ==
  [][ \A k \in Keys :
        LET was == price_history(disk, k)
            now == price_history(disk', k)
        IN  Len(now) <= Len(was) + 1 /\ SubSeq(now, 1, Len(was)) = was ]_storeVars

-----------------------------------------------------------------------------
(* The store implements the ledger of whole snapshots.                     *)

LedgerOf(d) ==
  [id \in DOMAIN d.search_runs |->
     LET result == d.search_runs[id].result
     IN  [ranked |-> IF result = Null THEN Null ELSE result.ranked,
          rows   |-> {[item |-> o.item, rank |-> o.rank] : o \in RowsOf(d, id)}]]

Ledger == INSTANCE DealLedger WITH ledger <- LedgerOf(disk)

\* Whatever the clients do, and wherever they stop, the committed tables change
\* only by whole snapshots of single runs being appended.
ImplementsLedger == Ledger!Spec

=============================================================================

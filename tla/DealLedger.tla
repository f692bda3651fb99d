----------------------------- MODULE DealLedger -----------------------------
(***************************************************************************)
(* What the SQLite snapshot store promises its callers, without tables,    *)
(* transactions or time: a ledger of search snapshots.  A snapshot is      *)
(* appended whole or not at all, and never touched again.                  *)
(*                                                                         *)
(* A snapshot holds the ranking of the run and one row per distinct        *)
(* listing that the run observed, each with the rank it got (0 if none).   *)
(***************************************************************************)
EXTENDS Integers, Sequences

CONSTANTS Items,    \* scored listings; an item has a field key
          Runs,     \* search runs the application may record
          Null      \* the ranking of a row written before rankings were kept

VARIABLE ledger     \* the sequence of snapshots

-----------------------------------------------------------------------------

ObservedBy(run) == IF run.observed = <<>> THEN run.ranked ELSE run.observed

\* Positions whose key does not occur later in the sequence.
LastPositions(s) == {i \in DOMAIN s : \A j \in DOMAIN s : j > i => s[j].key # s[i].key}

\* The rank a run gives to a key: its last position in the ranking, or 0.
Ranks(run, key) ==
  LET last == {i \in LastPositions(run.ranked) : run.ranked[i].key = key}
  IN  IF last = {} THEN {0} ELSE last

RowsOf(run) ==
  UNION {{[item |-> ObservedBy(run)[i], rank |-> n] : n \in Ranks(run, ObservedBy(run)[i].key)} :
           i \in LastPositions(ObservedBy(run))}

Snapshot(run) == [ranked |-> run.ranked, rows |-> RowsOf(run)]

\* A snapshot of a database written before complete results were stored.
OldSnapshot(item) == [ranked |-> Null, rows |-> {[item |-> item, rank |-> 1]}]

-----------------------------------------------------------------------------

Init == \/ ledger = <<>>
        \/ \E item \in Items : ledger = <<OldSnapshot(item)>>

Record(run) == ledger' = Append(ledger, Snapshot(run))

Next == \E run \in Runs : Record(run)

Spec == Init /\ [][Next]_ledger
=============================================================================

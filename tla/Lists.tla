-------------------------------- MODULE Lists --------------------------------
(***************************************************************************)
(* What the code does with Python's lists: comprehensions, sorts, chains and *)
(* sums.  The order of a result is given by counting: an element's place     *)
(* follows from how many are ahead of it.                                   *)
(***************************************************************************)
EXTENDS Integers, Sequences, FiniteSets, Functions

IsList(s) == s \in Seq(Range(s))

\* ahead maps each of some things to those that come before it.
Nth(ahead, n) == CHOOSE i \in DOMAIN ahead : Cardinality(ahead[i]) = n - 1

\* [x for x in list if ...], which keeps the order; kept are the places of those x.
Filtered(list, kept) ==
  LET ahead == [i \in kept |-> {j \in kept : j < i}]
  IN  [n \in 1 .. Cardinality(kept) |-> list[Nth(ahead, n)]]

PlacePairs(list) == (DOMAIN list) \X (DOMAIN list)

\* sorted(list), which is stable: equals keep their order; less is a set of PlacePairs(list).
Sorted(list, less) ==
  LET ahead == [i \in DOMAIN list |-> {j \in DOMAIN list : \/ <<j, i>> \in less
                                                           \/ j < i /\ <<i, j>> \notin less}]
  IN  [n \in DOMAIN list |-> list[Nth(ahead, n)]]

\* [x for list in lists for x in list]
Chained(lists) ==
  LET upTo[n \in 0 .. Len(lists)] == IF n = 0 THEN <<>> ELSE upTo[n - 1] \o lists[n]
  IN  upTo[Len(lists)]

\* f[1] + ... + f[n]
SumTo(f, n) == LET sum[k \in 0 .. n] == IF k = 0 THEN 0 ELSE sum[k - 1] + f[k] IN sum[n]
==============================================================================

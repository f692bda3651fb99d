----------------------------- MODULE ListProofs -----------------------------
(***************************************************************************)
(* What the operators of Lists compute, for lists of any length.  Induction  *)
(* is by the least counterexample, a fact about a set of numbers that the    *)
(* well-foundedness of < gives.                                             *)
(***************************************************************************)
EXTENDS Lists, FiniteSetTheorems, WellFoundedInduction, TLAPS

-----------------------------------------------------------------------------
(* Induction.                                                              *)

LEMMA Least ==
  ASSUME NEW S \in SUBSET Nat, S # {}
  PROVE  \E n \in S : \A m \in S : n <= m
  <1> DEFINE R == OpToRel(<, Nat)
  <1>1. IsWellFoundedOn(R, Nat)
    BY NatLessThanWellFounded
  <1>2. R = {ss \in Nat \X Nat : ss[1] < ss[2]}
    BY DEF OpToRel
  <1> HIDE DEF R
  <1>3. PICK n \in S : \A m \in S : ~ (<<m, n>> \in R)
    BY <1>1, WFMin
  <1>4. \A m \in S : <<m, n>> \in Nat \X Nat /\ <<m, n>>[1] = m /\ <<m, n>>[2] = n
    OBVIOUS
  <1>5. \A m \in S : ~ (m < n)
    BY <1>2, <1>3, <1>4
  <1> QED
    BY <1>5

\* What holds of 0 and passes from n to n + 1 holds up to N.
LEMMA Induction ==
  ASSUME NEW N \in Nat, NEW S, 0 \in S, \A n \in 0 .. N - 1 : n \in S => n + 1 \in S
  PROVE  0 .. N \subseteq S
  <1> DEFINE Bad == {n \in 0 .. N : n \notin S}
  <1> SUFFICES ASSUME Bad # {} PROVE FALSE
    OBVIOUS
  <1>1. Bad \in SUBSET Nat
    OBVIOUS
  <1>2. PICK n \in Bad : \A m \in Bad : n <= m
    BY <1>1, Least
  <1>3. n # 0 /\ n \in 0 .. N /\ n \notin S
    BY <1>2
  <1>4. n - 1 \in 0 .. N - 1 /\ n - 1 \notin Bad
    BY <1>2, <1>3
  <1>5. n - 1 \in S
    BY <1>4
  <1>6. (n - 1) + 1 = n
    BY <1>3
  <1> QED
    BY <1>3, <1>4, <1>5, <1>6

-----------------------------------------------------------------------------
(* Order by counting.                                                      *)

\* ahead is a strict total order on the finite set S.
Arranges(ahead, S) ==
  /\ IsFiniteSet(S)
  /\ ahead \in [S -> SUBSET S]
  /\ \A i \in S : i \notin ahead[i]
  /\ \A i, j \in S : i \in ahead[j] => ahead[i] \subseteq ahead[j]
  /\ \A i, j \in S : i = j \/ i \in ahead[j] \/ j \in ahead[i]

\* Counting those ahead numbers the things from 1 to how many there are.
LEMMA Places ==
  ASSUME NEW S, NEW ahead, Arranges(ahead, S)
  PROVE  /\ \A i \in S : Cardinality(ahead[i]) + 1 \in 1 .. Cardinality(S)
         /\ \A i, j \in S : i \in ahead[j] <=> Cardinality(ahead[i]) < Cardinality(ahead[j])
         /\ \A n \in 1 .. Cardinality(S) : \E i \in S : Cardinality(ahead[i]) = n - 1
  <1> DEFINE N == Cardinality(S)
             place == [i \in S |-> Cardinality(ahead[i]) + 1]
  <1>1. IsFiniteSet(S) /\ N \in Nat
    BY FS_CardinalityType DEF Arranges
  <1>2. \A i \in S : /\ ahead[i] \in SUBSET S /\ IsFiniteSet(ahead[i])
                     /\ Cardinality(ahead[i]) \in Nat
    BY <1>1, FS_Subset, FS_CardinalityType DEF Arranges
  <1>3. ASSUME NEW i \in S PROVE Cardinality(ahead[i]) < N
    <2>1. ahead[i] # S /\ ahead[i] \in SUBSET S
      BY <1>2 DEF Arranges
    <2>2. Cardinality(ahead[i]) <= N /\ Cardinality(ahead[i]) # N
      BY <1>1, <2>1, FS_Subset
    <2> QED
      BY <1>1, <1>2, <2>2
  <1>4. ASSUME NEW i \in S, NEW j \in S, i \in ahead[j]
        PROVE  Cardinality(ahead[i]) < Cardinality(ahead[j])
    <2>1. ahead[i] \in SUBSET ahead[j] /\ ahead[i] # ahead[j]
      BY <1>4 DEF Arranges
    <2>2. /\ Cardinality(ahead[i]) <= Cardinality(ahead[j])
          /\ Cardinality(ahead[i]) # Cardinality(ahead[j])
      BY <1>2, <2>1, FS_Subset
    <2> QED
      BY <1>2, <2>2
  <1>5. ASSUME NEW i \in S, NEW j \in S, Cardinality(ahead[i]) < Cardinality(ahead[j])
        PROVE  i \in ahead[j]
    <2>1. i # j /\ j \notin ahead[i]
      BY <1>2, <1>4, <1>5
    <2> QED
      BY <2>1 DEF Arranges
  <1>6. place \in Injection(S, 1 .. N)
    <2>1. \A i \in S : place[i] \in 1 .. N
      BY <1>1, <1>2, <1>3
    <2>2. ASSUME NEW i \in S, NEW j \in S, place[i] = place[j] PROVE i = j
      <3>1. Cardinality(ahead[i]) = Cardinality(ahead[j])
        BY <1>2, <2>2
      <3>2. i \notin ahead[j] /\ j \notin ahead[i]
        BY <1>2, <1>4, <3>1
      <3> QED
        BY <3>2 DEF Arranges
    <2>3. place \in [S -> 1 .. N]
      BY <2>1
    <2> HIDE DEF place
    <2> QED
      BY <2>2, <2>3 DEF Injection, IsInjective
  <1>7. place \in Surjection(S, 1 .. N)
    <2>1. IsFiniteSet(1 .. N) /\ Cardinality(1 .. N) = N
      BY <1>1, FS_Interval
    <2> HIDE DEF place, N
    <2> QED
      BY <1>6, <2>1, FS_Injection DEF N
  <1>8. ASSUME NEW n \in 1 .. N PROVE \E i \in S : Cardinality(ahead[i]) = n - 1
    <2>1. \E i \in S : place[i] = n
      <3> HIDE DEF place, N
      <3> QED
        BY <1>7 DEF Surjection
    <2> QED
      BY <1>2, <2>1
  <1>9. \A i \in S : Cardinality(ahead[i]) + 1 \in 1 .. Cardinality(S)
    BY <1>1, <1>2, <1>3
  <1> QED
    BY <1>4, <1>5, <1>8, <1>9

\* So there is exactly one for each number, and their numbers say who is ahead.
LEMMA NthOf ==
  ASSUME NEW S, NEW ahead, Arranges(ahead, S)
  PROVE  /\ \A n \in 1 .. Cardinality(S) : /\ Nth(ahead, n) \in S
                                           /\ Cardinality(ahead[Nth(ahead, n)]) = n - 1
         /\ \A i \in S : /\ Cardinality(ahead[i]) + 1 \in 1 .. Cardinality(S)
                         /\ Nth(ahead, Cardinality(ahead[i]) + 1) = i
         /\ \A m, n \in 1 .. Cardinality(S) : m < n <=> Nth(ahead, m) \in ahead[Nth(ahead, n)]
  <1> DEFINE N == Cardinality(S)
  <1>1. /\ \A i \in S : Cardinality(ahead[i]) + 1 \in 1 .. N /\ Cardinality(ahead[i]) \in Nat
        /\ \A i, j \in S : i \in ahead[j] <=> Cardinality(ahead[i]) < Cardinality(ahead[j])
        /\ \A n \in 1 .. N : \E i \in S : Cardinality(ahead[i]) = n - 1
    <2>1. \A i \in S : ahead[i] \in SUBSET S
      BY DEF Arranges
    <2>2. \A i \in S : Cardinality(ahead[i]) \in Nat
      BY <2>1, FS_Subset, FS_CardinalityType DEF Arranges
    <2> QED
      BY <2>2, Places
  <1>2. DOMAIN ahead = S
    BY DEF Arranges
  <1>3. \A n \in 1 .. N : Nth(ahead, n) \in S /\ Cardinality(ahead[Nth(ahead, n)]) = n - 1
    BY <1>1, <1>2 DEF Nth
  <1>4. \A i, j \in S : Cardinality(ahead[i]) = Cardinality(ahead[j]) => i = j
    BY <1>1 DEF Arranges
  <1>5. ASSUME NEW i \in S PROVE Nth(ahead, Cardinality(ahead[i]) + 1) = i
    <2> DEFINE n == Cardinality(ahead[i]) + 1
    <2>1. n \in 1 .. N /\ n - 1 = Cardinality(ahead[i])
      BY <1>1
    <2> HIDE DEF n
    <2>2. Nth(ahead, n) \in S /\ Cardinality(ahead[Nth(ahead, n)]) = Cardinality(ahead[i])
      BY <1>3, <2>1
    <2>3. Nth(ahead, n) = i
      BY <1>4, <2>2
    <2> QED
      BY <2>3 DEF n
  <1>6. ASSUME NEW m \in 1 .. N, NEW n \in 1 .. N
        PROVE  m < n <=> Nth(ahead, m) \in ahead[Nth(ahead, n)]
    <2>1. m - 1 < n - 1 <=> Nth(ahead, m) \in ahead[Nth(ahead, n)]
      BY <1>1, <1>3
    <2>2. N \in Nat
      BY FS_CardinalityType DEF Arranges
    <2> QED
      BY <2>1, <2>2
  <1> QED
    BY <1>1, <1>3, <1>5, <1>6

-----------------------------------------------------------------------------
(* Lists.                                                                  *)

LEMMA UpTo ==
  ASSUME NEW n \in Nat
  PROVE  IsFiniteSet(1 .. n) /\ Cardinality(1 .. n) = n
  BY FS_Interval

LEMMA ListOf ==
  ASSUME NEW s, NEW N \in Nat, s = [n \in 1 .. N |-> s[n]]
  PROVE  IsList(s) /\ Len(s) = N /\ DOMAIN s = 1 .. N
  BY DEF IsList, Range

LEMMA ListIs ==
  ASSUME NEW s, IsList(s)
  PROVE  Len(s) \in Nat /\ DOMAIN s = 1 .. Len(s) /\ s = [n \in 1 .. Len(s) |-> s[n]]
  BY DEF IsList

\* at numbers what is kept, in its order; f has it in that order.
Keeps(at, f, s, kept) ==
  /\ at \in [1 .. Cardinality(kept) -> kept]
  /\ \A n \in 1 .. Cardinality(kept) : f[n] = s[at[n]]
  /\ \A i \in kept : \E n \in 1 .. Cardinality(kept) : at[n] = i
  /\ \A m, n \in 1 .. Cardinality(kept) : m < n <=> at[m] < at[n]

\* A comprehension keeps those that were to be kept, and their order.
LEMMA FilteredOf ==
  ASSUME NEW s, NEW kept \in SUBSET Nat, IsFiniteSet(kept)
  PROVE  /\ IsList(Filtered(s, kept)) /\ Len(Filtered(s, kept)) = Cardinality(kept)
         /\ \E at : Keeps(at, Filtered(s, kept), s, kept)
  <1> DEFINE N == Cardinality(kept)
             ahead == [i \in kept |-> {j \in kept : j < i}]
             at == [n \in 1 .. N |-> Nth(ahead, n)]
  <1>1. N \in Nat
    BY FS_CardinalityType
  <1>2. Arranges(ahead, kept)
    <2>1. \A i \in kept : ahead[i] = {j \in kept : j < i}
      OBVIOUS
    <2>2. ahead \in [kept -> SUBSET kept]
      OBVIOUS
    <2> HIDE DEF ahead
    <2>3. \A i, j \in kept : i \in ahead[j] <=> i < j
      BY <2>1
    <2>4. ASSUME NEW i \in kept, NEW j \in kept, i \in ahead[j], NEW k \in ahead[i]
          PROVE  k \in ahead[j]
      <3>1. i < j /\ k < i /\ k \in kept
        BY <2>1, <2>4
      <3>2. i \in Nat /\ j \in Nat /\ k \in Nat
        BY <3>1
      <3> QED
        BY <2>3, <3>1, <3>2
    <2>5. \A i, j \in kept : i \notin ahead[i] /\ (i = j \/ i \in ahead[j] \/ j \in ahead[i])
      <3>1. \A i, j \in kept : ~ (i < i) /\ (i = j \/ i < j \/ j < i)
        OBVIOUS
      <3> QED
        BY <2>3, <3>1
    <2> QED
      BY <2>2, <2>4, <2>5 DEF Arranges
  <1>3. Filtered(s, kept) = [n \in 1 .. N |-> s[Nth(ahead, n)]]
    BY DEF Filtered
  <1> HIDE DEF ahead
  <1>4. IsList(Filtered(s, kept)) /\ Len(Filtered(s, kept)) = N
    BY <1>1, <1>3, ListOf
  <1>5. /\ \A n \in 1 .. N : Nth(ahead, n) \in kept
        /\ \A i \in kept : \E n \in 1 .. N : Nth(ahead, n) = i
        /\ \A m, n \in 1 .. N : m < n <=> Nth(ahead, m) \in ahead[Nth(ahead, n)]
    BY <1>2, NthOf
  <1>6. \A i, j \in kept : i \in ahead[j] <=> i < j
    BY DEF ahead
  <1>7. at \in [1 .. N -> kept] /\ \A n \in 1 .. N : at[n] = Nth(ahead, n)
    BY <1>5
  <1> HIDE DEF at, N
  <1>8. \A n \in 1 .. N : Filtered(s, kept)[n] = s[at[n]]
    BY <1>3, <1>7
  <1>9. \A i \in kept : \E n \in 1 .. N : at[n] = i
    BY <1>5, <1>7
  <1>10. ASSUME NEW m \in 1 .. N, NEW n \in 1 .. N PROVE m < n <=> at[m] < at[n]
    <2>1. at[m] \in kept /\ at[n] \in kept /\ at[m] = Nth(ahead, m) /\ at[n] = Nth(ahead, n)
      BY <1>7
    <2>2. at[m] \in ahead[at[n]] <=> at[m] < at[n]
      BY <1>6, <2>1
    <2> QED
      BY <1>5, <2>1, <2>2
  <1>11. Keeps(at, Filtered(s, kept), s, kept)
    BY <1>7, <1>8, <1>9, <1>10 DEF N, Keeps
  <1> QED
    BY <1>4, <1>11 DEF N

\* The same for places of a list.
LEMMA FilteredFrom ==
  ASSUME NEW s, IsList(s), NEW kept \in SUBSET (DOMAIN s)
  PROVE  /\ Cardinality(kept) \in Nat /\ IsFiniteSet(kept)
         /\ IsList(Filtered(s, kept)) /\ Len(Filtered(s, kept)) = Cardinality(kept)
         /\ DOMAIN Filtered(s, kept) = 1 .. Cardinality(kept)
         /\ \A n \in DOMAIN Filtered(s, kept) : \E i \in kept : Filtered(s, kept)[n] = s[i]
         /\ \A i \in kept : \E n \in DOMAIN Filtered(s, kept) : Filtered(s, kept)[n] = s[i]
  <1>1. Len(s) \in Nat /\ DOMAIN s = 1 .. Len(s)
    BY ListIs
  <1>2. kept \in SUBSET Nat /\ kept \in SUBSET (1 .. Len(s))
    BY <1>1
  <1>3. IsFiniteSet(kept) /\ Cardinality(kept) \in Nat
    <2>1. IsFiniteSet(1 .. Len(s))
      BY <1>1, UpTo
    <2>2. IsFiniteSet(kept)
      BY <1>2, <2>1, FS_Subset
    <2> QED
      BY <2>2, FS_CardinalityType
  <1>4. /\ IsList(Filtered(s, kept)) /\ Len(Filtered(s, kept)) = Cardinality(kept)
        /\ \E at : Keeps(at, Filtered(s, kept), s, kept)
    BY <1>2, <1>3, FilteredOf
  <1>5. DOMAIN Filtered(s, kept) = 1 .. Cardinality(kept)
    BY <1>4, ListIs
  <1>6. PICK at : Keeps(at, Filtered(s, kept), s, kept)
    BY <1>4
  <1>7. /\ \A n \in 1 .. Cardinality(kept) : at[n] \in kept /\ Filtered(s, kept)[n] = s[at[n]]
        /\ \A i \in kept : \E n \in 1 .. Cardinality(kept) : at[n] = i
    BY <1>6 DEF Keeps
  <1>8. ASSUME NEW i \in kept PROVE \E n \in 1 .. Cardinality(kept) : Filtered(s, kept)[n] = s[i]
    BY <1>7
  <1> QED
    BY <1>3, <1>4, <1>5, <1>7, <1>8

\* What is kept has a first and a last, or it is empty.
LEMMA FilteredEnds ==
  ASSUME NEW s, IsList(s), NEW kept \in SUBSET (DOMAIN s), NEW f, f = Filtered(s, kept)
  PROVE  /\ kept = {} <=> f = <<>>
         /\ kept # {} => 1 \in DOMAIN f /\ Len(f) \in DOMAIN f
  <1>1. /\ Cardinality(kept) \in Nat /\ IsFiniteSet(kept)
        /\ IsList(f) /\ Len(f) = Cardinality(kept) /\ DOMAIN f = 1 .. Cardinality(kept)
    BY FilteredFrom
  <1>2. Cardinality(kept) = 0 <=> kept = {}
    BY <1>1, FS_EmptySet
  <1>3. f = <<>> <=> Len(f) = 0
    BY <1>1, ListIs
  <1> QED
    BY <1>1, <1>2, <1>3

\* A list of as many things computed one by one.
LEMMA MappedList ==
  ASSUME NEW s, IsList(s), NEW t, t = [n \in DOMAIN s |-> t[n]]
  PROVE  IsList(t) /\ Len(t) = Len(s) /\ DOMAIN t = DOMAIN s
  <1>1. Len(s) \in Nat /\ DOMAIN s = 1 .. Len(s)
    BY ListIs
  <1> QED
    BY <1>1, ListOf

-----------------------------------------------------------------------------
(* Sorting.                                                                *)

\* less is a strict weak order on S.
Ranks(less, S) ==
  /\ \A i, j \in S : <<i, j>> \in less => <<j, i>> \notin less
  /\ \A i, j, k \in S : <<i, j>> \in less => <<i, k>> \in less \/ <<k, j>> \in less

\* f is the list s in the order of at, where none comes before one that is less.
Rearranges(at, f, s, less) ==
  /\ at \in [DOMAIN s -> DOMAIN s]
  /\ \A n \in DOMAIN s : f[n] = s[at[n]]
  /\ \A i \in DOMAIN s : \E n \in DOMAIN s : at[n] = i
  /\ \A m, n \in DOMAIN s : at[m] = at[n] => m = n
  /\ \A m, n \in DOMAIN s : m < n => <<at[n], at[m]>> \notin less

\* A sort rearranges a list, and nothing comes before what is less.
LEMMA SortedOf ==
  ASSUME NEW s, IsList(s), NEW less, Ranks(less, DOMAIN s)
  PROVE  /\ IsList(Sorted(s, less)) /\ DOMAIN Sorted(s, less) = DOMAIN s
         /\ Len(Sorted(s, less)) = Len(s)
         /\ \E at : Rearranges(at, Sorted(s, less), s, less)
  <1> DEFINE S == DOMAIN s
             ahead == [i \in S |-> {j \in S : <<j, i>> \in less \/ (j < i /\ <<i, j>> \notin less)}]
             at == [n \in S |-> Nth(ahead, n)]
  <1>1. Len(s) \in Nat /\ S = 1 .. Len(s)
    BY ListIs
  <1>2. IsFiniteSet(S) /\ Cardinality(S) = Len(s)
    BY <1>1, UpTo
  <1>3. \A i, j \in S : i \in ahead[j] <=> <<i, j>> \in less \/ (i < j /\ <<j, i>> \notin less)
    OBVIOUS
  <1>4. ahead \in [S -> SUBSET S]
    OBVIOUS
  <1>5. Sorted(s, less) = [n \in S |-> s[Nth(ahead, n)]]
    BY DEF Sorted
  <1>6. /\ \A i, j \in S : <<i, j>> \in less => <<j, i>> \notin less
        /\ \A i, j, k \in S : <<i, j>> \in less => <<i, k>> \in less \/ <<k, j>> \in less
    BY DEF Ranks
  <1>7. \A i, j \in S : i \in Nat /\ (i < j \/ i = j \/ j < i) /\ ~ (i < i)
    BY <1>1
  <1> HIDE DEF ahead, S
  <1>8. Arranges(ahead, S)
    <2>1. \A i \in S : i \notin ahead[i]
      BY <1>3, <1>6, <1>7
    <2>2. \A i, j \in S : i = j \/ i \in ahead[j] \/ j \in ahead[i]
      BY <1>3, <1>6, <1>7
    <2>3. ASSUME NEW i \in S, NEW j \in S, i \in ahead[j], NEW k \in ahead[i]
          PROVE  k \in ahead[j]
      <3>1. k \in S
        BY <1>4, <2>3
      <3>2. /\ <<i, j>> \in less \/ (i < j /\ <<j, i>> \notin less)
            /\ <<k, i>> \in less \/ (k < i /\ <<i, k>> \notin less)
        BY <1>3, <2>3, <3>1
      <3>3. k < i /\ i < j => k < j
        BY <1>7, <3>1
      <3>4. <<k, j>> \in less \/ (k < j /\ <<j, k>> \notin less)
        BY <1>6, <3>1, <3>2, <3>3
      <3> QED
        BY <1>3, <3>1, <3>4
    <2>4. \A i, j \in S : i \in ahead[j] => ahead[i] \subseteq ahead[j]
      BY <2>3
    <2> QED
      BY <1>2, <1>4, <2>1, <2>2, <2>4 DEF Arranges
  <1>9. /\ \A n \in S : Nth(ahead, n) \in S
        /\ \A i \in S : \E n \in S : Nth(ahead, n) = i
        /\ \A m, n \in S : m < n <=> Nth(ahead, m) \in ahead[Nth(ahead, n)]
    <2>1. S = 1 .. Cardinality(S)
      BY <1>1, <1>2
    <2>2. /\ \A n \in 1 .. Cardinality(S) : Nth(ahead, n) \in S
          /\ \A i \in S : /\ Cardinality(ahead[i]) + 1 \in 1 .. Cardinality(S)
                          /\ Nth(ahead, Cardinality(ahead[i]) + 1) = i
          /\ \A m, n \in 1 .. Cardinality(S) :
               m < n <=> Nth(ahead, m) \in ahead[Nth(ahead, n)]
      BY <1>8, NthOf
    <2> QED
      BY <2>1, <2>2
  <1>10. at \in [S -> S] /\ \A n \in S : at[n] = Nth(ahead, n)
    BY <1>9
  <1> HIDE DEF at
  <1>11. ASSUME NEW m \in S, NEW n \in S, m < n
         PROVE  at[m] # at[n] /\ <<at[n], at[m]>> \notin less
    <2>1. at[m] \in ahead[at[n]] /\ at[m] \in S /\ at[n] \in S
      BY <1>9, <1>10, <1>11
    <2> QED
      BY <1>3, <1>6, <1>7, <2>1
  <1>12. \A n \in S : Sorted(s, less)[n] = s[at[n]]
    BY <1>5, <1>10
  <1>13. \A i \in S : \E n \in S : at[n] = i
    BY <1>9, <1>10
  <1>14. \A m, n \in S : at[m] = at[n] => m = n
    BY <1>7, <1>11
  <1>15. IsList(Sorted(s, less)) /\ Len(Sorted(s, less)) = Len(s) /\ DOMAIN Sorted(s, less) = S
    BY <1>1, <1>5, ListOf
  <1>16. Rearranges(at, Sorted(s, less), s, less)
    BY <1>10, <1>11, <1>12, <1>13, <1>14 DEF S, Rearranges
  <1> QED
    BY <1>15, <1>16 DEF S

-----------------------------------------------------------------------------
(* Sums.                                                                   *)

\* g is the function that SumTo(f, n) defines by recursion.
Sums(g, f, n) == g = [k \in 0 .. n |-> IF k = 0 THEN 0 ELSE g[k - 1] + f[k]]

LEMMA SumsExist ==
  ASSUME NEW f, NEW n \in Nat
  PROVE  \E g : Sums(g, f, n)
  <1> DEFINE S == {k \in Nat : \E g : Sums(g, f, k)}
  <1>1. 0 \in S
    <2>1. Sums([k \in 0 .. 0 |-> 0], f, 0)
      BY DEF Sums
    <2> QED
      BY <2>1
  <1>2. ASSUME NEW k \in 0 .. n - 1, k \in S PROVE k + 1 \in S
    <2>1. PICK g : Sums(g, f, k)
      BY <1>2
    <2> DEFINE h == [j \in 0 .. k + 1 |-> IF j = k + 1 THEN g[k] + f[k + 1] ELSE g[j]]
    <2>2. \A j \in 0 .. k : h[j] = g[j] /\ g[j] = IF j = 0 THEN 0 ELSE g[j - 1] + f[j]
      BY <2>1 DEF Sums
    <2>3. ASSUME NEW j \in 0 .. k + 1 PROVE h[j] = IF j = 0 THEN 0 ELSE h[j - 1] + f[j]
      <3>1. CASE j = k + 1
        <4>1. h[j] = g[k] + f[k + 1] /\ j # 0 /\ j - 1 = k /\ k \in 0 .. k
          BY <3>1
        <4> QED
          BY <2>2, <3>1, <4>1
      <3>2. CASE j \in 0 .. k
        <4>1. j # 0 => j - 1 \in 0 .. k
          BY <3>2
        <4> QED
          BY <2>2, <3>2, <4>1
      <3> QED
        BY <3>1, <3>2
    <2>4. h = [j \in 0 .. k + 1 |-> h[j]]
      OBVIOUS
    <2> HIDE DEF h
    <2>5. Sums(h, f, k + 1)
      BY <2>3, <2>4 DEF Sums
    <2> QED
      BY <2>5
  <1> HIDE DEF S
  <1>3. 0 .. n \subseteq S
    BY <1>1, <1>2, Induction
  <1> QED
    BY <1>3 DEF S

LEMMA SumsAgree ==
  ASSUME NEW f, NEW n \in Nat, NEW m \in 0 .. n, NEW g, Sums(g, f, n), NEW h, Sums(h, f, m)
  PROVE  g[m] = h[m]
  <1> DEFINE S == {k \in 0 .. m : g[k] = h[k]}
  <1>1. \A k \in 0 .. m : /\ g[k] = IF k = 0 THEN 0 ELSE g[k - 1] + f[k]
                          /\ h[k] = IF k = 0 THEN 0 ELSE h[k - 1] + f[k]
    BY DEF Sums
  <1>2. 0 \in S
    BY <1>1
  <1>3. ASSUME NEW k \in 0 .. m - 1, k \in S PROVE k + 1 \in S
    <2>1. k + 1 \in 0 .. m /\ k + 1 # 0 /\ (k + 1) - 1 = k
      OBVIOUS
    <2> QED
      BY <1>1, <1>3, <2>1
  <1> HIDE DEF S
  <1>4. 0 .. m \subseteq S
    BY <1>2, <1>3, Induction
  <1> QED
    BY <1>4 DEF S

LEMMA SumStep ==
  ASSUME NEW f
  PROVE  /\ SumTo(f, 0) = 0
         /\ \A n \in Nat \ {0} : SumTo(f, n) = SumTo(f, n - 1) + f[n]
  <1>1. ASSUME NEW n \in Nat
        PROVE  \E g : Sums(g, f, n) /\ SumTo(f, n) = g[n]
    <2> DEFINE s == CHOOSE g : g = [k \in 0 .. n |-> IF k = 0 THEN 0 ELSE g[k - 1] + f[k]]
    <2>1. SumTo(f, n) = s[n]
      BY DEF SumTo
    <2>2. \E g : g = [k \in 0 .. n |-> IF k = 0 THEN 0 ELSE g[k - 1] + f[k]]
      BY SumsExist DEF Sums
    <2>3. s = [k \in 0 .. n |-> IF k = 0 THEN 0 ELSE s[k - 1] + f[k]]
      BY <2>2
    <2> HIDE DEF s
    <2>4. Sums(s, f, n)
      BY <2>3 DEF Sums
    <2> QED
      BY <2>1, <2>4
  <1>2. SumTo(f, 0) = 0
    <2>1. PICK g : Sums(g, f, 0) /\ SumTo(f, 0) = g[0]
      BY <1>1
    <2> QED
      BY <2>1 DEF Sums
  <1>3. ASSUME NEW n \in Nat \ {0} PROVE SumTo(f, n) = SumTo(f, n - 1) + f[n]
    <2>1. PICK g : Sums(g, f, n) /\ SumTo(f, n) = g[n]
      BY <1>1
    <2>2. PICK h : Sums(h, f, n - 1) /\ SumTo(f, n - 1) = h[n - 1]
      BY <1>1
    <2>3. g[n] = g[n - 1] + f[n]
      BY <2>1 DEF Sums
    <2>4. g[n - 1] = h[n - 1]
      BY <2>1, <2>2, SumsAgree
    <2> QED
      BY <2>1, <2>2, <2>3, <2>4
  <1> QED
    BY <1>2, <1>3

LEMMA SumRange ==
  ASSUME NEW n \in Nat, NEW f, \A k \in 1 .. n : f[k] \in Int
  PROVE  /\ SumTo(f, n) \in Int
         /\ (\A k \in 1 .. n : f[k] >= 0) => SumTo(f, n) \in Nat
  <1> DEFINE Good(k) == /\ SumTo(f, k) \in Int
                        /\ (\A j \in 1 .. n : f[j] >= 0) => SumTo(f, k) >= 0
             S == {k \in 0 .. n : Good(k)}
  <1>1. 0 \in S
    BY SumStep
  <1>2. ASSUME NEW k \in 0 .. n - 1, k \in S PROVE k + 1 \in S
    <2>1. k + 1 \in 1 .. n /\ k + 1 \in Nat \ {0} /\ (k + 1) - 1 = k
      OBVIOUS
    <2>2. SumTo(f, k + 1) = SumTo(f, k) + f[k + 1] /\ f[k + 1] \in Int
      BY <2>1, SumStep
    <2> QED
      BY <1>2, <2>1, <2>2
  <1> HIDE DEF S
  <1>3. 0 .. n \subseteq S
    BY <1>1, <1>2, Induction
  <1> QED
    BY <1>3 DEF S

LEMMA SumSame ==
  ASSUME NEW n \in Nat, NEW f, NEW g, \A k \in 1 .. n : f[k] = g[k]
  PROVE  SumTo(f, n) = SumTo(g, n)
  <1> DEFINE S == {k \in 0 .. n : SumTo(f, k) = SumTo(g, k)}
  <1>1. 0 \in S
    BY SumStep
  <1>2. ASSUME NEW k \in 0 .. n - 1, k \in S PROVE k + 1 \in S
    <2>1. k + 1 \in 1 .. n /\ k + 1 \in Nat \ {0} /\ (k + 1) - 1 = k
      OBVIOUS
    <2>2. SumTo(f, k + 1) = SumTo(f, k) + f[k + 1] /\ SumTo(g, k + 1) = SumTo(g, k) + g[k + 1]
      BY <2>1, SumStep
    <2> QED
      BY <1>2, <2>1, <2>2
  <1> HIDE DEF S
  <1>3. 0 .. n \subseteq S
    BY <1>1, <1>2, Induction
  <1> QED
    BY <1>3 DEF S

LEMMA SumMonotone ==
  ASSUME NEW n \in Nat, NEW f, NEW g,
         \A k \in 1 .. n : f[k] \in Int /\ g[k] \in Int /\ f[k] <= g[k]
  PROVE  SumTo(f, n) <= SumTo(g, n)
  <1> DEFINE S == {k \in 0 .. n : SumTo(f, k) <= SumTo(g, k)}
  <1>1. 0 \in S
    BY SumStep
  <1>2. ASSUME NEW k \in 0 .. n - 1, k \in S PROVE k + 1 \in S
    <2>1. k + 1 \in 1 .. n /\ k + 1 \in Nat \ {0} /\ (k + 1) - 1 = k
      OBVIOUS
    <2>2. SumTo(f, k + 1) = SumTo(f, k) + f[k + 1] /\ SumTo(g, k + 1) = SumTo(g, k) + g[k + 1]
      BY <2>1, SumStep
    <2>3. SumTo(f, k) \in Int /\ SumTo(g, k) \in Int
      <3>1. k \in Nat /\ \A j \in 1 .. k : f[j] \in Int /\ g[j] \in Int
        OBVIOUS
      <3> QED
        BY <3>1, SumRange
    <2> QED
      BY <1>2, <2>1, <2>2, <2>3
  <1> HIDE DEF S
  <1>3. 0 .. n \subseteq S
    BY <1>1, <1>2, Induction
  <1> QED
    BY <1>3 DEF S

LEMMA SumLinear ==
  ASSUME NEW n \in Nat, NEW f, NEW g, NEW h, NEW c \in Int,
         \A k \in 1 .. n : f[k] \in Int /\ g[k] \in Int /\ h[k] = f[k] + c * g[k]
  PROVE  SumTo(h, n) = SumTo(f, n) + c * SumTo(g, n)
  <1> DEFINE S == {k \in 0 .. n : SumTo(h, k) = SumTo(f, k) + c * SumTo(g, k)}
  <1>1. 0 \in S
    BY SumStep
  <1>2. ASSUME NEW k \in 0 .. n - 1, k \in S PROVE k + 1 \in S
    <2>1. k + 1 \in 1 .. n /\ k + 1 \in Nat \ {0} /\ (k + 1) - 1 = k
      OBVIOUS
    <2>2. /\ SumTo(f, k + 1) = SumTo(f, k) + f[k + 1] /\ SumTo(g, k + 1) = SumTo(g, k) + g[k + 1]
          /\ SumTo(h, k + 1) = SumTo(h, k) + h[k + 1]
      BY <2>1, SumStep
    <2>3. SumTo(f, k) \in Int /\ SumTo(g, k) \in Int
      <3>1. k \in Nat /\ \A j \in 1 .. k : f[j] \in Int /\ g[j] \in Int
        OBVIOUS
      <3> QED
        BY <3>1, SumRange
    <2>4. \A a, b \in Int : c * (a + b) = c * a + c * b /\ c * a \in Int
      OBVIOUS
    <2>5. c * SumTo(g, k + 1) = c * SumTo(g, k) + c * g[k + 1]
      BY <2>1, <2>2, <2>3, <2>4
    <2>6. h[k + 1] = f[k + 1] + c * g[k + 1] /\ f[k + 1] \in Int /\ c * g[k + 1] \in Int
      BY <2>1, <2>4
    <2>7. SumTo(h, k) = SumTo(f, k) + c * SumTo(g, k) /\ c * SumTo(g, k) \in Int
      BY <1>2, <2>3, <2>4
    <2>8. SumTo(h, k + 1) = SumTo(f, k + 1) + c * SumTo(g, k + 1)
      BY <2>2, <2>3, <2>5, <2>6, <2>7
    <2> QED
      BY <2>1, <2>8
  <1> HIDE DEF S
  <1>3. 0 .. n \subseteq S
    BY <1>1, <1>2, Induction
  <1> QED
    BY <1>3 DEF S

\* No term of a sum of natural numbers exceeds it.
LEMMA SumTerm ==
  ASSUME NEW n \in Nat, NEW f, \A k \in 1 .. n : f[k] \in Nat, NEW p \in 1 .. n
  PROVE  f[p] <= SumTo(f, n)
  <1> DEFINE S == {k \in 0 .. n : p <= k => f[p] <= SumTo(f, k)}
  <1>1. 0 \in S
    OBVIOUS
  <1>2. ASSUME NEW k \in 0 .. n - 1, k \in S PROVE k + 1 \in S
    <2>1. k + 1 \in 1 .. n /\ k + 1 \in Nat \ {0} /\ (k + 1) - 1 = k /\ k \in Nat
      OBVIOUS
    <2>2. SumTo(f, k + 1) = SumTo(f, k) + f[k + 1] /\ f[k + 1] \in Nat /\ f[p] \in Nat
      BY <2>1, SumStep
    <2>3. SumTo(f, k) \in Nat
      <3>1. \A j \in 1 .. k : f[j] \in Int /\ f[j] >= 0
        BY <2>1
      <3> QED
        BY <2>1, <3>1, SumRange
    <2> QED
      BY <1>2, <2>1, <2>2, <2>3
  <1> HIDE DEF S
  <1>3. 0 .. n \subseteq S
    BY <1>1, <1>2, Induction
  <1> QED
    BY <1>3 DEF S

LEMMA SumTimes ==
  ASSUME NEW n \in Nat, NEW g, NEW h, NEW c \in Int,
         \A k \in 1 .. n : g[k] \in Int /\ h[k] = c * g[k]
  PROVE  SumTo(h, n) = c * SumTo(g, n)
  <1> DEFINE none == [k \in 1 .. n |-> 0]
             S == {k \in 0 .. n : SumTo(none, k) = 0}
  <1>1. 0 \in S
    BY SumStep
  <1>2. ASSUME NEW k \in 0 .. n - 1, k \in S PROVE k + 1 \in S
    <2>1. k + 1 \in 1 .. n /\ k + 1 \in Nat \ {0} /\ (k + 1) - 1 = k
      OBVIOUS
    <2>2. SumTo(none, k + 1) = SumTo(none, k) + none[k + 1] /\ none[k + 1] = 0
      BY <2>1, SumStep
    <2> QED
      BY <1>2, <2>1, <2>2
  <1>3. \A k \in 1 .. n : none[k] = 0
    OBVIOUS
  <1> HIDE DEF S, none
  <1>4. SumTo(none, n) = 0
    <2>1. 0 .. n \subseteq S
      BY <1>1, <1>2, Induction
    <2> QED
      BY <2>1 DEF S
  <1>5. \A k \in 1 .. n : none[k] \in Int /\ g[k] \in Int /\ h[k] = none[k] + c * g[k]
    <2>1. \A x \in Int : c * x \in Int /\ 0 + c * x = c * x
      OBVIOUS
    <2> QED
      BY <1>3, <2>1
  <1>6. SumTo(h, n) = 0 + c * SumTo(g, n)
    BY <1>4, <1>5, SumLinear
  <1>7. c * SumTo(g, n) \in Int
    BY SumRange
  <1> QED
    BY <1>6, <1>7

\* Two lists that differ in one place only differ as much in their sums.
LEMMA SumChanged ==
  ASSUME NEW n \in Nat, NEW p \in 1 .. n, NEW f, NEW g,
         \A k \in 1 .. n : f[k] \in Int /\ g[k] \in Int /\ (k # p => f[k] = g[k])
  PROVE  SumTo(f, n) - f[p] = SumTo(g, n) - g[p]
  <1> DEFINE Good(k) == IF k < p THEN SumTo(f, k) = SumTo(g, k)
                        ELSE SumTo(f, k) - f[p] = SumTo(g, k) - g[p]
             S == {k \in 0 .. n : Good(k)}
  <1>1. 0 \in S
    BY SumStep
  <1>2. ASSUME NEW k \in 0 .. n - 1, k \in S PROVE k + 1 \in S
    <2>1. k + 1 \in 1 .. n /\ k + 1 \in Nat \ {0} /\ (k + 1) - 1 = k
      OBVIOUS
    <2>2. SumTo(f, k + 1) = SumTo(f, k) + f[k + 1] /\ SumTo(g, k + 1) = SumTo(g, k) + g[k + 1]
      BY <2>1, SumStep
    <2>3. SumTo(f, k) \in Int /\ SumTo(g, k) \in Int
      <3>1. k \in Nat /\ \A j \in 1 .. k : f[j] \in Int /\ g[j] \in Int
        OBVIOUS
      <3> QED
        BY <3>1, SumRange
    <2>4. f[k + 1] \in Int /\ g[k + 1] \in Int /\ f[p] \in Int /\ g[p] \in Int
          /\ (k + 1 # p => f[k + 1] = g[k + 1])
      BY <2>1
    <2> QED
      BY <1>2, <2>1, <2>2, <2>3, <2>4
  <1> HIDE DEF S
  <1>3. 0 .. n \subseteq S
    BY <1>1, <1>2, Induction
  <1> QED
    BY <1>3 DEF S

-----------------------------------------------------------------------------
(* Sums over a set.                                                        *)

\* e numbers the elements of S from 1 to n.
Numbers(e, n, S) ==
  /\ e \in [1 .. n -> S]
  /\ \A i \in S : \E k \in 1 .. n : e[k] = i
  /\ \A j, k \in 1 .. n : e[j] = e[k] => j = k

\* The last takes the place of the p-th.
Without(e, p, k) == [j \in 1 .. k |-> IF j = p THEN e[k + 1] ELSE e[j]]

LEMMA NumbersBelow ==
  ASSUME NEW k \in Nat, NEW S, NEW e, Numbers(e, k + 1, S), NEW p \in 1 .. k + 1
  PROVE  Numbers(Without(e, p, k), k, S \ {e[p]})
  <1> DEFINE b == Without(e, p, k)
             T == S \ {e[p]}
  <1>1. \A j : j \in 1 .. k + 1 <=> j \in 1 .. k \/ j = k + 1
    OBVIOUS
  <1>2. k + 1 \notin 1 .. k
    OBVIOUS
  <1>3. /\ DOMAIN b = 1 .. k /\ b = [j \in 1 .. k |-> b[j]]
        /\ \A j \in 1 .. k : b[j] = IF j = p THEN e[k + 1] ELSE e[j]
    BY DEF Without
  <1>4. /\ \A j \in 1 .. k + 1 : e[j] \in S
        /\ \A i \in S : \E j \in 1 .. k + 1 : e[j] = i
        /\ \A i, j \in 1 .. k + 1 : e[i] = e[j] => i = j
    BY DEF Numbers
  <1> HIDE DEF b
  <1>5. ASSUME NEW j \in 1 .. k PROVE b[j] \in T
    <2>1. CASE j = p
      <3>1. k + 1 # p /\ k + 1 \in 1 .. k + 1
        BY <1>1, <1>2, <2>1
      <3> QED
        BY <1>1, <1>3, <1>4, <2>1, <3>1
    <2>2. CASE j # p
      BY <1>1, <1>3, <1>4, <2>2
    <2> QED
      BY <2>1, <2>2
  <1>6. ASSUME NEW i \in T PROVE \E j \in 1 .. k : b[j] = i
    <2>1. PICK j \in 1 .. k + 1 : e[j] = i
      BY <1>4
    <2>2. j # p
      BY <2>1
    <2>3. CASE j = k + 1
      <3>1. p \in 1 .. k
        BY <1>1, <2>2, <2>3
      <3> QED
        BY <1>3, <2>1, <2>3, <3>1
    <2>4. CASE j # k + 1
      <3>1. j \in 1 .. k
        BY <1>1, <2>1, <2>4
      <3> QED
        BY <1>3, <2>1, <2>2, <3>1
    <2> QED
      BY <2>3, <2>4
  <1>7. ASSUME NEW i \in 1 .. k, NEW j \in 1 .. k, b[i] = b[j] PROVE i = j
    <2>1. i # k + 1 /\ j # k + 1 /\ {i, j, k + 1} \subseteq 1 .. k + 1
      BY <1>1, <1>2
    <2>2. (b[i] = IF i = p THEN e[k + 1] ELSE e[i]) /\ (b[j] = IF j = p THEN e[k + 1] ELSE e[j])
      BY <1>3
    <2> QED
      BY <1>4, <1>7, <2>1, <2>2
  <1>8. b \in [1 .. k -> T]
    BY <1>3, <1>5
  <1> QED
    BY <1>6, <1>7, <1>8 DEF Numbers, b

Picked(s) == CHOOSE x \in s : TRUE

\* What SumFunction(f) defines by recursion over the subsets of f's domain.
Fold(g, f, s) == IF s = {} THEN 0 ELSE f[Picked(s)] + g[s \ {Picked(s)}]
Folded(g, f, S) == g = [s \in SUBSET S |-> Fold(g, f, s)]

LEMMA PickedSmaller ==
  ASSUME NEW S, IsFiniteSet(S), NEW s \in SUBSET S, s # {}
  PROVE  /\ Picked(s) \in s /\ s \ {Picked(s)} \in SUBSET S
         /\ Cardinality(s) \in Nat /\ Cardinality(s) > 0
         /\ Cardinality(s \ {Picked(s)}) = Cardinality(s) - 1
  <1>1. IsFiniteSet(s) /\ Picked(s) \in s
    BY FS_Subset DEF Picked
  <1>2. Cardinality(s) \in Nat /\ Cardinality(s) # 0
    BY <1>1, FS_CardinalityType, FS_EmptySet
  <1>3. Cardinality(s \ {Picked(s)}) = Cardinality(s) - 1
    BY <1>1, FS_RemoveElement
  <1> QED
    BY <1>1, <1>2, <1>3

\* The same for the sets of at most n elements.
FoldedTo(g, f, S, n) ==
  /\ g = [s \in SUBSET S |-> g[s]]
  /\ \A s \in SUBSET S : Cardinality(s) <= n => g[s] = Fold(g, f, s)

LEMMA FoldedExists ==
  ASSUME NEW f, NEW S, IsFiniteSet(S)
  PROVE  \E g : Folded(g, f, S)
  <1> DEFINE N == Cardinality(S)
             M == {n \in 0 .. N : \E g : FoldedTo(g, f, S, n)}
  <1>1. N \in Nat /\ \A s \in SUBSET S : Cardinality(s) \in Nat /\ Cardinality(s) <= N
    BY FS_CardinalityType, FS_Subset
  <1>2. 0 \in M
    <2> DEFINE g == [s \in SUBSET S |-> 0]
    <2>1. ASSUME NEW s \in SUBSET S, Cardinality(s) <= 0 PROVE g[s] = Fold(g, f, s)
      <3>1. s = {}
        <4>1. ~(Cardinality(s) > 0)
          BY <1>1, <2>1
        <4> QED
          BY <4>1, PickedSmaller
      <3> QED
        BY <3>1 DEF Fold
    <2>2. g = [s \in SUBSET S |-> g[s]]
      OBVIOUS
    <2> HIDE DEF g
    <2>3. FoldedTo(g, f, S, 0)
      BY <2>1, <2>2 DEF FoldedTo
    <2> QED
      BY <1>1, <2>3
  <1>3. ASSUME NEW n \in 0 .. N - 1, n \in M PROVE n + 1 \in M
    <2>1. PICK g : FoldedTo(g, f, S, n)
      BY <1>3
    <2> DEFINE h == [s \in SUBSET S |-> IF Cardinality(s) <= n THEN g[s] ELSE Fold(g, f, s)]
    <2>2. \A s \in SUBSET S : h[s] = Fold(g, f, s) \/ Cardinality(s) <= n
      OBVIOUS
    <2>3. \A s \in SUBSET S : Cardinality(s) <= n => h[s] = g[s] /\ g[s] = Fold(g, f, s)
      BY <2>1 DEF FoldedTo
    <2>4. h = [s \in SUBSET S |-> h[s]]
      OBVIOUS
    <2> HIDE DEF h
    <2>5. ASSUME NEW s \in SUBSET S, Cardinality(s) <= n + 1 PROVE h[s] = Fold(h, f, s)
      <3>1. h[s] = Fold(g, f, s)
        BY <2>2, <2>3
      <3>2. CASE s = {}
        BY <3>1, <3>2 DEF Fold
      <3>3. CASE s # {}
        <4>1. /\ s \ {Picked(s)} \in SUBSET S /\ Cardinality(s) \in Nat
              /\ Cardinality(s \ {Picked(s)}) = Cardinality(s) - 1
          BY <3>3, PickedSmaller
        <4>2. Cardinality(s \ {Picked(s)}) <= n
          BY <2>5, <4>1
        <4>3. h[s \ {Picked(s)}] = g[s \ {Picked(s)}]
          BY <2>3, <4>1, <4>2
        <4> QED
          BY <3>1, <3>3, <4>3 DEF Fold
      <3> QED
        BY <3>2, <3>3
    <2>6. FoldedTo(h, f, S, n + 1)
      BY <2>4, <2>5 DEF FoldedTo
    <2> QED
      BY <1>1, <2>6
  <1> HIDE DEF M
  <1>4. 0 .. N \subseteq M
    BY <1>1, <1>2, <1>3, Induction
  <1>5. PICK g : FoldedTo(g, f, S, N)
    BY <1>1, <1>4 DEF M
  <1>6. Folded(g, f, S)
    BY <1>1, <1>5 DEF Folded, FoldedTo
  <1> QED
    BY <1>6

LEMMA SumFolded ==
  ASSUME NEW f, IsFiniteSet(DOMAIN f)
  PROVE  \E g : Folded(g, f, DOMAIN f) /\ SumFunction(f) = g[DOMAIN f]
  <1> DEFINE S == DOMAIN f
             it == CHOOSE g : g = [s \in SUBSET S |-> IF s = {} THEN 0
                                                      ELSE f[CHOOSE x \in s : TRUE] + g[s \ {CHOOSE x \in s : TRUE}]]
  <1>1. SumFunction(f) = it[S]
    BY DEF SumFunction, SumFunctionOnSet, FoldFunctionOnSet, MapThenFoldSet
  <1>2. \E g : g = [s \in SUBSET S |-> IF s = {} THEN 0
                                        ELSE f[CHOOSE x \in s : TRUE] + g[s \ {CHOOSE x \in s : TRUE}]]
    <2>1. PICK g : Folded(g, f, S)
      BY FoldedExists
    <2>2. g = [s \in SUBSET S |-> IF s = {} THEN 0
                                  ELSE f[CHOOSE x \in s : TRUE] + g[s \ {CHOOSE x \in s : TRUE}]]
      BY <2>1 DEF Folded, Fold, Picked
    <2> QED
      BY <2>2
  <1>3. it = [s \in SUBSET S |-> IF s = {} THEN 0
                                 ELSE f[CHOOSE x \in s : TRUE] + it[s \ {CHOOSE x \in s : TRUE}]]
    BY <1>2
  <1> HIDE DEF it
  <1>4. Folded(it, f, S)
    BY <1>3 DEF Folded, Fold, Picked
  <1> QED
    BY <1>1, <1>4

Through(f, e) == [k \in DOMAIN e |-> f[e[k]]]

\* In whatever order the elements are numbered, their sum is that of the list.
LEMMA SumNumbered ==
  ASSUME NEW f, \A x \in DOMAIN f : f[x] \in Int, NEW n \in Nat, NEW e, Numbers(e, n, DOMAIN f)
  PROVE  SumFunction(f) = SumTo(Through(f, e), n)
  <1> DEFINE S == DOMAIN f
  <1>1. IsFiniteSet(S)
    <2>1. IsFiniteSet(1 .. n) /\ e \in Surjection(1 .. n, S)
      BY UpTo DEF Numbers, Surjection
    <2> QED
      BY <2>1, FS_Surjection
  <1>2. PICK g : Folded(g, f, S) /\ SumFunction(f) = g[S]
    BY <1>1, SumFolded
  <1> DEFINE Good(k) == \A s \in SUBSET S : \A b : Numbers(b, k, s) => g[s] = SumTo(Through(f, b), k)
             M == {k \in 0 .. n : Good(k)}
  <1>3. 0 \in M
    <2>1. ASSUME NEW s \in SUBSET S, NEW b, Numbers(b, 0, s) PROVE g[s] = SumTo(Through(f, b), 0)
      <3>1. s = {}
        BY <2>1 DEF Numbers
      <3>2. g[s] = 0
        BY <1>2, <3>1 DEF Folded, Fold
      <3> QED
        BY <3>2, SumStep
    <2> QED
      BY <2>1
  <1>4. ASSUME NEW k \in 0 .. n - 1, k \in M PROVE k + 1 \in M
    <2>1. k + 1 \in 1 .. n /\ k + 1 \in Nat \ {0} /\ (k + 1) - 1 = k /\ k \in Nat
      OBVIOUS
    <2>2. ASSUME NEW s \in SUBSET S, NEW b, Numbers(b, k + 1, s)
          PROVE  g[s] = SumTo(Through(f, b), k + 1)
      <3> DEFINE x == Picked(s)
                 u == Through(f, b)
      <3>1. \A j \in 1 .. k + 1 : b[j] \in s /\ u[j] = f[b[j]] /\ u[j] \in Int
        <4>1. b \in [1 .. k + 1 -> s]
          BY <2>2 DEF Numbers
        <4> QED
          BY <4>1 DEF Through
      <3>2. s # {}
        BY <2>1, <3>1
      <3>3. x \in s /\ s \ {x} \in SUBSET S
        BY <1>1, <3>2, PickedSmaller
      <3>4. g[s] = f[x] + g[s \ {x}]
        BY <1>2, <3>2 DEF Folded, Fold
      <3> HIDE DEF x
      <3>5. PICK p \in 1 .. k + 1 : b[p] = x
        BY <2>2, <3>3 DEF Numbers
      <3> DEFINE c == Without(b, p, k)
                 v == Through(f, c)
      <3>6. Numbers(c, k, s \ {x})
        BY <2>1, <2>2, <3>5, NumbersBelow
      <3>7. ASSUME NEW j \in 1 .. k
            PROVE  v[j] = (IF j = p THEN u[k + 1] ELSE u[j]) /\ v[j] \in Int /\ u[j] \in Int
        <4>1. j \in 1 .. k + 1 /\ k + 1 \in 1 .. k + 1
          BY <2>1
        <4>2. c[j] = IF j = p THEN b[k + 1] ELSE b[j]
          BY DEF Without
        <4>3. v[j] = f[c[j]]
          BY DEF Through, Without
        <4> HIDE DEF u, v, c
        <4> QED
          BY <3>1, <4>1, <4>2, <4>3
      <3> HIDE DEF c
      <3>8. g[s \ {x}] = SumTo(v, k)
        BY <1>4, <3>3, <3>6
      <3>9. f[x] = u[p] /\ u[p] \in Int /\ u[k + 1] \in Int /\ k + 1 \in 1 .. k + 1
        BY <2>1, <3>1, <3>5
      <3> HIDE DEF u, v
      <3>10. SumTo(u, k + 1) = SumTo(u, k) + u[k + 1]
        BY <2>1, SumStep
      <3>11. SumTo(u, k) \in Int /\ SumTo(v, k) \in Int
        BY <2>1, <3>7, SumRange
      <3>12. CASE p = k + 1
        <4>1. \A j \in 1 .. k : u[j] = v[j]
          BY <2>1, <3>7, <3>12
        <4>2. SumTo(u, k) = SumTo(v, k)
          BY <2>1, <4>1, SumSame
        <4> QED
          BY <3>4, <3>8, <3>9, <3>10, <3>11, <3>12, <4>2 DEF u
      <3>13. CASE p \in 1 .. k
        <4>1. \A j \in 1 .. k : u[j] \in Int /\ v[j] \in Int /\ (j # p => u[j] = v[j])
          BY <3>7
        <4>2. SumTo(u, k) - u[p] = SumTo(v, k) - v[p]
          BY <2>1, <3>13, <4>1, SumChanged
        <4>3. v[p] = u[k + 1]
          BY <3>7, <3>13
        <4>4. g[s] = SumTo(u, k + 1)
          BY <3>4, <3>8, <3>9, <3>10, <3>11, <4>2, <4>3
        <4> QED
          BY <4>4 DEF u
      <3>14. p = k + 1 \/ p \in 1 .. k
        BY <2>1
      <3> QED
        BY <3>12, <3>13, <3>14
    <2> QED
      BY <2>1, <2>2
  <1> HIDE DEF M
  <1>5. 0 .. n \subseteq M
    BY <1>3, <1>4, Induction
  <1>6. Good(n)
    BY <1>5 DEF M
  <1> QED
    BY <1>2, <1>6

\* The order in which numbers are added does not matter.
LEMMA SumPermuted ==
  ASSUME NEW n \in Nat, NEW f, \A k \in 1 .. n : f[k] \in Int, NEW at, Numbers(at, n, 1 .. n)
  PROVE  SumTo(Through(f, at), n) = SumTo(f, n)
  <1> DEFINE h == [k \in 1 .. n |-> f[k]]
             id == [k \in 1 .. n |-> k]
  <1>1. DOMAIN h = 1 .. n /\ \A k \in 1 .. n : h[k] = f[k] /\ h[k] \in Int /\ id[k] = k
    OBVIOUS
  <1>2. Numbers(id, n, 1 .. n)
    BY DEF Numbers
  <1>3. \A k \in 1 .. n : at[k] \in 1 .. n /\ Through(f, at)[k] = f[at[k]] /\ Through(h, at)[k] = h[at[k]]
    BY DEF Numbers, Through
  <1>4. \A k \in 1 .. n : Through(h, id)[k] = h[k]
    BY DEF Through
  <1> HIDE DEF h, id
  <1>5. SumTo(Through(h, at), n) = SumTo(Through(h, id), n)
    BY <1>1, <1>2, SumNumbered
  <1>6. SumTo(Through(h, id), n) = SumTo(f, n)
    BY <1>1, <1>4, SumSame
  <1>7. SumTo(Through(h, at), n) = SumTo(Through(f, at), n)
    BY <1>1, <1>3, SumSame
  <1> QED
    BY <1>5, <1>6, <1>7

-----------------------------------------------------------------------------
(* Chains.                                                                 *)

\* g is the function that Chained(lists) defines by recursion, up to n.
Chains(g, lists, n) == g = [k \in 0 .. n |-> IF k = 0 THEN <<>> ELSE g[k - 1] \o lists[k]]

LEMMA ChainsExist ==
  ASSUME NEW lists, NEW n \in Nat
  PROVE  \E g : Chains(g, lists, n)
  <1> DEFINE S == {k \in Nat : \E g : Chains(g, lists, k)}
  <1>1. 0 \in S
    <2>1. Chains([k \in 0 .. 0 |-> <<>>], lists, 0)
      BY DEF Chains
    <2> QED
      BY <2>1
  <1>2. ASSUME NEW k \in 0 .. n - 1, k \in S PROVE k + 1 \in S
    <2>1. PICK g : Chains(g, lists, k)
      BY <1>2
    <2> DEFINE h == [j \in 0 .. k + 1 |-> IF j = k + 1 THEN g[k] \o lists[k + 1] ELSE g[j]]
    <2>2. \A j \in 0 .. k : h[j] = g[j] /\ g[j] = IF j = 0 THEN <<>> ELSE g[j - 1] \o lists[j]
      BY <2>1 DEF Chains
    <2>3. ASSUME NEW j \in 0 .. k + 1 PROVE h[j] = IF j = 0 THEN <<>> ELSE h[j - 1] \o lists[j]
      <3>1. CASE j = k + 1
        <4>1. j # 0 /\ j - 1 = k /\ k \in 0 .. k /\ j \in 0 .. k + 1
          BY <3>1
        <4>2. h[j] = IF j = k + 1 THEN g[k] \o lists[k + 1] ELSE g[j]
          BY <4>1
        <4> HIDE DEF h
        <4>3. h[k] = g[k]
          BY <2>2, <4>1
        <4> QED
          BY <3>1, <4>1, <4>2, <4>3
      <3>2. CASE j \in 0 .. k
        <4>1. j # 0 => j - 1 \in 0 .. k
          BY <3>2
        <4> QED
          BY <2>2, <3>2, <4>1
      <3> QED
        BY <3>1, <3>2
    <2>4. h = [j \in 0 .. k + 1 |-> h[j]]
      OBVIOUS
    <2> HIDE DEF h
    <2>5. Chains(h, lists, k + 1)
      BY <2>3, <2>4 DEF Chains
    <2> QED
      BY <2>5
  <1> HIDE DEF S
  <1>3. 0 .. n \subseteq S
    BY <1>1, <1>2, Induction
  <1> QED
    BY <1>3 DEF S

\* An element of a chain comes from a list's place and its own place there.
PlaceBefore(p, q) == p[1] < q[1] \/ (p[1] = q[1] /\ p[2] < q[2])

\* at tells where the elements of c, the chain of the first k lists, come from: all of them,
\* in their order.
Follows(at, c, lists, k) ==
  /\ \A i \in DOMAIN c : /\ at[i] = <<at[i][1], at[i][2]>>
                         /\ at[i][1] \in 1 .. k /\ at[i][2] \in DOMAIN lists[at[i][1]]
                         /\ c[i] = lists[at[i][1]][at[i][2]]
  /\ \A n \in 1 .. k : \A m \in DOMAIN lists[n] : \E i \in DOMAIN c : at[i] = <<n, m>>
  /\ \A i, j \in DOMAIN c : i < j <=> PlaceBefore(at[i], at[j])

LEMMA ChainGrows ==
  ASSUME NEW lists, NEW k \in Nat, NEW a, IsList(a), NEW b, b = lists[k + 1], IsList(b),
         NEW at, Follows(at, a, lists, k), NEW c, c = a \o b
  PROVE  IsList(c) /\ \E bt : Follows(bt, c, lists, k + 1)
  <1> DEFINE L == Len(a)
             bt == [i \in 1 .. L + Len(b) |-> IF i <= L THEN at[i] ELSE <<k + 1, i - L>>]
  <1>1. /\ L \in Nat /\ DOMAIN a = 1 .. L
        /\ Len(b) \in Nat /\ DOMAIN b = 1 .. Len(b)
    BY ListIs
  <1>2. /\ c = [i \in 1 .. L + Len(b) |-> c[i]]
        /\ \A i \in 1 .. L + Len(b) : c[i] = IF i <= L THEN a[i] ELSE b[i - L]
    <2>1. a \in Seq(Range(a)) /\ b \in Seq(Range(b))
      BY DEF IsList
    <2> DEFINE U == Range(a) \cup Range(b)
    <2>2. a \in Seq(U) /\ b \in Seq(U)
      BY <2>1
    <2> HIDE DEF U
    <2> QED
      BY <2>2
  <1> HIDE DEF L
  <1>3. IsList(c) /\ DOMAIN c = 1 .. L + Len(b)
    <2>1. L + Len(b) \in Nat
      BY <1>1
    <2> QED
      BY <1>2, <2>1, ListOf
  <1>4. \A i \in DOMAIN c : \/ i \in DOMAIN a /\ c[i] = a[i] /\ bt[i] = at[i]
                            \/ /\ i > L /\ i - L \in DOMAIN b /\ c[i] = b[i - L]
                               /\ bt[i] = <<k + 1, i - L>>
    <2> TAKE i \in DOMAIN c
    <2>1. i \in 1 .. L + Len(b)
      BY <1>3
    <2>2. bt[i] = IF i <= L THEN at[i] ELSE <<k + 1, i - L>>
      BY <2>1
    <2> HIDE DEF bt
    <2>3. CASE i <= L
      BY <1>1, <1>2, <2>1, <2>2, <2>3
    <2>4. CASE ~(i <= L)
      <3>1. i - L \in 1 .. Len(b) /\ i > L
        BY <1>1, <2>1, <2>4
      <3> QED
        BY <1>1, <1>2, <2>1, <2>2, <2>4, <3>1
    <2> QED
      BY <2>3, <2>4
  <1>5. \A i \in DOMAIN a : i \in DOMAIN c /\ bt[i] = at[i]
    BY <1>1, <1>3
  <1>6. \A m \in DOMAIN b : L + m \in DOMAIN c /\ bt[L + m] = <<k + 1, m>>
    <2> TAKE m \in DOMAIN b
    <2>1. L + m \in 1 .. L + Len(b) /\ ~(L + m <= L) /\ (L + m) - L = m
      BY <1>1
    <2> QED
      BY <1>3, <2>1
  <1> HIDE DEF bt
  <1>7. \A i \in DOMAIN a : /\ at[i] = <<at[i][1], at[i][2]>>
                            /\ at[i][1] \in 1 .. k /\ at[i][2] \in DOMAIN lists[at[i][1]]
                            /\ a[i] = lists[at[i][1]][at[i][2]]
    BY DEF Follows
  <1>8. ASSUME NEW i \in DOMAIN c
        PROVE  /\ bt[i] = <<bt[i][1], bt[i][2]>>
               /\ bt[i][1] \in 1 .. k + 1 /\ bt[i][2] \in DOMAIN lists[bt[i][1]]
               /\ c[i] = lists[bt[i][1]][bt[i][2]]
    <2>1. CASE i \in DOMAIN a /\ c[i] = a[i] /\ bt[i] = at[i]
      BY <1>7, <2>1
    <2>2. CASE i - L \in DOMAIN b /\ c[i] = b[i - L] /\ bt[i] = <<k + 1, i - L>>
      BY <2>2
    <2> QED
      BY <1>4, <2>1, <2>2
  <1>9. ASSUME NEW n \in 1 .. k + 1, NEW m \in DOMAIN lists[n]
        PROVE  \E i \in DOMAIN c : bt[i] = <<n, m>>
    <2>1. CASE n = k + 1
      BY <1>6, <2>1
    <2>2. CASE n # k + 1
      <3>1. n \in 1 .. k
        BY <2>2
      <3>2. PICK i \in DOMAIN a : at[i] = <<n, m>>
        BY <3>1 DEF Follows
      <3> QED
        BY <1>5, <3>2
    <2> QED
      BY <2>1, <2>2
  <1>10. ASSUME NEW i \in DOMAIN c, NEW j \in DOMAIN c
         PROVE  i < j <=> PlaceBefore(bt[i], bt[j])
    <2>0. i \in Int /\ j \in Int /\ \A x \in DOMAIN a : x <= L
      BY <1>1, <1>3
    <2>1. CASE i \in DOMAIN a /\ j \in DOMAIN a
      <3>1. i < j <=> PlaceBefore(at[i], at[j])
        BY <2>1 DEF Follows
      <3> QED
        BY <1>5, <2>1, <3>1
    <2>2. CASE i \in DOMAIN a /\ j \notin DOMAIN a
      <3>1. j > L /\ bt[j] = <<k + 1, j - L>> /\ bt[i] = at[i] /\ at[i][1] \in 1 .. k
        BY <1>4, <1>5, <1>7, <2>2
      <3>2. bt[j][1] = k + 1 /\ bt[i][1] < k + 1
        BY <3>1
      <3>3. i < j
        BY <1>1, <2>0, <2>2, <3>1
      <3>4. PlaceBefore(bt[i], bt[j])
        BY <3>2 DEF PlaceBefore
      <3> QED
        BY <3>3, <3>4
    <2>3. CASE i \notin DOMAIN a /\ j \in DOMAIN a
      <3>1. i > L /\ bt[i] = <<k + 1, i - L>> /\ bt[j] = at[j] /\ at[j][1] \in 1 .. k
        BY <1>4, <1>5, <1>7, <2>3
      <3>2. bt[i][1] = k + 1 /\ bt[j][1] < k + 1 /\ bt[j][1] \in Int
        BY <3>1
      <3>3. ~(i < j)
        BY <1>1, <2>0, <2>3, <3>1
      <3>4. ~PlaceBefore(bt[i], bt[j])
        BY <3>2 DEF PlaceBefore
      <3> QED
        BY <3>3, <3>4
    <2>4. CASE i \notin DOMAIN a /\ j \notin DOMAIN a
      <3>1. bt[i] = <<k + 1, i - L>> /\ bt[j] = <<k + 1, j - L>>
        BY <1>4, <2>4
      <3>2. bt[i][1] = k + 1 /\ bt[i][2] = i - L /\ bt[j][1] = k + 1 /\ bt[j][2] = j - L
        BY <3>1
      <3> QED
        BY <1>1, <2>0, <3>2 DEF PlaceBefore
    <2> QED
      BY <2>1, <2>2, <2>3, <2>4
  <1>11. Follows(bt, c, lists, k + 1)
    BY <1>8, <1>9, <1>10 DEF Follows
  <1> QED
    BY <1>3, <1>11

\* The chain has the elements of the lists in their order, and no others.
LEMMA ChainedOf ==
  ASSUME NEW lists, IsList(lists), \A n \in DOMAIN lists : IsList(lists[n])
  PROVE  /\ IsList(Chained(lists))
         /\ \E at : Follows(at, Chained(lists), lists, Len(lists))
  <1> DEFINE N == Len(lists)
             g == CHOOSE f : f = [k \in 0 .. N |-> IF k = 0 THEN <<>> ELSE f[k - 1] \o lists[k]]
             S == {k \in 0 .. N : IsList(g[k]) /\ \E at : Follows(at, g[k], lists, k)}
  <1>1. N \in Nat /\ DOMAIN lists = 1 .. N
    BY ListIs
  <1>2. Chained(lists) = g[N]
    BY DEF Chained
  <1>3. \E f : f = [k \in 0 .. N |-> IF k = 0 THEN <<>> ELSE f[k - 1] \o lists[k]]
    BY <1>1, ChainsExist DEF Chains
  <1>4. g = [k \in 0 .. N |-> IF k = 0 THEN <<>> ELSE g[k - 1] \o lists[k]]
    BY <1>3
  <1>5. \A k \in 0 .. N : g[k] = IF k = 0 THEN <<>> ELSE g[k - 1] \o lists[k]
    <2> HIDE DEF g, N
    <2> QED
      BY <1>4
  <1> HIDE DEF g, N
  <1>6. 0 \in S
    <2>1. g[0] = <<>> /\ 0 \in 0 .. N
      BY <1>1, <1>5
    <2>2. IsList(g[0]) /\ DOMAIN g[0] = {}
      BY <2>1 DEF IsList, Range
    <2>3. Follows(<<>>, g[0], lists, 0)
      BY <2>2 DEF Follows
    <2> QED
      BY <2>1, <2>2, <2>3
  <1>7. ASSUME NEW k \in 0 .. N - 1, k \in S PROVE k + 1 \in S
    <2>1. k + 1 \in 1 .. N /\ k + 1 \in 0 .. N /\ (k + 1) - 1 = k /\ k \in Nat /\ k + 1 # 0
      BY <1>1
    <2>2. g[k + 1] = g[k] \o lists[k + 1]
      <3> DEFINE j == k + 1
      <3>1. j \in 0 .. N /\ j # 0 /\ j - 1 = k
        BY <2>1
      <3> HIDE DEF j
      <3>2. g[j] = g[j - 1] \o lists[j]
        BY <1>5, <3>1
      <3>3. g[j] = g[k] \o lists[j]
        BY <3>1, <3>2
      <3> QED
        BY <3>3 DEF j
    <2>3. IsList(g[k]) /\ IsList(lists[k + 1]) /\ \E at : Follows(at, g[k], lists, k)
      BY <1>1, <1>7, <2>1
    <2>4. PICK at : Follows(at, g[k], lists, k)
      BY <2>3
    <2>5. IsList(g[k + 1]) /\ \E bt : Follows(bt, g[k + 1], lists, k + 1)
      BY <2>1, <2>2, <2>3, <2>4, ChainGrows
    <2> QED
      BY <2>1, <2>5
  <1> HIDE DEF S
  <1>8. 0 .. N \subseteq S
    BY <1>1, <1>6, <1>7, Induction
  <1> QED
    BY <1>1, <1>2, <1>8 DEF S, N
==============================================================================

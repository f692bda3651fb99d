----------------------------- MODULE MCDealStore -----------------------------
(* Small instances of DealStore: two listings, one of them seen at two prices. *)
EXTENDS DealStore

CONSTANTS k1, k2

MCKeys == {k1, k2}

dear  == [key |-> k1, price |-> 400]
cheap == [key |-> k1, price |-> 300]
other == [key |-> k2, price |-> 300]

MCItems == {dear, cheap, other}

\* One whose second listing is observed but not ranked (too few units), and one that
\* ranks both.
oneRank  == [ranked |-> <<dear>>, observed |-> <<dear, other>>]
twoRanks == [ranked |-> <<other, cheap>>, observed |-> <<cheap, other>>]

\* Two offers that share a provider and a listing id survive deduplication when
\* their seller or price differs, and both are ranked.
variants == [ranked |-> <<cheap, dear>>, observed |-> <<dear, cheap>>]

MixedRuns   == {oneRank, twoRanks, variants}
VariantRuns == {variants}
==============================================================================

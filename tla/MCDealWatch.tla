----------------------------- MODULE MCDealWatch -----------------------------
(* Small instances of DealWatch.  Prices are cents; the thresholds are the ones *)
(* of config/search.yaml: score 85, drop 5 %.                                   *)
EXTENDS DealWatch

CONSTANTS k1, k2

MCKeys == {k1, k2}

Offer(key, price, score) == [key |-> key, price |-> price, score |-> score]

\* Against 200.00, 190.01 is a drop of 4.995 %, which rounds to the threshold,
\* and 190.11 one of 4.945 %, which does not reach it.
full    == Offer(k1, 20000, 90)
dropped == Offer(k1, 19001, 90)
shaved  == Offer(k1, 19011, 90)
weak    == Offer(k2, 30000, 84)
strong  == Offer(k2, 30000, 85)

MCItems == {full, dropped, shaved, weak, strong}

Found(ranked) == [ranked |-> ranked, observed |-> ranked]

\* In the last one two offers share a key.
PriceRuns  == {Found(<<>>), Found(<<full, weak>>), Found(<<dropped>>), Found(<<strong, shaved>>),
               Found(<<dropped, full>>)}
RankRuns   == {Found(<<full>>), Found(<<full, strong>>), Found(<<strong, full>>)}
OverlapRuns == {Found(<<full>>), Found(<<dropped, strong>>)}
==============================================================================

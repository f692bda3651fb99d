------------------------------ MODULE DealFeed ------------------------------
(***************************************************************************)
(* What `dealfinder watch` promises whoever reads its notifications, with  *)
(* neither processes nor tables: the latest snapshot of the ledger may be  *)
(* announced once, and its announcement holds exactly the deals that are   *)
(* new or materially cheaper than in the snapshot before it.               *)
(***************************************************************************)
EXTENDS DealLedger

CONSTANTS Top,        \* how many results an invocation keeps (--top)
          MinScore,   \* watch.minimum_score
          MinDropBp   \* watch.minimum_price_drop_percent, in hundredths of a percent

VARIABLE feed         \* the announcements, [run |-> n, events |-> {...}], in order

\* The ranking of snapshot n, empty where there is none to compare with.
Ranking(n) == IF n = 0 THEN <<>>
              ELSE IF ledger[n].ranked = Null THEN <<>> ELSE ledger[n].ranked

Shown(n) == {Ranking(n)[i] : i \in {i \in DOMAIN Ranking(n) : i <= Top}}

\* The listing of snapshot n that carries the key, as the last place says.
Standing(n, key) == {Ranking(n)[i] : i \in {i \in LastPositions(Ranking(n)) :
                                              Ranking(n)[i].key = key}}

\* 100 * (was - now) / was, rounded half-even to two places, reaches the threshold.
Material(was, now) ==
  LET twice == 20000 * (was - now)
      limit == (2 * MinDropBp - 1) * was
  IN  twice > limit \/ (twice = limit /\ MinDropBp % 2 = 0)

News(n) ==
  {[type |-> "new_strong_deal", item |-> item, previous_price |-> Null] :
     item \in {x \in Shown(n) : x.score >= MinScore /\ Standing(n - 1, x.key) = {}}}
  \cup
  UNION {{[type |-> "price_drop", item |-> item, previous_price |-> old.price] :
            old \in {x \in Standing(n - 1, item.key) : /\ x.price > item.price
                                                       /\ Material(x.price, item.price)}} :
          item \in Shown(n)}

Announce(n) ==
  /\ n = Len(ledger)
  /\ n > 0
  /\ \A i \in DOMAIN feed : feed[i].run # n
  /\ feed' = Append(feed, [run |-> n, events |-> News(n)])
  /\ UNCHANGED ledger

FeedInit == Init /\ feed = <<>>

FeedNext == \/ Next /\ UNCHANGED feed
            \/ Announce(Len(ledger))

FeedSpec == FeedInit /\ [][FeedNext]_<<ledger, feed>>
=============================================================================

----------------------------- MODULE FeedProofs -----------------------------
(***************************************************************************)
(* Invocations that do not overlap, which is what the deployment's           *)
(* concurrencyPolicy: Forbid provides: the feed of notifications, and the    *)
(* order of the times a listing was seen.                                   *)
(***************************************************************************)
EXTENDS WatchProofs, WellFoundedInduction

-----------------------------------------------------------------------------
(* The comparison, as detect_deal_events makes it and as DealFeed says it.  *)

\* A key that occurs in a sequence has a last position there.
LEMMA LastExists ==
  ASSUME NEW s \in Seq(Items), NEW k \in KeysIn(s)
  PROVE  LastAt(s, k) # {}
  <1> DEFINE at == {i \in DOMAIN s : s[i].key = k}
             back == {Len(s) - i : i \in at}
  <1>1. Len(s) \in Nat /\ DOMAIN s = 1 .. Len(s) /\ at # {}
    BY DEF KeysIn
  <1>2. back \subseteq Nat /\ back # {}
    BY <1>1
  <1> HIDE DEF back
  <1>3. PICK m \in back : \A n \in back : ~(<<n, m>> \in OpToRel(<, Nat))
    BY <1>2, NatLessThanWellFounded, WFMin
  <1>4. \A n \in back : m <= n
    <2> TAKE n \in back
    <2>1. n \in Nat /\ m \in Nat
      BY <1>2
    <2>2. ~(n < m)
      BY <1>3, <2>1 DEF OpToRel
    <2> QED
      BY <2>1, <2>2
  <1>5. PICK i \in at : m = Len(s) - i
    BY DEF back
  <1>6. ASSUME NEW j \in at PROVE j <= i
    <2>1. Len(s) - j \in back
      BY DEF back
    <2>2. m <= Len(s) - j
      BY <1>4, <2>1
    <2>3. i \in 1 .. Len(s) /\ j \in 1 .. Len(s)
      BY <1>1
    <2> QED
      BY <1>1, <1>5, <2>2, <2>3
  <1> QED
    BY <1>5, <1>6 DEF LastAt

\* quantize rounds half to even: the percentage reaches the threshold exactly if the
\* drop is beyond half a unit below it, or just there and the threshold is even.
LEMMA Rounding ==
  ASSUME NEW was \in Nat, NEW now \in Nat, was > now, NEW least \in Nat
  PROVE  DropBp(was, now) >= least <=>
           LET twice == 20000 * (was - now)
               limit == (2 * least - 1) * was
           IN  twice > limit \/ (twice = limit /\ least % 2 = 0)
  <1> DEFINE scaled == (was - now) * 10000
             down == scaled \div was
             rest == scaled % was
             up == 2 * rest > was \/ (2 * rest = was /\ down % 2 = 1)
  <1>1. scaled \in Nat /\ was \in Nat \ {0}
    OBVIOUS
  <1>2. down \in Nat /\ rest \in 0 .. was - 1 /\ scaled = down * was + rest
    <2> HIDE DEF scaled
    <2> QED
      BY <1>1, SMTT(30)
  <1>3. DropBp(was, now) = IF up THEN down + 1 ELSE down
    BY DEF DropBp
  <1>4. 20000 * (was - now) = 2 * scaled
    OBVIOUS
  <1> HIDE DEF scaled, down, rest
  <1>5. CASE down >= least
    <2>1. down * was >= least * was
      BY <1>1, <1>2, <1>5, SMTT(30)
    <2>2. (2 * least - 1) * was = 2 * (least * was) - was
      BY <1>1, SMTT(30)
    <2>3. 2 * scaled > (2 * least - 1) * was
      BY <1>1, <1>2, <2>1, <2>2
    <2>4. DropBp(was, now) >= least
      BY <1>2, <1>3, <1>5
    <2> QED
      BY <1>4, <2>3, <2>4
  <1>6. CASE down + 1 = least
    <2>1. (2 * least - 1) * was = 2 * (down * was) + was
      BY <1>1, <1>2, <1>6, SMTT(30)
    <2>2. 2 * scaled = 2 * (down * was) + 2 * rest
      BY <1>1, <1>2
    <2>3. /\ 2 * scaled > (2 * least - 1) * was <=> 2 * rest > was
          /\ 2 * scaled = (2 * least - 1) * was <=> 2 * rest = was
      BY <1>1, <1>2, <2>1, <2>2
    <2>4. least % 2 = 0 <=> down % 2 = 1
      BY <1>2, <1>6
    <2>5. DropBp(was, now) >= least <=> up
      BY <1>2, <1>3, <1>6
    <2> QED
      BY <1>4, <2>3, <2>4, <2>5
  <1>7. CASE down + 1 < least
    <2>1. (down + 1) * was <= (least - 1) * was
      BY <1>1, <1>2, <1>7, SMTT(30)
    <2>2. (down + 1) * was = down * was + was
      BY <1>1, <1>2, SMTT(30)
    <2>3. (2 * least - 1) * was = 2 * ((least - 1) * was) + was
      BY <1>1, SMTT(30)
    <2>4. ~(2 * scaled > (2 * least - 1) * was) /\ ~(2 * scaled = (2 * least - 1) * was)
      BY <1>1, <1>2, <2>1, <2>2, <2>3
    <2>5. ~(DropBp(was, now) >= least)
      BY <1>2, <1>3, <1>7
    <2> QED
      BY <1>4, <2>4, <2>5
  <1> QED
    BY <1>2, <1>5, <1>6, <1>7

LEMMA MaterialDrop ==
  ASSUME NEW was \in Nat, NEW now \in Nat, was > now
  PROVE  DropBp(was, now) >= MinDropBp <=> Feed!Material(was, now)
  <1> DEFINE percent == DropBp(was, now)
             twice == 20000 * (was - now)
             limit == (2 * MinDropBp - 1) * was
  <1>1. percent >= MinDropBp <=> twice > limit \/ (twice = limit /\ MinDropBp % 2 = 0)
    BY Rounding, WatchAssumption
  <1>2. Feed!Material(was, now) <=> twice > limit \/ (twice = limit /\ MinDropBp % 2 = 0)
    BY DEF Feed!Material
  <1> QED
    BY <1>1, <1>2

\* The listing that a ranking holds for a key is the one previous_by_key has.
LEMMA StandingIsLast ==
  ASSUME NEW n, NEW k, Feed!Ranking(n) \in Seq(Items)
  PROVE  /\ Feed!Standing(n, k) = {Feed!Ranking(n)[j] : j \in LastAt(Feed!Ranking(n), k)}
         /\ Feed!Standing(n, k) = {} <=> k \notin KeysIn(Feed!Ranking(n))
  <1> DEFINE s == Feed!Ranking(n)
  <1>1. \A i \in DOMAIN s : i \in Nat
    OBVIOUS
  <1> HIDE DEF s
  <1>2. {i \in Feed!LastPositions(s) : s[i].key = k} = LastAt(s, k)
    BY <1>1 DEF Feed!LastPositions, LastAt
  <1>3. Feed!Standing(n, k) = {s[j] : j \in LastAt(s, k)}
    BY <1>2 DEF Feed!Standing, s
  <1>4. k \in KeysIn(s) => LastAt(s, k) # {}
    BY LastExists DEF s
  <1>5. LastAt(s, k) # {} => k \in KeysIn(s)
    BY DEF LastAt, KeysIn
  <1> QED
    BY <1>3, <1>4, <1>5 DEF s

LEMMA ShownIsTop ==
  ASSUME NEW n, Feed!Ranking(n) \in Seq(Items)
  PROVE  LET top == TopOf(Feed!Ranking(n)) IN Feed!Shown(n) = {top[i] : i \in DOMAIN top}
  <1> DEFINE s == Feed!Ranking(n)
             top == TopOf(s)
  <1>1. DOMAIN top = {i \in DOMAIN s : i <= Top} /\ \A i \in DOMAIN top : top[i] = s[i]
    BY TopOfRanking
  <1>2. Feed!Shown(n) = {s[i] : i \in {i \in DOMAIN s : i <= Top}}
    BY DEF Feed!Shown
  <1> HIDE DEF s, top
  <1>3. Feed!Shown(n) = {top[i] : i \in DOMAIN top}
    BY <1>1, <1>2
  <1> QED
    BY <1>3 DEF s, top

\* The events of a watch are the news of DealFeed.
LEMMA NewsIsComparison ==
  ASSUME NEW n \in Nat, Feed!Ranking(n) \in Seq(Items), Feed!Ranking(n - 1) \in Seq(Items)
  PROVE  Feed!News(n) = detect_deal_events(TopOf(Feed!Ranking(n)), Feed!Ranking(n - 1))
  <1> DEFINE top == TopOf(Feed!Ranking(n))
             old == Feed!Ranking(n - 1)
             Fresh(x) == [type |-> "new_strong_deal", item |-> x, previous_price |-> Null]
             Drop(x, y) == [type |-> "price_drop", item |-> x, previous_price |-> y.price]
             Cheaper(x, y) == y.price > x.price /\ Feed!Material(y.price, x.price)
             Dropped(x, y) == y.price > x.price /\ DropBp(y.price, x.price) >= MinDropBp
             fresh == {Fresh(x) : x \in {x \in Feed!Shown(n) : /\ x.score >= MinScore
                                                              /\ Feed!Standing(n - 1, x.key) = {}}}
             DropsOf(x) == {Drop(x, y) : y \in {y \in Feed!Standing(n - 1, x.key) : Cheaper(x, y)}}
             drops == UNION {DropsOf(x) : x \in Feed!Shown(n)}
  <1>1. Feed!News(n) = fresh \cup drops
    BY DEF Feed!News
  <1>2. Feed!Shown(n) = {top[i] : i \in DOMAIN top}
    BY ShownIsTop
  <1>3. \A k : /\ Feed!Standing(n - 1, k) = {old[j] : j \in LastAt(old, k)}
               /\ Feed!Standing(n - 1, k) = {} <=> k \notin KeysIn(old)
    BY StandingIsLast
  <1>4. \A i \in DOMAIN top : top[i] \in Items
    <2>1. top \in Seq(Items)
      BY TopOfRanking
    <2> HIDE DEF top
    <2> QED
      BY <2>1
  <1>5. \A k : \A j \in LastAt(old, k) : old[j] \in Items
    BY DEF LastAt
  <1>6. ASSUME NEW x \in Items, NEW y \in Items
        PROVE  Cheaper(x, y) <=> Dropped(x, y)
    <2>1. x.price \in Nat /\ y.price \in Nat
      BY WatchAssumption
    <2> QED
      BY <2>1, MaterialDrop
  <1> HIDE DEF top, old, Cheaper, Dropped
  <1>7. fresh = NewDeals(top, old)
    <2>1. NewDeals(top, old) =
            {Fresh(top[i]) : i \in {i \in DOMAIN top : /\ top[i].key \notin KeysIn(old)
                                                      /\ top[i].score >= MinScore}}
      BY DEF NewDeals
    <2> HIDE DEF Fresh
    <2> QED
      BY <1>2, <1>3, <2>1
  <1>8. drops = PriceDrops(top, old)
    <2>1. PriceDrops(top, old) = {Drop(p[1], p[2]) : p \in {p \in Pairs(top, old) : Dropped(p[1], p[2])}}
      BY DEF PriceDrops, Dropped
    <2> HIDE DEF Drop
    <2>2. ASSUME NEW e \in drops
          PROVE  e \in PriceDrops(top, old)
      <3>1. PICK x \in Feed!Shown(n) : e \in DropsOf(x)
        OBVIOUS
      <3>2. PICK y \in Feed!Standing(n - 1, x.key) : Cheaper(x, y) /\ e = Drop(x, y)
        BY <3>1
      <3>3. PICK i \in DOMAIN top : x = top[i]
        BY <1>2
      <3>4. PICK j \in LastAt(old, x.key) : y = old[j]
        BY <1>3
      <3>5. <<x, y>> \in Pairs(top, old)
        BY <3>3, <3>4 DEF Pairs
      <3>6. Dropped(x, y)
        BY <1>4, <1>5, <1>6, <3>2, <3>3, <3>4
      <3> QED
        BY <2>1, <3>2, <3>5, <3>6
    <2>3. ASSUME NEW e \in PriceDrops(top, old)
          PROVE  e \in drops
      <3>1. PICK p \in Pairs(top, old) : Dropped(p[1], p[2]) /\ e = Drop(p[1], p[2])
        BY <2>1
      <3>2. PICK i \in DOMAIN top : \E j \in LastAt(old, top[i].key) : p = <<top[i], old[j]>>
        BY DEF Pairs
      <3>3. PICK j \in LastAt(old, top[i].key) : p = <<top[i], old[j]>>
        BY <3>2
      <3>4. p[1] = top[i] /\ p[2] = old[j]
        BY <3>3
      <3>5. p[1] \in Feed!Shown(n) /\ p[2] \in Feed!Standing(n - 1, p[1].key)
        BY <1>2, <1>3, <3>4
      <3>6. Cheaper(p[1], p[2])
        BY <1>4, <1>5, <1>6, <3>1, <3>4
      <3>7. e \in DropsOf(p[1])
        BY <3>1, <3>5, <3>6
      <3> HIDE DEF DropsOf
      <3> QED
        BY <3>5, <3>7
    <2> QED
      BY <2>2, <2>3
  <1> QED
    BY <1>1, <1>7, <1>8 DEF detect_deal_events, top, old

\* The ledger's ranking of a snapshot is the one stored under its id.
LEMMA LedgerRanking ==
  ASSUME StoreInv, NEW n \in 0 .. Len(disk.search_runs)
  PROVE  Feed!Ranking(n) = Ranking(n) /\ Ranking(n) \in Seq(Items)
  <1>1. /\ disk.search_runs \in Seq(RunRow) /\ Len(disk.search_runs) \in Nat
        /\ DOMAIN disk.search_runs = 1 .. Len(disk.search_runs)
    BY StoreTypes
  <1>2. CASE n = 0
    BY <1>1, <1>2 DEF Feed!Ranking, Ranking
  <1>3. CASE n # 0
    <2> DEFINE result == disk.search_runs[n].result
    <2>1. n \in DOMAIN disk.search_runs
      BY <1>1, <1>3
    <2>2. LedgerOf(disk)[n].ranked = IF result = Null THEN Null ELSE result.ranked
      BY <2>1 DEF LedgerOf
    <2>3. disk.search_runs[n] \in RunRow
      BY <1>1, <2>1
    <2>4. result # Null => result.ranked \in Seq(Items) /\ result.ranked # Null
      BY <2>3, ConstantsAssumption DEF RunRow, Results
    <2>5. Ranking(n) = IF result = Null THEN <<>> ELSE result.ranked
      BY <2>1 DEF Ranking
    <2> HIDE DEF result
    <2> QED
      BY <1>3, <2>2, <2>4, <2>5 DEF Feed!Ranking
  <1> QED
    BY <1>2, <1>3

-----------------------------------------------------------------------------
(* One invocation at a time.  The baseline a watch holds is the latest run  *)
(* until it has saved its own, and then the one before that.                *)

Alone == \A c, d \in Clients : phase[c] # "idle" /\ phase[d] # "idle" => c = d

IdleClosed == \A c \in Clients : phase[c] = "idle" => pc[c] = "closed"

\* What a watch compares with, where it stands.
ComparesWithLatest ==
  \A c \in Clients :
    /\ phase[c] \in {"idle", "loading"} => previous[c] = <<>>
    /\ phase[c] = "notifying" => command[c] = "watch"
    /\ command[c] = "watch" /\ phase[c] = "searching" /\ pc[c] # "returned" =>
         previous[c] = Ranking(Len(disk.search_runs))
    /\ command[c] = "watch" /\ phase[c] \in {"searching", "notifying"} /\ pc[c] = "returned" =>
         run_id[c] = Len(disk.search_runs) /\ previous[c] = Ranking(run_id[c] - 1)

SerialInv == WatchInv /\ Alone /\ IdleClosed /\ ComparesWithLatest

LEMMA SerialInit == WatchInit => SerialInv
  BY WatchInvInit DEF WatchInit, Init, SerialInv, Alone, IdleClosed, ComparesWithLatest

\* Only a running invocation moves in the store, and only its COMMIT adds a run.
LEMMA SerialStoreStep ==
  ASSUME SerialInv, WatchInv', [Next]_storeVars, UNCHANGED <<watchLocals, announced>>,
         \A d \in Clients : pc'[d] = "closed" => pc[d] = "closed",
         \A d \in Clients : phase[d] = "idle" => pc'[d] = pc[d]
  PROVE  SerialInv'
  <1> DEFINE len == Len(disk.search_runs)
  <1>1. StoreInv /\ StoreInv' /\ len \in Nat /\ DOMAIN disk.search_runs = 1 .. len
    BY StoreTypes DEF SerialInv, WatchInv
  <1>2. \A id \in 0 .. len : Ranking(id)' = Ranking(id)
    BY <1>1, RankingStays
  <1>3. /\ UNCHANGED <<phase, command, previous>>
        /\ Alone' /\ IdleClosed'
    BY DEF SerialInv, Alone, IdleClosed, watchLocals
  <1>4. ASSUME NEW c \in Clients, Commit(c)
        PROVE  /\ pc[c] = "writing" /\ pc'[c] = "returned" /\ phase[c] # "idle"
               /\ run_id'[c] = len + 1 /\ Len(disk'.search_runs) = len + 1
    <2>1. /\ run_id[c] = len + 1 /\ Len(disk'.search_runs) = len + 1
      <3>1. /\ run_id[c] = len + 1
            /\ \E row : disk'.search_runs = Append(disk.search_runs, row)
        BY <1>1, <1>4, CommitAppends DEF StoreInv, LedgerInv
      <3> QED
        BY <1>1, <3>1, StoreTypes
    <2>2. pc[c] = "writing" /\ pc'[c] = "returned" /\ run_id' = run_id
      BY <1>1, <1>4, StoreTypes DEF Commit
    <2> QED
      BY <2>1, <2>2 DEF SerialInv, IdleClosed
  <1>5. ASSUME NEW c \in Clients
        PROVE  /\ pc[c] = "returned" => pc'[c] = "returned" /\ run_id'[c] = run_id[c]
               /\ pc'[c] = "returned" /\ pc[c] # "returned" => Commit(c)
    BY <1>1, ReturnedStep
  <1>6. ASSUME NEW c \in Clients, phase[c] # "idle", disk' # disk
        PROVE  Commit(c)
    <2>1. PICK d \in Clients : Commit(d)
      BY <1>6, DiskStep
    <2>2. d = c
      BY <1>4, <1>6, <2>1 DEF SerialInv, Alone
    <2> QED
      BY <2>1, <2>2
  <1> HIDE DEF len
  <1>7. ASSUME NEW c \in Clients
        PROVE  /\ phase[c] \in {"idle", "loading"} => previous[c] = <<>>
               /\ phase[c] = "notifying" => command[c] = "watch"
               /\ command[c] = "watch" /\ phase[c] = "searching" /\ pc'[c] # "returned" =>
                    previous[c] = Ranking(Len(disk.search_runs))'
               /\ command[c] = "watch" /\ phase[c] \in {"searching", "notifying"} /\ pc'[c] = "returned" =>
                    run_id'[c] = Len(disk'.search_runs) /\ previous[c] = Ranking(run_id[c] - 1)'
    <2>0. /\ phase[c] \in {"idle", "loading"} => previous[c] = <<>>
          /\ phase[c] = "notifying" => command[c] = "watch"
          /\ command[c] = "watch" /\ phase[c] = "searching" /\ pc[c] # "returned" =>
               previous[c] = Ranking(len)
          /\ command[c] = "watch" /\ phase[c] \in {"searching", "notifying"} /\ pc[c] = "returned" =>
               run_id[c] = len /\ previous[c] = Ranking(run_id[c] - 1)
          /\ phase[c] = "notifying" => pc[c] = "returned"
      BY DEF SerialInv, ComparesWithLatest, WatchInv, EventsReady, len
    <2>1. CASE disk' = disk
      <3>1. \A id : Ranking(id)' = Ranking(id)
        BY <2>1 DEF Ranking
      <3>2. Len(disk'.search_runs) = len
        BY <2>1 DEF len
      <3>3. ~(pc'[c] = "returned" /\ pc[c] # "returned")
        BY <1>1, <1>4, <1>5, <2>1, <3>2
      <3> QED
        BY <1>5, <2>0, <3>1, <3>2, <3>3
    <2>2. CASE disk' # disk /\ phase[c] # "idle"
      <3>1. /\ pc[c] = "writing" /\ pc'[c] = "returned"
            /\ run_id'[c] = len + 1 /\ Len(disk'.search_runs) = len + 1
        BY <1>4, <1>6, <2>2
      <3>2. PICK n \in Nat : n = len
        BY <1>1
      <3>3. run_id'[c] - 1 = n /\ Ranking(n)' = Ranking(n)
        BY <1>1, <1>2, <3>1, <3>2
      <3>4. Ranking(run_id[c] - 1)' = Ranking(len)
        BY <3>2, <3>3 DEF Ranking
      <3> QED
        BY <2>0, <3>1, <3>4
    <2>3. CASE phase[c] = "idle"
      BY <2>0, <2>3
    <2> QED
      BY <2>1, <2>2, <2>3
  <1>8. ComparesWithLatest'
    BY <1>3, <1>7 DEF ComparesWithLatest
  <1> QED
    BY <1>3, <1>8 DEF SerialInv

\* A process is gone: nothing is stored, and its place is idle and closed.
LEMMA SerialGoneStep ==
  ASSUME SerialInv, WatchInv', NEW c \in Clients, Gone(c)
  PROVE  SerialInv'
  <1>1. /\ disk' = disk /\ pc'[c] = "closed"
        /\ \A d \in Clients : d # c => pc'[d] = pc[d] /\ run_id'[d] = run_id[d]
    BY StoreTypes DEF SerialInv, WatchInv, Gone, Exit, storeVars
  <1>2. /\ phase'[c] = "idle" /\ previous'[c] = <<>> /\ command'[c] = "none"
        /\ \A d \in Clients : d # c => /\ phase'[d] = phase[d] /\ previous'[d] = previous[d]
                                       /\ command'[d] = command[d]
    BY DEF SerialInv, WatchInv, WatchTypeOK, Gone
  <1>3. \A id : Ranking(id)' = Ranking(id)
    BY <1>1 DEF Ranking
  <1>4. Alone' /\ IdleClosed'
    BY <1>1, <1>2 DEF SerialInv, Alone, IdleClosed
  <1>5. ComparesWithLatest'
    BY <1>1, <1>2, <1>3 DEF SerialInv, ComparesWithLatest
  <1> QED
    BY <1>4, <1>5 DEF SerialInv

\* A step of main() by an invocation that was running and goes on.
LEMMA SerialMainStep ==
  ASSUME SerialInv, WatchInv', UNCHANGED storeVars, NEW c \in Clients,
         phase[c] # "idle",
         phase'[c] \in {"searching", "notifying", "selecting", "done"},
         UNCHANGED command,
         \A d \in Clients : d # c => phase'[d] = phase[d] /\ previous'[d] = previous[d],
         phase'[c] = "notifying" => command[c] = "watch",
         command[c] = "watch" /\ phase'[c] = "searching" =>
           pc[c] = "ready" /\ previous'[c] = Ranking(Len(disk.search_runs)),
         phase'[c] = "notifying" =>
           /\ phase[c] = "searching" /\ pc[c] = "returned"
           /\ previous'[c] = previous[c]
  PROVE  SerialInv'
  <1>1. \A id : Ranking(id)' = Ranking(id)
    BY DEF Ranking, storeVars
  <1>2. Alone' /\ IdleClosed'
    BY DEF SerialInv, Alone, IdleClosed, storeVars
  <1>3. ASSUME NEW d \in Clients
        PROVE  /\ phase'[d] \in {"idle", "loading"} => previous'[d] = <<>>
               /\ phase'[d] = "notifying" => command[d] = "watch"
               /\ command[d] = "watch" /\ phase'[d] = "searching" /\ pc[d] # "returned" =>
                    previous'[d] = Ranking(Len(disk.search_runs))
               /\ command[d] = "watch" /\ phase'[d] \in {"searching", "notifying"} /\ pc[d] = "returned" =>
                    run_id[d] = Len(disk.search_runs) /\ previous'[d] = Ranking(run_id[d] - 1)
    <2>1. CASE d # c
      BY <2>1 DEF SerialInv, ComparesWithLatest
    <2>2. CASE d = c
      BY <2>2 DEF SerialInv, ComparesWithLatest
    <2> QED
      BY <2>1, <2>2
  <1>4. ComparesWithLatest'
    BY <1>1, <1>3 DEF ComparesWithLatest, storeVars
  <1> QED
    BY <1>2, <1>4 DEF SerialInv

LEMMA SerialStep == ~Overlap /\ SerialInv /\ [WatchNext]_watchVars => SerialInv'
  <1> SUFFICES ASSUME ~Overlap, SerialInv, [WatchNext]_watchVars PROVE SerialInv'
    OBVIOUS
  <1>0. WatchInv /\ WatchInv' /\ [Next]_storeVars
    BY WatchInvStep, WatchStepIsStoreStep DEF SerialInv
  <1>pc. /\ pc \in [Clients -> PCs]
         /\ \A d \in Clients : phase[d] = "idle" => pc[d] = "closed"
    BY <1>0, StoreTypes DEF WatchInv, SerialInv, IdleClosed
  <1>1. CASE Tick /\ UNCHANGED <<watchLocals, announced>>
    BY <1>0, <1>1, SerialStoreStep DEF Tick, locals
  <1>2. ASSUME NEW c \in Clients, OpenRepository(c) PROVE SerialInv'
    BY <1>0, <1>pc, <1>2, SerialStoreStep DEF OpenRepository, Initialize
  <1>3. ASSUME NEW c \in Clients, NEW r \in Runs, Search(c, r) PROVE SerialInv'
    BY <1>0, <1>pc, <1>3, SerialStoreStep DEF Search, SaveRun
  <1>4. ASSUME NEW c \in Clients, Saving(c) PROVE SerialInv'
    <2>1. \A d \in Clients : /\ pc'[d] = "closed" => pc[d] = "closed"
                             /\ pc[d] = "closed" => pc'[d] = pc[d]
      BY <1>pc, <1>4
      DEF Saving, Advance, AddColumn, InsertRun, LockTimeout, SaveListing, Commit
    <2> QED
      BY <1>0, <1>pc, <1>4, <2>1, SerialStoreStep DEF Saving
  <1>5. ASSUME NEW c \in Clients, SavingFails(c) PROVE SerialInv'
    <2>1. \A d \in Clients : /\ pc'[d] = "closed" => pc[d] = "closed"
                             /\ pc[d] = "closed" => pc'[d] = pc[d]
      BY <1>pc, <1>5 DEF SavingFails, StatementFails
    <2> QED
      BY <1>0, <1>pc, <1>5, <2>1, SerialStoreStep DEF SavingFails
  <1>6. ASSUME NEW c \in Clients, Gone(c) PROVE SerialInv'
    BY <1>0, <1>6, SerialGoneStep
  <1>7. ASSUME NEW c \in Clients, LoadPrevious(c) PROVE SerialInv'
    <2>1. /\ UNCHANGED storeVars /\ UNCHANGED command
          /\ phase[c] = "loading" /\ phase'[c] = "searching" /\ pc[c] = "ready"
          /\ \A d \in Clients : d # c => phase'[d] = phase[d] /\ previous'[d] = previous[d]
      BY <1>0, <1>7 DEF LoadPrevious, WatchInv, WatchTypeOK
    <2>2. CASE load_run = Null
      <3>1. previous'[c] = <<>>
        BY <1>7, <2>1, <2>2 DEF LoadPrevious, SerialInv, ComparesWithLatest
      <3>2. Ranking(Len(disk.search_runs)) = <<>>
        BY <2>2 DEF load_run, Ranking
      <3> QED
        BY <1>0, <2>1, <3>1, <3>2, SerialMainStep
    <2>3. CASE load_run # Null
      <3>1. previous'[c] = load_run.ranked
        BY <1>0, <1>7, <2>3 DEF LoadPrevious, WatchInv, WatchTypeOK
      <3>2. load_run.ranked = Ranking(Len(disk.search_runs))
        BY <1>0, <2>3, LatestRun DEF WatchInv
      <3> QED
        BY <1>0, <2>1, <3>1, <3>2, SerialMainStep
    <2> QED
      BY <2>2, <2>3
  <1>8. ASSUME NEW c \in Clients, Compare(c) PROVE SerialInv'
    <2>1. /\ UNCHANGED storeVars /\ UNCHANGED command /\ UNCHANGED previous
          /\ command[c] = "watch" /\ pc[c] = "returned"
          /\ phase[c] = "searching" /\ phase'[c] = "notifying"
          /\ \A d \in Clients : d # c => phase'[d] = phase[d]
      BY <1>0, <1>8 DEF Compare, WatchInv, WatchTypeOK
    <2> QED
      BY <1>0, <2>1, SerialMainStep
  <1>9. ASSUME NEW c \in Clients,
               Notify(c) \/ ShowLatest(c) \/ \E rank \in 0 .. Top : ShowRank(c, rank)
        PROVE  SerialInv'
    <2>1. /\ UNCHANGED storeVars /\ UNCHANGED command /\ UNCHANGED previous
          /\ phase[c] # "idle" /\ phase'[c] \in {"selecting", "done"}
          /\ \A d \in Clients : d # c => phase'[d] = phase[d]
      BY <1>0, <1>9 DEF Notify, ShowLatest, ShowRank, WatchInv, WatchTypeOK
    <2> QED
      BY <1>0, <2>1, SerialMainStep
  <1>10. ASSUME NEW c \in Clients, NEW cmd \in Commands, Start(c, cmd) PROVE SerialInv'
    <2>1. /\ UNCHANGED storeVars /\ UNCHANGED previous
          /\ command'[c] = cmd
          /\ phase'[c] \in {"loading", "searching", "showing"}
          /\ phase'[c] = "searching" => cmd = "search"
          /\ \A d \in Clients : d # c => phase'[d] = phase[d] /\ command'[d] = command[d]
      BY <1>0, <1>10, WatchAssumption DEF Start, WatchInv, WatchTypeOK
    <2>2. \A d \in Clients : phase[d] = "idle" /\ previous[d] = <<>>
      BY <1>10 DEF Start, MayStart, SerialInv, ComparesWithLatest
    <2>3. Alone' /\ IdleClosed'
      BY <1>pc, <2>1, <2>2 DEF Alone, IdleClosed, storeVars
    <2>4. ComparesWithLatest'
      BY <2>1, <2>2 DEF ComparesWithLatest
    <2> QED
      BY <1>0, <2>3, <2>4 DEF SerialInv
  <1>11. CASE UNCHANGED watchVars
    BY <1>0, <1>11, SerialStoreStep DEF watchVars, watchLocals, storeVars
  <1> QED
    BY <1>1, <1>2, <1>3, <1>4, <1>5, <1>6, <1>7, <1>8, <1>9, <1>10, <1>11
    DEF WatchNext, Progress, End, Abort, NotifierFails, Kill

-----------------------------------------------------------------------------
(* The refinement.                                                         *)

LEMMA FeedBegins == WatchInit => Feed!FeedInit
  <1> SUFFICES ASSUME WatchInit PROVE Feed!FeedInit
    OBVIOUS
  <1>1. Ledger!Init
    BY LedgerInit DEF WatchInit
  <1>2. Feed!Init
    BY <1>1 DEF Ledger!Init, Feed!Init, Ledger!OldSnapshot, Feed!OldSnapshot
  <1> QED
    BY <1>2 DEF WatchInit, Feed!FeedInit

\* What an invocation is about to send is the comparison of the latest two rankings.
LEMMA NotifyHasNews ==
  ASSUME SerialInv, NEW c \in Clients, phase[c] = "notifying"
  PROVE  LET n == run_id[c]
         IN  /\ n = Len(disk.search_runs) /\ n \in Nat /\ n > 0
             /\ events[c] = detect_deal_events(TopOf(Ranking(n)), Ranking(n - 1))
  <1> DEFINE n == run_id[c]
  <1>1. /\ pc[c] = "returned" /\ command[c] = "watch"
        /\ events[c] = detect_deal_events(TopOf(run[c].ranked), previous[c])
        /\ n = Len(disk.search_runs) /\ previous[c] = Ranking(n - 1)
    BY DEF SerialInv, WatchInv, EventsReady, ComparesWithLatest
  <1>2. /\ n \in Nat /\ n > 0
        /\ n \in DOMAIN disk.search_runs
        /\ disk.search_runs[n].result = result_json(run[c], n)
    <2>1. /\ n \in DOMAIN disk.search_runs
          /\ disk.search_runs[n] =
               [started_at |-> observed_at[c], result |-> result_json(run[c], n)]
      BY <1>1 DEF SerialInv, WatchInv, StoreInv, SavedRunIsMine
    <2>2. n \in 1 .. Len(disk.search_runs) /\ Len(disk.search_runs) \in Nat
      BY <2>1, StoreTypes DEF SerialInv, WatchInv
    <2> HIDE DEF n
    <2> QED
      BY <2>1, <2>2
  <1>3. Ranking(n) = run[c].ranked
    <2>1. result_json(run[c], n) \in Results
      BY <1>1, <1>2, StoreTypes, RunTypes DEF SerialInv, WatchInv
    <2>2. result_json(run[c], n) # Null
      BY <2>1, ConstantsAssumption DEF Results
    <2> QED
      BY <1>2, <2>2 DEF Ranking, result_json
  <1> HIDE DEF n
  <1> QED
    BY <1>1, <1>2, <1>3 DEF n

\* A notification sent is the news of the latest snapshot.
LEMMA NotifyAnnounces ==
  ASSUME SerialInv, NEW c \in Clients, Notify(c)
  PROVE  Feed!Announce(Len(LedgerOf(disk)))
  <1> DEFINE n == run_id[c]
  <1>1. /\ UNCHANGED storeVars
        /\ announced' = Append(announced, [run |-> n, events |-> events[c]])
        /\ phase[c] = "notifying"
    BY DEF Notify
  <1>2. /\ n = Len(disk.search_runs) /\ n \in Nat /\ n > 0
        /\ events[c] = detect_deal_events(TopOf(Ranking(n)), Ranking(n - 1))
    BY <1>1, NotifyHasNews
  <1>3. StoreInv /\ pc[c] = "returned"
    BY <1>1 DEF SerialInv, WatchInv, EventsReady
  <1> HIDE DEF n
  <1>4. n \in 0 .. Len(disk.search_runs) /\ n - 1 \in 0 .. Len(disk.search_runs)
    BY <1>2
  <1>5. /\ Feed!Ranking(n) = Ranking(n) /\ Ranking(n) \in Seq(Items)
        /\ Feed!Ranking(n - 1) = Ranking(n - 1) /\ Ranking(n - 1) \in Seq(Items)
    BY <1>3, <1>4, LedgerRanking
  <1>6. Feed!News(n) = events[c]
    BY <1>2, <1>5, NewsIsComparison
  <1>7. Len(LedgerOf(disk)) = n
    BY <1>2, <1>3, StoreTypes DEF LedgerOf
  <1>8. \A i \in DOMAIN announced : announced[i].run # n
    BY <1>1, <1>3 DEF SerialInv, WatchInv, NotYetAnnounced, n
  <1>9. LedgerOf(disk') = LedgerOf(disk)
    BY <1>1 DEF storeVars
  <1>10. announced' = Append(announced, [run |-> n, events |-> Feed!News(n)])
    BY <1>1, <1>6 DEF n
  <1> QED
    BY <1>2, <1>7, <1>8, <1>9, <1>10 DEF Feed!Announce

LEMMA FeedStep ==
  ASSUME SerialInv, [WatchNext]_watchVars
  PROVE  Feed!FeedNext \/ UNCHANGED <<LedgerOf(disk), announced>>
  <1>0. StoreInv /\ LedgerInv /\ [Next]_storeVars
    BY WatchStepIsStoreStep DEF SerialInv, WatchInv, StoreInv
  <1>1. ASSUME NEW c \in Clients, Notify(c) PROVE Feed!FeedNext
    BY <1>1, NotifyAnnounces DEF Feed!FeedNext
  <1>2. (\E c \in Clients : Notify(c)) \/ announced' = announced
    BY DEF WatchNext, Progress, OpenRepository, LoadPrevious, Search, Saving, SavingFails, Compare,
           ShowLatest, ShowRank, Start, End, Abort, NotifierFails, Kill, Gone, watchVars
  <1>3. CASE announced' = announced /\ disk' = disk
    BY <1>3
  <1>4. CASE announced' = announced /\ disk' # disk
    <2>1. PICK c \in Clients : Commit(c)
      BY <1>0, <1>4, DiskStep
    <2>2. run[c] \in Runs /\ LedgerOf(disk') = Append(LedgerOf(disk), Ledger!Snapshot(run[c]))
      BY <1>0, <2>1, CommittedRows, CommitRecords
    <2>3. Ledger!Snapshot(run[c]) = Feed!Snapshot(run[c])
      BY DEF Ledger!Snapshot, Feed!Snapshot, Ledger!RowsOf, Feed!RowsOf, Ledger!Ranks, Feed!Ranks,
             Ledger!ObservedBy, Feed!ObservedBy, Ledger!LastPositions, Feed!LastPositions
    <2>4. Feed!Record(run[c])
      BY <2>2, <2>3 DEF Feed!Record
    <2> QED
      BY <1>4, <2>2, <2>4 DEF Feed!FeedNext, Feed!Next
  <1> QED
    BY <1>1, <1>2, <1>3, <1>4

\* Invocations that do not overlap notify of each snapshot at most once and only of the
\* latest one, with exactly the deals that are new or cheaper than in the one before.
THEOREM WatchIsFeed ==
  ASSUME ~Overlap
  PROVE  WatchSpec => ImplementsFeed
  <1>1. WatchInit => SerialInv /\ Feed!FeedInit
    BY SerialInit, FeedBegins
  <1>2. SerialInv /\ [WatchNext]_watchVars => SerialInv'
    BY SerialStep
  <1>3. SerialInv /\ [WatchNext]_watchVars => [Feed!FeedNext]_<<LedgerOf(disk), announced>>
    BY FeedStep
  <1> QED
    BY <1>1, <1>2, <1>3, PTL DEF WatchSpec, ImplementsFeed, Feed!FeedSpec

-----------------------------------------------------------------------------
(* Times.  The clock is read before the lock is taken, but by one process   *)
(* at a time.                                                              *)

OneAtATime == \A c, d \in Clients : pc[c] # "closed" /\ pc[d] # "closed" => c = d

\* A row of listings that is in order and not later than a time.
SeenBy(listings, time) ==
  \A k \in Keys : listings[k] # Null => /\ listings[k].first_seen <= listings[k].last_seen
                                        /\ listings[k].last_seen <= time

TimesInOrder ==
  /\ SeenBy(disk.listings, clock)
  /\ \A c \in Clients : pc[c] \in {"waiting", "writing"} =>
       /\ observed_at[c] <= clock
       /\ SeenBy(disk.listings, observed_at[c])
       /\ pc[c] = "writing" => SeenBy(pages.listings, observed_at[c])

LEMMA TimesBegin == WatchInit => TimesInOrder
  <1> SUFFICES ASSUME WatchInit PROVE TimesInOrder
    OBVIOUS
  <1>1. CASE disk = EmptyDatabase
    BY <1>1 DEF WatchInit, Init, TimesInOrder, SeenBy, EmptyDatabase
  <1>2. ASSUME NEW item \in Items, disk = LegacyDatabase(item)
        PROVE  TimesInOrder
    <2>1. SeenBy(disk.listings, 1)
      BY <1>2 DEF SeenBy, LegacyDatabase
    <2> QED
      BY <2>1 DEF WatchInit, Init, TimesInOrder
  <1> QED
    BY <1>1, <1>2 DEF WatchInit, Init

\* What is seen by a time is seen by a later one.
LEMMA SeenLater ==
  ASSUME NEW listings \in [Keys -> ListingRow \cup {Null}], NEW t \in Nat, NEW u \in Nat, t <= u,
         SeenBy(listings, t)
  PROVE  SeenBy(listings, u)
  <1>1. \A k \in Keys : listings[k] # Null => listings[k].last_seen \in Nat
    BY DEF ListingRow
  <1> QED
    BY <1>1 DEF SeenBy

\* The upsert of a listing by the one process that writes.
LEMMA SeenUpsert ==
  ASSUME NEW listings \in [Keys -> ListingRow \cup {Null}], NEW now \in Nat, NEW k \in Keys,
         SeenBy(listings, now)
  PROVE  SeenBy(Upsert(listings, k, now), now)
  <1> DEFINE row == [first_seen |-> IF listings[k] = Null THEN now ELSE listings[k].first_seen,
                     last_seen  |-> now]
  <1>1. Upsert(listings, k, now) = [listings EXCEPT ![k] = row]
    BY DEF Upsert
  <1>2. row.first_seen <= row.last_seen /\ row.last_seen <= now
    BY DEF SeenBy, ListingRow
  <1> HIDE DEF row
  <1> QED
    BY <1>1, <1>2 DEF SeenBy

LEMMA TimesStep ==
  ASSUME LockInv, OneAtATime, TimesInOrder, [Next]_storeVars
  PROVE  TimesInOrder'
  <1>1. /\ clock \in Nat /\ pc \in [Clients -> PCs] /\ observed_at \in [Clients -> Nat]
        /\ disk.listings \in [Keys -> ListingRow \cup {Null}]
        /\ pages.listings \in [Keys -> ListingRow \cup {Null}]
    BY DEF LockInv, TypeInv, TypeOK, Database
  <1>2. CASE Tick
    <2>1. clock' = clock + 1 /\ UNCHANGED <<disk, pages, pc, observed_at>>
      BY <1>2 DEF Tick, tables, locals
    <2>2. clock <= clock' /\ clock' \in Nat
      BY <1>1, <2>1
    <2> QED
      BY <1>1, <2>1, <2>2, SeenLater DEF TimesInOrder
  <1>3. ASSUME NEW c \in Clients, NEW r \in Runs, SaveRun(c, r)
        PROVE  TimesInOrder'
    <2>1. /\ UNCHANGED <<clock, disk, pages>> /\ pc[c] = "ready" /\ pc'[c] = "waiting"
          /\ observed_at'[c] = clock
          /\ \A d \in Clients : d # c => pc'[d] = pc[d] /\ observed_at'[d] = observed_at[d]
      BY <1>1, <1>3 DEF SaveRun, tables
    <2> QED
      BY <1>1, <2>1 DEF TimesInOrder
  <1>4. ASSUME NEW c \in Clients, InsertRun(c)
        PROVE  TimesInOrder'
    <2>1. /\ UNCHANGED <<clock, disk, observed_at>> /\ pc[c] = "waiting" /\ pc'[c] = "writing"
          /\ pages'.listings = disk.listings
          /\ \A d \in Clients : d # c => pc'[d] = pc[d]
      BY <1>1, <1>4 DEF InsertRun
    <2>2. \A d \in Clients : pc[d] # "closed" => d = c
      BY <2>1 DEF OneAtATime
    <2> QED
      BY <1>1, <2>1, <2>2 DEF TimesInOrder
  <1>5. ASSUME NEW c \in Clients, NEW k \in Keys, SaveListing(c, k)
        PROVE  TimesInOrder'
    <2>1. /\ UNCHANGED <<clock, disk, observed_at, pc>> /\ pc[c] = "writing"
          /\ pages'.listings = Upsert(pages.listings, k, observed_at[c])
      BY <1>1, <1>5 DEF SaveListing
    <2>2. \A d \in Clients : pc[d] # "closed" => d = c
      BY <2>1 DEF OneAtATime
    <2>3. SeenBy(pages'.listings, observed_at[c])
      BY <1>1, <2>1, SeenUpsert DEF TimesInOrder
    <2> QED
      BY <1>1, <2>1, <2>2, <2>3 DEF TimesInOrder
  <1>6. ASSUME NEW c \in Clients, Commit(c)
        PROVE  TimesInOrder'
    <2>1. /\ UNCHANGED <<clock, observed_at>> /\ pc[c] = "writing" /\ pc'[c] = "returned"
          /\ disk'.listings = pages.listings
          /\ \A d \in Clients : d # c => pc'[d] = pc[d]
      BY <1>1, <1>6 DEF Commit
    <2>2. \A d \in Clients : pc[d] # "closed" => d = c
      BY <2>1 DEF OneAtATime
    <2>3. SeenBy(disk'.listings, clock)
      BY <1>1, <2>1, SeenLater DEF TimesInOrder
    <2> QED
      BY <1>1, <2>1, <2>2, <2>3 DEF TimesInOrder
  <1>7. ASSUME NEW c \in Clients,
               Initialize(c) \/ AddColumn(c) \/ LockTimeout(c) \/ StatementFails(c) \/ Exit(c)
        PROVE  TimesInOrder'
    <2>1. /\ UNCHANGED <<clock, disk>> /\ pc'[c] \notin {"waiting", "writing"}
          /\ \A d \in Clients : d # c => pc'[d] = pc[d] /\ observed_at'[d] = observed_at[d]
      BY <1>1, <1>7 DEF Initialize, AddColumn, LockTimeout, StatementFails, Exit, tables
    <2>2. pages' = pages \/ pages' = disk
      BY <1>7 DEF Initialize, AddColumn, LockTimeout, StatementFails, Exit, tables
    <2> QED
      BY <1>1, <2>1, <2>2 DEF TimesInOrder
  <1>8. CASE UNCHANGED storeVars
    BY <1>8 DEF storeVars, TimesInOrder
  <1> QED
    BY <1>2, <1>3, <1>4, <1>5, <1>6, <1>7, <1>8 DEF Next, StoreStep, Advance

\* Where invocations do not overlap, a listing is first seen no later than last seen.
THEOREM SeenStaysInOrder ==
  ASSUME ~Overlap
  PROVE  WatchSpec => []SeenInOrder
  <1>1. WatchInit => SerialInv /\ TimesInOrder
    BY SerialInit, TimesBegin
  <1>2. SerialInv /\ TimesInOrder /\ [WatchNext]_watchVars => SerialInv' /\ TimesInOrder'
    <2> SUFFICES ASSUME SerialInv, TimesInOrder, [WatchNext]_watchVars
                 PROVE  SerialInv' /\ TimesInOrder'
      OBVIOUS
    <2>1. OneAtATime
      BY DEF SerialInv, Alone, IdleClosed, OneAtATime
    <2>2. LockInv /\ [Next]_storeVars
      BY WatchStepIsStoreStep DEF SerialInv, WatchInv, StoreInv, LedgerInv
    <2> QED
      BY <2>1, <2>2, SerialStep, TimesStep
  <1>3. TimesInOrder => SeenInOrder
    BY DEF TimesInOrder, SeenBy, SeenInOrder
  <1> QED
    BY <1>1, <1>2, <1>3, PTL DEF WatchSpec

-----------------------------------------------------------------------------
(* News.  What is announced is in the order of the runs, and it is what the *)
(* stored rankings say.                                                    *)

NewsOf(id) == detect_deal_events(TopOf(Ranking(id)), Ranking(id - 1))

NewsInOrder ==
  /\ \A n \in DOMAIN announced : /\ announced[n].run \in 1 .. Len(disk.search_runs)
                                 /\ announced[n].events = NewsOf(announced[n].run)
  /\ \A n, m \in DOMAIN announced : n < m => announced[n].run < announced[m].run

LEMMA NewsStep == SerialInv /\ NewsInOrder /\ [WatchNext]_watchVars => NewsInOrder'
  <1> SUFFICES ASSUME SerialInv, NewsInOrder, [WatchNext]_watchVars PROVE NewsInOrder'
    OBVIOUS
  <1> DEFINE len == Len(disk.search_runs)
  <1>0. /\ StoreInv /\ StoreInv' /\ [Next]_storeVars
        /\ len \in Nat /\ Len(disk'.search_runs) \in Nat
        /\ announced \in Seq([run : Nat, events : SUBSET Events])
    BY WatchStepIsStoreStep, StoreInvStep, StoreTypes DEF SerialInv, WatchInv, WatchTypeOK,
       StoreInv, LedgerInv, LockInv, TypeInv, TypeOK, Database
  <1>1. len <= Len(disk'.search_runs) /\ \A id \in 0 .. len : Ranking(id)' = Ranking(id)
    BY <1>0, RankingStays
  <1>2. CASE announced' = announced
    <2>1. ASSUME NEW n \in DOMAIN announced
          PROVE  /\ announced[n].run \in 1 .. Len(disk'.search_runs)
                 /\ announced[n].events =
                      detect_deal_events(TopOf(Ranking(announced[n].run)'), Ranking(announced[n].run - 1)')
      <3>1. announced[n].run \in 1 .. len /\ announced[n].events = NewsOf(announced[n].run)
        BY DEF NewsInOrder
      <3>2. announced[n].run \in 0 .. len /\ announced[n].run - 1 \in 0 .. len
        BY <1>0, <3>1
      <3>3. /\ Ranking(announced[n].run)' = Ranking(announced[n].run)
            /\ Ranking(announced[n].run - 1)' = Ranking(announced[n].run - 1)
        BY <1>1, <1>2, <3>2
      <3> QED
        BY <1>0, <1>1, <3>1, <3>3 DEF NewsOf
    <2> QED
      BY <1>2, <2>1 DEF NewsInOrder, NewsOf
  <1>3. ASSUME NEW c \in Clients, Notify(c)
        PROVE  NewsInOrder'
    <2> DEFINE new == [run |-> run_id[c], events |-> events[c]]
    <2>1. /\ announced' = Append(announced, new) /\ disk' = disk
          /\ phase[c] = "notifying" /\ run_id[c] = len /\ pc[c] = "returned"
          /\ \A n \in DOMAIN announced : announced[n].run # len
      BY <1>3 DEF Notify, storeVars, SerialInv, WatchInv, ComparesWithLatest, EventsReady, NotYetAnnounced
    <2>2. events[c] = NewsOf(len) /\ len > 0
      BY <2>1, NotifyHasNews DEF NewsOf
    <2>3. \A n \in DOMAIN announced : announced[n].run < len
      BY <1>0, <2>1 DEF NewsInOrder
    <2>4. /\ DOMAIN announced' = 1 .. Len(announced) + 1 /\ DOMAIN announced = 1 .. Len(announced)
          /\ Len(announced) \in Nat
          /\ announced'[Len(announced) + 1] = new
          /\ \A n \in DOMAIN announced : announced'[n] = announced[n]
      BY <1>0, <2>1
    <2>5. new.run = len /\ new.events = NewsOf(len)
      BY <2>1, <2>2
    <2>6. len \in 1 .. len
      BY <1>0, <2>2
    <2>7. \A id : Ranking(id)' = Ranking(id)
      BY <2>1 DEF Ranking
    <2> HIDE DEF new
    <2>8. ASSUME NEW n \in DOMAIN announced'
          PROVE  /\ announced'[n].run \in 1 .. Len(disk'.search_runs)
                 /\ announced'[n].events = NewsOf(announced'[n].run)
      <3>1. CASE n \in DOMAIN announced
        BY <2>1, <2>4, <3>1 DEF NewsInOrder
      <3>2. CASE n = Len(announced) + 1
        BY <2>1, <2>4, <2>5, <2>6, <3>2
      <3> QED
        BY <2>4, <3>1, <3>2
    <2>9. ASSUME NEW n \in DOMAIN announced', NEW m \in DOMAIN announced', n < m
          PROVE  announced'[n].run < announced'[m].run
      <3>1. n \in DOMAIN announced
        BY <2>4, <2>9
      <3>2. CASE m \in DOMAIN announced
        BY <2>4, <2>9, <3>1, <3>2 DEF NewsInOrder
      <3>3. CASE m = Len(announced) + 1
        BY <2>3, <2>4, <2>5, <3>1, <3>3
      <3> QED
        BY <2>4, <3>2, <3>3
    <2> QED
      BY <2>7, <2>8, <2>9 DEF NewsInOrder, NewsOf
  <1>4. (\E c \in Clients : Notify(c)) \/ announced' = announced
    BY DEF WatchNext, Progress, OpenRepository, LoadPrevious, Search, Saving, SavingFails, Compare,
           ShowLatest, ShowRank, Start, End, Abort, NotifierFails, Kill, Gone, watchVars
  <1> QED
    BY <1>2, <1>3, <1>4

\* What a run ranks is no news in the run after it, unless it ranks two offers of one key.
LEMMA NewsIsNew ==
  ASSUME NEW id, NEW i \in DOMAIN Ranking(id - 1),
         NEW event \in NewsOf(id), Ranking(id - 1)[i] = event.item,
         RankedOnce(event.item.key, id - 1), Ranking(id - 1) \in Seq(Items)
  PROVE  FALSE
  <1> DEFINE old == Ranking(id - 1)
  <1>1. old[i] \in Items
    OBVIOUS
  <1>2. CASE event \in NewDeals(TopOf(Ranking(id)), old)
    <2>1. event.item.key \notin KeysIn(old)
      BY <1>2 DEF NewDeals
    <2> QED
      BY <2>1 DEF KeysIn
  <1>3. CASE event \in PriceDrops(TopOf(Ranking(id)), old)
    <2>1. PICK p \in Pairs(TopOf(Ranking(id)), old) : event.item = p[1] /\ p[2].price > p[1].price
      BY <1>3 DEF PriceDrops
    <2>2. PICK j \in LastAt(old, event.item.key) : p[2] = old[j]
      BY <2>1 DEF Pairs
    <2>3. j \in DOMAIN old /\ old[j].key = event.item.key
      BY <2>2 DEF LastAt
    <2>4. j = i
      BY <2>3 DEF RankedOnce
    <2>5. old[i].price \in Nat /\ old[i].price > old[i].price
      BY <1>1, <2>1, <2>2, <2>4, WatchAssumption
    <2> QED
      BY <2>5
  <1> QED
    BY <1>2, <1>3 DEF NewsOf, detect_deal_events

\* News is about an item of the ranking.
LEMMA NewsIsRanked ==
  ASSUME NEW id, NEW event \in NewsOf(id), Ranking(id) \in Seq(Items)
  PROVE  \E i \in DOMAIN Ranking(id) : Ranking(id)[i] = event.item
  <1> DEFINE top == TopOf(Ranking(id))
  <1>1. \A i \in DOMAIN top : i \in DOMAIN Ranking(id) /\ top[i] = Ranking(id)[i]
    BY TopOfRanking
  <1> HIDE DEF top
  <1>2. CASE event \in NewDeals(top, Ranking(id - 1))
    BY <1>1, <1>2 DEF NewDeals
  <1>3. CASE event \in PriceDrops(top, Ranking(id - 1))
    BY <1>1, <1>3 DEF PriceDrops, Pairs
  <1> QED
    BY <1>2, <1>3 DEF NewsOf, detect_deal_events, top

LEMMA OrderedNewsNotRepeated ==
  ASSUME StoreInv, NewsInOrder
  PROVE  NewsNotRepeated
  <1> SUFFICES ASSUME NEW n \in DOMAIN announced, NEW m \in DOMAIN announced, n < m,
                      NEW event \in announced[n].events \cap announced[m].events,
                      RankedOnce(event.item.key, announced[m].run - 1)
               PROVE  \E id \in announced[n].run + 1 .. announced[m].run - 1 :
                        \A i \in DOMAIN Ranking(id) : Ranking(id)[i] # event.item
    BY DEF NewsNotRepeated
  <1> DEFINE first == announced[n].run
             second == announced[m].run
             len == Len(disk.search_runs)
  <1>1. /\ first \in 1 .. len /\ second \in 1 .. len /\ first < second /\ len \in Nat
        /\ event \in NewsOf(first) /\ event \in NewsOf(second)
    BY StoreTypes DEF NewsInOrder
  <1> HIDE DEF first, second, len
  <1>2. first \in 0 .. len /\ second - 1 \in 0 .. len
    BY <1>1
  <1>3. Ranking(first) \in Seq(Items) /\ Ranking(second - 1) \in Seq(Items)
    BY <1>2, LedgerRanking DEF len
  <1>4. \A i \in DOMAIN Ranking(second - 1) : Ranking(second - 1)[i] # event.item
    BY <1>1, <1>3, NewsIsNew DEF second
  <1>5. second - 1 # first
    <2>1. \E i \in DOMAIN Ranking(first) : Ranking(first)[i] = event.item
      BY <1>1, <1>3, NewsIsRanked
    <2> QED
      BY <1>4, <2>1
  <1>6. second - 1 \in first + 1 .. second - 1
    BY <1>1, <1>5
  <1> QED
    BY <1>4, <1>6 DEF first, second

\* Where invocations do not overlap, the same news comes again only if a run in between
\* did not rank the offer as it is.
THEOREM NewsComesOnce ==
  ASSUME ~Overlap
  PROVE  WatchSpec => []NewsNotRepeated
  <1>1. WatchInit => SerialInv /\ NewsInOrder
    BY SerialInit DEF WatchInit, NewsInOrder
  <1>2. SerialInv /\ NewsInOrder /\ [WatchNext]_watchVars => SerialInv' /\ NewsInOrder'
    BY SerialStep, NewsStep
  <1>3. SerialInv /\ NewsInOrder => NewsNotRepeated
    BY OrderedNewsNotRepeated DEF SerialInv, WatchInv
  <1> QED
    BY <1>1, <1>2, <1>3, PTL DEF WatchSpec

=============================================================================

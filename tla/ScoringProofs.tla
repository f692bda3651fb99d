---------------------------- MODULE ScoringProofs ----------------------------
(***************************************************************************)
(* Proofs about the scores of listings.  The validators of config.py check   *)
(* that the weights add up to one, not that they are non-negative, and of    *)
(* the upgrade costs nothing; a lemma that needs their signs assumes         *)
(* NonNegative: that scores stay in range, and that a better machine never   *)
(* scores lower.                                                            *)
(***************************************************************************)
EXTENDS SearchService, TLAPS

-----------------------------------------------------------------------------
(* What is scored.                                                         *)

\* What the score reads of a listing, within the constraints of models.py.
Scorable(l) ==
  /\ l.price \in Nat
  /\ \A a \in Attributes : l.attrs[a] \in Int \cup {Null}
  /\ \A a \in Security : l.attrs[a] \in {0, 1, Null}
  /\ l.attrs["seller_rating_percent"] \in (0 .. 100) \cup {Null}
  /\ l.cover \in 0 .. 2

\* What it reads of the criteria, in the range they have after the overrides.
Usable(c) ==
  /\ c.max_per_unit \in Int /\ c.preferred_max \in Int
  /\ c.minimum["physical_cores"] \in Optional
  /\ c.desired_memory \in Optional /\ c.upgradeable_to \in Optional
  /\ c.desired_storage \in Optional /\ c.preferred_speed \in Optional
  /\ c.nvme_preferred \in BOOLEAN

-----------------------------------------------------------------------------
(* Arithmetic.                                                             *)

LEMMA QuotientOf ==
  ASSUME NEW n \in Nat, NEW d \in Nat \ {0}
  PROVE  /\ n \div d \in Nat
         /\ (n \div d) * d <= n
         /\ n < ((n \div d) + 1) * d
  <1>1. n \div d \in Int /\ n \div d >= 0
    OBVIOUS
  <1>2. (n \div d) * d <= n
    OBVIOUS
  <1>3. n < ((n \div d) + 1) * d
    OBVIOUS
  <1> QED
    BY <1>1, <1>2, <1>3

LEMMA TimesLess ==
  ASSUME NEW a \in Int, NEW b \in Int, NEW d \in Nat, a <= b
  PROVE  a * d <= b * d
  OBVIOUS

\* A quotient by d of less than b * d is less than b.
LEMMA QuotientBelow ==
  ASSUME NEW a \in Int, NEW b \in Int, NEW d \in Nat \ {0}, a * d < b * d
  PROVE  a < b
  <1> SUFFICES ASSUME b <= a PROVE FALSE
    OBVIOUS
  <1>1. b * d <= a * d
    BY TimesLess
  <1>2. a * d \in Int /\ b * d \in Int
    OBVIOUS
  <1> QED
    BY <1>1, <1>2

LEMMA QuotientMonotone ==
  ASSUME NEW n \in Nat, NEW m \in Nat, NEW d \in Nat \ {0}, n <= m
  PROVE  n \div d <= m \div d
  <1> DEFINE a == n \div d
             b == m \div d
  <1>1. a \in Nat /\ b \in Nat /\ a * d <= n /\ m < (b + 1) * d
    BY QuotientOf
  <1>2. a * d < (b + 1) * d
    <2>1. a * d \in Int /\ (b + 1) * d \in Int
      BY <1>1
    <2> QED
      BY <1>1, <2>1
  <1> HIDE DEF a, b
  <1>3. a < b + 1
    BY <1>1, <1>2, QuotientBelow
  <1> QED
    BY <1>1, <1>3 DEF a, b

-----------------------------------------------------------------------------
(* A category.                                                             *)

\* A total, in hundredths of a point; a provider's trust; a score within a category.
\* (The provers would enumerate the intervals.)
TotalRange(s) == s \in Int /\ 0 <= s /\ s <= 10000
TrustRange(trust) == trust \in Int /\ 0 <= trust /\ trust <= 100
InRange(s) == s \in Int /\ 0 <= s /\ s <= Full

LEMMA FullNat == Full \in Nat /\ Full = 100000 /\ 25 * Point = 25000 /\ InRange(Full)
  BY DEF Full, Point, InRange

\* Between 0 and the target, the share of it that the value makes up.
LEMMA RatioShare ==
  ASSUME NEW value \in Int, NEW target \in Int, 0 <= value, value <= target, target # 0
  PROVE  /\ _ratio(value, target) = (value * Full) \div target
         /\ value * Full \in Nat /\ target \in Nat \ {0}
         /\ InRange(_ratio(value, target))
  <1> DEFINE q == (value * Full) \div target
  <1>1. _ratio(value, target) = q
    BY DEF _ratio
  <1>2. value * Full \in Nat /\ target \in Nat \ {0}
    BY FullNat
  <1>3. q \in Nat /\ q * target <= value * Full
    BY <1>2, QuotientOf
  <1>4. value * Full <= target * Full
    BY FullNat, TimesLess
  <1>5. q <= Full
    <2> HIDE DEF q
    <2>1. SUFFICES ASSUME Full + 1 <= q PROVE FALSE
      BY <1>3, FullNat
    <2>2. (Full + 1) * target <= q * target
      BY <1>2, <1>3, <2>1, FullNat, TimesLess
    <2>3. (Full + 1) * target = target * Full + target
      BY <1>2, FullNat
    <2>4. q * target \in Int /\ target * Full \in Int /\ value * Full \in Int
      BY <1>2, <1>3, FullNat
    <2> QED
      BY <1>2, <1>3, <1>4, <2>2, <2>3, <2>4
  <1> HIDE DEF q
  <1> QED
    BY <1>1, <1>2, <1>3, <1>5 DEF q, InRange

LEMMA RatioRange ==
  ASSUME NEW value \in Int, NEW target \in Int
  PROVE  InRange(_ratio(value, target))
  <1>1. CASE target # 0 /\ 0 <= value /\ value <= target
    BY <1>1, RatioShare
  <1>2. CASE target = 0 \/ value < 0 \/ value > target
    <2>1. _ratio(value, target) \in {0, Full}
      BY <1>2 DEF _ratio
    <2> QED
      BY <2>1, FullNat DEF InRange
  <1> QED
    BY <1>1, <1>2

LEMMA RatioMonotone ==
  ASSUME NEW value \in Int, NEW more \in Int, NEW target \in Int, value <= more
  PROVE  _ratio(value, target) <= _ratio(more, target)
  <1>1. CASE target # 0 /\ 0 <= value /\ more <= target
    <2>1. value * Full <= more * Full
      BY FullNat, TimesLess
    <2>2. /\ _ratio(value, target) = (value * Full) \div target
          /\ _ratio(more, target) = (more * Full) \div target
          /\ value * Full \in Nat /\ more * Full \in Nat /\ target \in Nat \ {0}
      BY <1>1, RatioShare
    <2> QED
      BY <2>1, <2>2, QuotientMonotone
  <1>2. CASE target = 0 \/ value < 0
    <2>1. _ratio(value, target) = 0 \/ (target = 0 /\ _ratio(value, target) = Full)
      BY <1>2 DEF _ratio
    <2>2. target = 0 => _ratio(more, target) = Full
      BY DEF _ratio
    <2>3. InRange(_ratio(more, target))
      BY RatioRange
    <2> QED
      BY <2>1, <2>2, <2>3, FullNat DEF InRange
  <1>3. CASE target # 0 /\ 0 <= value /\ target < more
    <2>1. _ratio(more, target) = Full
      BY <1>3 DEF _ratio
    <2>2. InRange(_ratio(value, target))
      BY RatioRange
    <2> QED
      BY <2>1, <2>2, FullNat DEF InRange
  <1> QED
    BY <1>1, <1>2, <1>3

LEMMA BonusKeeps ==
  ASSUME NEW s, NEW t, InRange(s), InRange(t), s <= t
  PROVE  InRange(Bonus(s)) /\ Bonus(s) <= Bonus(t) /\ s <= Bonus(t)
  BY FullNat DEF Bonus, InRange

\* What is read of an attribute or of an optional criterion.
LEMMA ValueTypes ==
  ASSUME NEW l, Scorable(l), NEW a \in Attributes
  PROVE  Value(l, a) \in Int
  BY DEF Scorable, Value

LEMMA TargetTypes ==
  ASSUME NEW value \in Optional, NEW default \in Nat
  PROVE  Or(value, default) \in Nat
  BY DEF Or, Optional, Positive

-----------------------------------------------------------------------------
(* The categories.                                                         *)

LEMMA CategoryRanges ==
  ASSUME NEW c, Usable(c), NEW l, Scorable(l)
  PROVE  \A k \in Categories : InRange(categories(c, l)[k])
  <1>1. /\ c.max_per_unit \in Int /\ c.preferred_max \in Int
        /\ c.minimum["physical_cores"] \in Optional
        /\ c.desired_memory \in Optional /\ c.upgradeable_to \in Optional
        /\ c.desired_storage \in Optional /\ c.preferred_speed \in Optional
        /\ l.price \in Nat /\ l.cover \in 0 .. 2
    BY DEF Usable, Scorable
  <1>2. \A a \in Attributes : Value(l, a) \in Int
    BY ValueTypes
  <1>3. InRange(PriceScore(c, l))
    <2>1. /\ c.max_per_unit - l.price \in Int
          /\ c.max_per_unit - c.preferred_max \in Int
      BY <1>1
    <2>2. InRange(_ratio(c.max_per_unit - l.price, c.max_per_unit - c.preferred_max))
      BY <2>1, RatioRange
    <2> QED
      BY <2>2, FullNat DEF PriceScore
  <1>4. InRange(CpuScore(c, l))
    <2>1. /\ Value(l, "physical_cores") \in Int
          /\ Or(c.minimum["physical_cores"], 1) \in Int
      BY <1>1, <1>2, TargetTypes DEF Attributes
    <2>2. InRange(_ratio(Value(l, "physical_cores"), Or(c.minimum["physical_cores"], 1)))
      BY <2>1, RatioRange
    <2> QED
      BY <2>2, FullNat DEF CpuScore
  <1>5. InRange(MemoryScore(c, l))
    <2> DEFINE s == _ratio(Value(l, "memory_gb"), Or(c.desired_memory, 1))
    <2>1. Value(l, "memory_gb") \in Int /\ Or(c.desired_memory, 1) \in Int
      BY <1>1, <1>2, TargetTypes DEF Attributes
    <2>2. InRange(s)
      BY <2>1, RatioRange
    <2>3. MemoryScore(c, l) = s \/ MemoryScore(c, l) = Bonus(s)
      BY DEF MemoryScore
    <2> HIDE DEF s
    <2>4. InRange(Bonus(s))
      BY <2>2, BonusKeeps DEF InRange
    <2> QED
      BY <2>2, <2>3, <2>4
  <1>6. InRange(StorageScore(c, l))
    <2> DEFINE s == _ratio(Value(l, "storage_gb"), Or(c.desired_storage, 1))
    <2>1. Value(l, "storage_gb") \in Int /\ Or(c.desired_storage, 1) \in Int
      BY <1>1, <1>2, TargetTypes DEF Attributes
    <2>2. InRange(s)
      BY <2>1, RatioRange
    <2>3. StorageScore(c, l) = s \/ StorageScore(c, l) = Bonus(s)
      BY DEF StorageScore
    <2> HIDE DEF s
    <2>4. InRange(Bonus(s))
      BY <2>2, BonusKeeps DEF InRange
    <2> QED
      BY <2>2, <2>3, <2>4
  <1>7. InRange(SecurityScore(l))
    <2>1. \A a \in Security : Value(l, a) \in {0, 1}
      BY DEF Scorable, Value
    <2>2. /\ Value(l, "tpm_2") \in {0, 1} /\ Value(l, "secure_boot") \in {0, 1}
          /\ Value(l, "virtualization") \in {0, 1}
      BY <2>1 DEF Security
    <2> QED
      BY <2>2 DEF SecurityScore, Point, Full, InRange
  <1>8. InRange(_ratio(Value(l, "ethernet_speed_gbps"), Or(c.preferred_speed, 1)))
    <2>1. Value(l, "ethernet_speed_gbps") \in Int /\ Or(c.preferred_speed, 1) \in Int
      BY <1>1, <1>2, TargetTypes DEF Attributes
    <2> QED
      BY <2>1, RatioRange
  <1>9. InRange(Value(l, "seller_rating_percent") * Point)
    <2>1. Value(l, "seller_rating_percent") \in 0 .. 100
      BY DEF Scorable, Value
    <2> QED
      BY <2>1 DEF Point, Full, InRange
  <1>10. InRange(50 * Point * l.cover)
    BY <1>1 DEF Point, Full, InRange
  <1> QED
    BY <1>3, <1>4, <1>5, <1>6, <1>7, <1>8, <1>9, <1>10 DEF categories, Categories

\* A listing that is at least as good as another reaches as much in every category.
LEMMA CategoriesMonotone ==
  ASSUME Usable(criteria), NEW l, Scorable(l), NEW k, Scorable(k), AtLeastAsGood(l, k)
  PROVE  \A j \in Categories : categories(criteria, k)[j] <= categories(criteria, l)[j]
  <1> DEFINE c == criteria
  <1>1. /\ c.max_per_unit \in Int /\ c.preferred_max \in Int
        /\ c.minimum["physical_cores"] \in Optional
        /\ c.desired_memory \in Optional /\ c.upgradeable_to \in Optional
        /\ c.desired_storage \in Optional /\ c.preferred_speed \in Optional
        /\ l.price \in Nat /\ l.cover \in 0 .. 2 /\ k.price \in Nat /\ k.cover \in 0 .. 2
    BY DEF Usable, Scorable
  <1>2. /\ \A a \in Attributes : Value(l, a) \in Int /\ Value(k, a) \in Int
        /\ \A a \in Attributes \ {"threads", "seller_feedback_count"} : Value(k, a) <= Value(l, a)
    BY ValueTypes DEF AtLeastAsGood
  <1>3. PriceScore(c, k) <= PriceScore(c, l)
    <2> DEFINE span == c.max_per_unit - c.preferred_max
    <2>1. l.price <= k.price
      BY DEF AtLeastAsGood
    <2>2. c.max_per_unit - k.price \in Int /\ c.max_per_unit - l.price \in Int /\ span \in Int
      BY <1>1
    <2>3. c.max_per_unit - k.price <= c.max_per_unit - l.price
      BY <1>1, <2>1
    <2>4. InRange(_ratio(c.max_per_unit - k.price, span))
      BY <2>2, RatioRange
    <2>5. _ratio(c.max_per_unit - k.price, span) <= _ratio(c.max_per_unit - l.price, span)
      BY <2>2, <2>3, RatioMonotone
    <2>6. CASE l.price <= c.preferred_max
      <3>1. PriceScore(c, l) = Full
        BY <2>6 DEF PriceScore
      <3>2. PriceScore(c, k) = Full \/ PriceScore(c, k) = _ratio(c.max_per_unit - k.price, span)
        BY DEF PriceScore
      <3> QED
        BY <2>4, <3>1, <3>2, FullNat DEF InRange
    <2>7. CASE ~(l.price <= c.preferred_max)
      <3>1. ~(k.price <= c.preferred_max)
        BY <1>1, <2>1, <2>7
      <3>2. /\ PriceScore(c, l) = _ratio(c.max_per_unit - l.price, span)
            /\ PriceScore(c, k) = _ratio(c.max_per_unit - k.price, span)
        BY <2>7, <3>1 DEF PriceScore
      <3> QED
        BY <2>5, <3>2
    <2> QED
      BY <2>6, <2>7
  <1>4. CpuScore(c, k) <= CpuScore(c, l)
    <2> DEFINE Cores(x) == _ratio(Value(x, "physical_cores"), Or(c.minimum["physical_cores"], 1))
    <2>1. /\ Value(l, "physical_cores") \in Int /\ Value(k, "physical_cores") \in Int
          /\ Value(k, "physical_cores") <= Value(l, "physical_cores")
          /\ Or(c.minimum["physical_cores"], 1) \in Int
      BY <1>1, <1>2, TargetTypes DEF Attributes
    <2>2. Cores(k) <= Cores(l)
      BY <2>1, RatioMonotone
    <2>3. InRange(Cores(k))
      BY <2>1, RatioRange
    <2>4. k.cpu \in c.preferred_models => l.cpu \in c.preferred_models
      BY DEF AtLeastAsGood
    <2>5. /\ CpuScore(c, k) = IF k.cpu \in c.preferred_models THEN Full ELSE Cores(k)
          /\ CpuScore(c, l) = IF l.cpu \in c.preferred_models THEN Full ELSE Cores(l)
      BY DEF CpuScore
    <2> HIDE DEF Cores
    <2> QED
      BY <2>2, <2>3, <2>4, <2>5, FullNat DEF InRange
  <1>5. MemoryScore(c, k) <= MemoryScore(c, l)
    <2> DEFINE S(x) == _ratio(Value(x, "memory_gb"), Or(c.desired_memory, 1))
               Upgradeable(x) == Value(x, "max_memory_gb") >= Or(c.upgradeable_to, 10 ^ 9)
    <2>1. /\ Value(l, "memory_gb") \in Int /\ Value(k, "memory_gb") \in Int
          /\ Value(k, "memory_gb") <= Value(l, "memory_gb")
          /\ Or(c.desired_memory, 1) \in Int
      BY <1>1, <1>2, TargetTypes DEF Attributes
    <2>2. S(k) <= S(l) /\ InRange(S(k)) /\ InRange(S(l))
      BY <2>1, RatioMonotone, RatioRange
    <2>3. Upgradeable(k) => Upgradeable(l)
      <3>1. /\ Value(l, "max_memory_gb") \in Int /\ Value(k, "max_memory_gb") \in Int
            /\ Value(k, "max_memory_gb") <= Value(l, "max_memory_gb")
        BY <1>2 DEF Attributes
      <3>2. Or(c.upgradeable_to, 10 ^ 9) \in Int
        <4>1. 10 ^ 9 \in Nat
          OBVIOUS
        <4> QED
          BY <1>1, <4>1, TargetTypes
      <3> QED
        BY <3>1, <3>2
    <2>4. /\ MemoryScore(c, k) = IF Upgradeable(k) THEN Bonus(S(k)) ELSE S(k)
          /\ MemoryScore(c, l) = IF Upgradeable(l) THEN Bonus(S(l)) ELSE S(l)
      BY DEF MemoryScore
    <2> HIDE DEF S, Upgradeable
    <2>5. Bonus(S(k)) <= Bonus(S(l)) /\ S(k) <= Bonus(S(l))
      BY <2>2, BonusKeeps
    <2> QED
      BY <2>2, <2>3, <2>4, <2>5
  <1>6. StorageScore(c, k) <= StorageScore(c, l)
    <2> DEFINE S(x) == _ratio(Value(x, "storage_gb"), Or(c.desired_storage, 1))
               Fast(x) == c.nvme_preferred /\ x.nvme
    <2>1. /\ Value(l, "storage_gb") \in Int /\ Value(k, "storage_gb") \in Int
          /\ Value(k, "storage_gb") <= Value(l, "storage_gb")
          /\ Or(c.desired_storage, 1) \in Int
      BY <1>1, <1>2, TargetTypes DEF Attributes
    <2>2. S(k) <= S(l) /\ InRange(S(k)) /\ InRange(S(l))
      BY <2>1, RatioMonotone, RatioRange
    <2>3. Fast(k) => Fast(l)
      BY DEF AtLeastAsGood
    <2>4. /\ StorageScore(c, k) = IF Fast(k) THEN Bonus(S(k)) ELSE S(k)
          /\ StorageScore(c, l) = IF Fast(l) THEN Bonus(S(l)) ELSE S(l)
      BY DEF StorageScore
    <2> HIDE DEF S, Fast
    <2>5. Bonus(S(k)) <= Bonus(S(l)) /\ S(k) <= Bonus(S(l))
      BY <2>2, BonusKeeps
    <2> QED
      BY <2>2, <2>3, <2>4, <2>5
  <1>7. SecurityScore(k) <= SecurityScore(l)
    <2> DEFINE Extra(x) == IF x.features = {} THEN 0 ELSE 1
               Sum4(x) == Value(x, "tpm_2") + Value(x, "secure_boot")
                            + Value(x, "virtualization") + Extra(x)
    <2>1. \A a \in Security : Value(l, a) \in Nat /\ Value(k, a) \in Nat /\ Value(k, a) <= Value(l, a)
      <3>1. \A a \in Security : Value(l, a) \in {0, 1} /\ Value(k, a) \in {0, 1}
        BY DEF Scorable, Value
      <3>2. \A a \in Security : Value(k, a) <= Value(l, a)
        BY <1>2 DEF Attributes, Security
      <3> QED
        BY <3>1, <3>2
    <2>2. /\ Extra(k) \in Nat /\ Extra(l) \in Nat /\ Extra(k) <= Extra(l)
      BY DEF AtLeastAsGood
    <2> HIDE DEF Extra
    <2>3. Sum4(k) \in Nat /\ Sum4(l) \in Nat /\ Sum4(k) <= Sum4(l)
      BY <2>1, <2>2 DEF Security
    <2>4. SecurityScore(k) = 25000 * Sum4(k) /\ SecurityScore(l) = 25000 * Sum4(l)
      BY FullNat DEF SecurityScore, Extra
    <2> HIDE DEF Sum4
    <2> QED
      BY <2>3, <2>4
  <1>8. _ratio(Value(k, "ethernet_speed_gbps"), Or(c.preferred_speed, 1))
          <= _ratio(Value(l, "ethernet_speed_gbps"), Or(c.preferred_speed, 1))
    <2>1. /\ Value(l, "ethernet_speed_gbps") \in Int /\ Value(k, "ethernet_speed_gbps") \in Int
          /\ Value(k, "ethernet_speed_gbps") <= Value(l, "ethernet_speed_gbps")
          /\ Or(c.preferred_speed, 1) \in Int
      BY <1>1, <1>2, TargetTypes DEF Attributes
    <2> QED
      BY <2>1, RatioMonotone
  <1>9. Value(k, "seller_rating_percent") * Point <= Value(l, "seller_rating_percent") * Point
    <2>1. /\ Value(l, "seller_rating_percent") \in Int /\ Value(k, "seller_rating_percent") \in Int
          /\ Value(k, "seller_rating_percent") <= Value(l, "seller_rating_percent")
      BY <1>2 DEF Attributes
    <2> QED
      BY <2>1 DEF Point
  <1>10. 50 * Point * k.cover <= 50 * Point * l.cover
    BY <1>1 DEF Point, AtLeastAsGood
  <1> QED
    BY <1>3, <1>4, <1>5, <1>6, <1>7, <1>8, <1>9, <1>10 DEF categories, Categories

-----------------------------------------------------------------------------
(* The total.                                                              *)

LEMMA WeightTypes ==
  /\ \A j \in Categories : Weights[j] \in Int
  /\ NonNegative => \A j \in Categories : Weights[j] \in Nat
  /\ Total(Weights) = 100
  BY WeightsAssumption DEF weights_total_one, NonNegative

\* A sum over the categories, term by term.
LEMMA WeightedSum ==
  ASSUME NEW scores
  PROVE  Weighted(scores) =
           scores["price"] * Weights["price"] + scores["cpu"] * Weights["cpu"]
             + scores["memory"] * Weights["memory"] + scores["storage"] * Weights["storage"]
             + scores["security"] * Weights["security"] + scores["networking"] * Weights["networking"]
             + scores["seller"] * Weights["seller"] + scores["warranty"] * Weights["warranty"]
  <1>1. \A j \in Categories : [x \in Categories |-> scores[x] * Weights[x]][j] = scores[j] * Weights[j]
    OBVIOUS
  <1> QED
    BY <1>1 DEF Weighted, Total, Categories

LEMMA WeightedInt ==
  ASSUME NEW scores, \A j \in Categories : scores[j] \in Int
  PROVE  Weighted(scores) \in Int
  <1> DEFINE S(j) == scores[j] * Weights[j]
  <1>1. \A j \in Categories : S(j) \in Int
    BY WeightTypes
  <1>2. Weighted(scores) = S("price") + S("cpu") + S("memory") + S("storage")
                             + S("security") + S("networking") + S("seller") + S("warranty")
    BY WeightedSum
  <1> HIDE DEF S
  <1> QED
    BY <1>1, <1>2 DEF Categories

LEMMA WeightedMonotone ==
  ASSUME NonNegative, NEW low, NEW high, \A j \in Categories : InRange(low[j]) /\ InRange(high[j]) /\ low[j] <= high[j]
  PROVE  Weighted(low) \in Nat /\ Weighted(high) \in Nat /\ Weighted(low) <= Weighted(high)
  <1>1. \A j \in Categories : /\ low[j] * Weights[j] \in Nat /\ high[j] * Weights[j] \in Nat
                              /\ low[j] * Weights[j] <= high[j] * Weights[j]
    <2> TAKE j \in Categories
    <2>1. low[j] \in Nat /\ high[j] \in Nat /\ low[j] <= high[j] /\ Weights[j] \in Nat
      BY WeightTypes DEF InRange
    <2>2. low[j] * Weights[j] <= high[j] * Weights[j]
      BY <2>1, TimesLess
    <2>3. low[j] * Weights[j] \in Nat /\ high[j] * Weights[j] \in Nat
      BY <2>1
    <2> QED
      BY <2>2, <2>3
  <1> DEFINE L(j) == low[j] * Weights[j]
             H(j) == high[j] * Weights[j]
  <1>2. /\ Weighted(low) = L("price") + L("cpu") + L("memory") + L("storage")
                             + L("security") + L("networking") + L("seller") + L("warranty")
        /\ Weighted(high) = H("price") + H("cpu") + H("memory") + H("storage")
                              + H("security") + H("networking") + H("seller") + H("warranty")
    BY WeightedSum
  <1>3. \A j \in Categories : L(j) \in Nat /\ H(j) \in Nat /\ L(j) <= H(j)
    BY <1>1
  <1> HIDE DEF L, H
  <1> QED
    BY <1>2, <1>3 DEF Categories

\* Everything at its best makes a hundred percent of a full score.
LEMMA WeightedFull ==
  Weighted([j \in Categories |-> Full]) = Full * 100
  <1> DEFINE best == [j \in Categories |-> Full]
  <1>1. \A j \in Categories : best[j] = 100000
    BY FullNat
  <1> HIDE DEF best
  <1>2. Weighted(best) = 100000 * Total(Weights)
    <2>1. /\ best["price"] = 100000 /\ best["cpu"] = 100000 /\ best["memory"] = 100000
          /\ best["storage"] = 100000 /\ best["security"] = 100000 /\ best["networking"] = 100000
          /\ best["seller"] = 100000 /\ best["warranty"] = 100000
      BY <1>1 DEF Categories
    <2>2. /\ Weights["price"] \in Int /\ Weights["cpu"] \in Int /\ Weights["memory"] \in Int
          /\ Weights["storage"] \in Int /\ Weights["security"] \in Int
          /\ Weights["networking"] \in Int /\ Weights["seller"] \in Int /\ Weights["warranty"] \in Int
      BY WeightTypes DEF Categories
    <2>3. Weighted(best) =
            100000 * Weights["price"] + 100000 * Weights["cpu"] + 100000 * Weights["memory"]
              + 100000 * Weights["storage"] + 100000 * Weights["security"]
              + 100000 * Weights["networking"] + 100000 * Weights["seller"]
              + 100000 * Weights["warranty"]
      BY ONLY <2>1, WeightedSum
    <2>4. Total(Weights) = Weights["price"] + Weights["cpu"] + Weights["memory"] + Weights["storage"]
                             + Weights["security"] + Weights["networking"] + Weights["seller"]
                             + Weights["warranty"]
      BY DEF Total
    <2> QED
      BY ONLY <2>2, <2>3, <2>4
  <1> QED
    BY <1>2, WeightTypes, FullNat DEF best

\* Rounding and the trust of a provider.
LEMMA TrustedMonotone ==
  ASSUME NEW n, TotalRange(n), NEW m, TotalRange(m), NEW trust, TrustRange(trust), n <= m
  PROVE  (n * trust + 50) \div 100 <= (m * trust + 50) \div 100
  <1>1. n * trust <= m * trust /\ n * trust \in Nat /\ m * trust \in Nat
    <2>1. n \in Nat /\ m \in Nat /\ trust \in Nat
      BY DEF TotalRange, TrustRange
    <2> QED
      BY <2>1, TimesLess
  <1> QED
    BY <1>1, QuotientMonotone

LEMMA TrustedRange ==
  ASSUME NEW n, TotalRange(n), NEW trust, TrustRange(trust)
  PROVE  TotalRange((n * trust + 50) \div 100)
  <1>1. n \in Nat /\ trust \in Nat /\ n <= 10000 /\ trust <= 100
    BY DEF TotalRange, TrustRange
  <1>2. n * trust \in Nat /\ n * trust <= 10000 * trust
    BY <1>1, TimesLess
  <1>3. n * trust <= 1000000
    BY <1>1, <1>2
  <1> QED
    BY <1>2, <1>3 DEF TotalRange

\* The score of a listing, before its provider's trust.
LEMMA ScoreInt ==
  ASSUME NEW c, Usable(c), NEW l, Scorable(l)
  PROVE  score(c, l) \in Int
  <1> DEFINE w == Weighted(categories(c, l))
  <1>1. w \in Int
    <2>1. \A j \in Categories : categories(c, l)[j] \in Int
      BY CategoryRanges DEF InRange
    <2> QED
      BY <2>1, WeightedInt
  <1>2. score(c, l) = (w + 500) \div 1000
    BY DEF score
  <1> HIDE DEF w
  <1> QED
    BY <1>1, <1>2

LEMMA ScoreRange ==
  ASSUME NonNegative, NEW c, Usable(c), NEW l, Scorable(l)
  PROVE  TotalRange(score(c, l))
  <1> DEFINE best == [j \in Categories |-> Full]
             w == Weighted(categories(c, l))
  <1>1. \A j \in Categories : /\ InRange(categories(c, l)[j]) /\ InRange(best[j])
                              /\ categories(c, l)[j] <= best[j]
    BY CategoryRanges, FullNat DEF InRange
  <1>2. w \in Nat /\ w <= Weighted(best)
    <2> HIDE DEF best
    <2> QED
      BY <1>1, WeightedMonotone
  <1>3. Weighted(best) = 10000000
    BY WeightedFull, FullNat
  <1>4. score(c, l) = (w + 500) \div 1000
    BY DEF score
  <1> HIDE DEF w, best
  <1> QED
    BY <1>2, <1>3, <1>4 DEF TotalRange

LEMMA ScoreMonotone ==
  ASSUME NonNegative, Usable(criteria), NEW l, Scorable(l), NEW k, Scorable(k), AtLeastAsGood(l, k)
  PROVE  score(criteria, k) <= score(criteria, l)
  <1> DEFINE v == Weighted(categories(criteria, k))
             w == Weighted(categories(criteria, l))
  <1>1. v \in Nat /\ w \in Nat /\ v <= w
    BY CategoryRanges, CategoriesMonotone, WeightedMonotone
  <1>2. score(criteria, k) = (v + 500) \div 1000 /\ score(criteria, l) = (w + 500) \div 1000
    BY DEF score
  <1> HIDE DEF v, w
  <1> QED
    BY <1>1, <1>2

\* What it costs to bring a machine to the desired size falls with what it has.
LEMMA CostMonotone ==
  ASSUME NEW desired \in Optional, NEW costs, \A size \in DOMAIN costs : costs[size] \in Nat,
         NEW less \in Int, NEW more \in Int, less <= more
  PROVE  /\ CostTo(desired, less, costs) \in Nat /\ CostTo(desired, more, costs) \in Nat
         /\ CostTo(desired, more, costs) <= CostTo(desired, less, costs)
  <1>1. CASE desired = Null \/ desired \notin DOMAIN costs
    BY <1>1 DEF CostTo
  <1>2. CASE desired # Null /\ desired \in DOMAIN costs
    <2>1. desired \in Nat /\ costs[desired] \in Nat
      BY <1>2 DEF Optional, Positive
    <2>2. /\ CostTo(desired, less, costs) = IF less >= desired THEN 0 ELSE costs[desired]
          /\ CostTo(desired, more, costs) = IF more >= desired THEN 0 ELSE costs[desired]
      BY <1>2 DEF CostTo
    <2> QED
      BY <2>1, <2>2
  <1> QED
    BY <1>1, <1>2

LEMMA UpgradeInt ==
  ASSUME NEW c, NEW l
  PROVE  _upgrade_cost(c, l) \in Int
  <1>1. ASSUME NEW desired, NEW present, NEW costs, \A size \in DOMAIN costs : costs[size] \in Int
        PROVE  CostTo(desired, present, costs) \in Int
    BY <1>1 DEF CostTo
  <1>2. CostTo(c.desired_memory, Value(l, "memory_gb"), RamCost) \in Int
    BY <1>1, CostsAssumption
  <1>3. CostTo(c.desired_storage, Value(l, "storage_gb"), NvmeCost) \in Int
    BY <1>1, CostsAssumption
  <1> QED
    BY <1>2, <1>3 DEF _upgrade_cost

LEMMA CostTypes ==
  ASSUME NonNegative
  PROVE  /\ \A size \in DOMAIN RamCost : RamCost[size] \in Nat
         /\ \A size \in DOMAIN NvmeCost : NvmeCost[size] \in Nat
  BY CostsAssumption DEF NonNegative

LEMMA UpgradeNat ==
  ASSUME NonNegative, NEW c, Usable(c), NEW l, Scorable(l)
  PROVE  _upgrade_cost(c, l) \in Nat
  <1>1. ASSUME NEW desired \in Optional, NEW costs, \A size \in DOMAIN costs : costs[size] \in Nat,
               NEW present \in Int
        PROVE  CostTo(desired, present, costs) \in Nat
    <2>1. present <= present
      OBVIOUS
    <2> QED
      BY <1>1, <2>1, CostMonotone
  <1>2. Value(l, "memory_gb") \in Int /\ Value(l, "storage_gb") \in Int
    BY ValueTypes DEF Attributes
  <1>3. c.desired_memory \in Optional /\ c.desired_storage \in Optional
    BY DEF Usable
  <1>4. CostTo(c.desired_memory, Value(l, "memory_gb"), RamCost) \in Nat
    BY <1>1, <1>2, <1>3, CostTypes
  <1>5. CostTo(c.desired_storage, Value(l, "storage_gb"), NvmeCost) \in Nat
    BY <1>1, <1>2, <1>3, CostTypes
  <1> QED
    BY <1>4, <1>5 DEF _upgrade_cost

LEMMA UpgradeMonotone ==
  ASSUME NonNegative, Usable(criteria), NEW l, Scorable(l), NEW k, Scorable(k), AtLeastAsGood(l, k)
  PROVE  _upgrade_cost(criteria, l) <= _upgrade_cost(criteria, k)
  <1>1. /\ Value(l, "memory_gb") \in Int /\ Value(k, "memory_gb") \in Int
        /\ Value(l, "storage_gb") \in Int /\ Value(k, "storage_gb") \in Int
        /\ Value(k, "memory_gb") <= Value(l, "memory_gb")
        /\ Value(k, "storage_gb") <= Value(l, "storage_gb")
    BY ValueTypes DEF AtLeastAsGood, Attributes
  <1>2. criteria.desired_memory \in Optional /\ criteria.desired_storage \in Optional
    BY DEF Usable
  <1> DEFINE Modules(x) == CostTo(criteria.desired_memory, Value(x, "memory_gb"), RamCost)
             Drives(x) == CostTo(criteria.desired_storage, Value(x, "storage_gb"), NvmeCost)
  <1>3. Modules(l) \in Nat /\ Modules(k) \in Nat /\ Modules(l) <= Modules(k)
    BY <1>1, <1>2, CostMonotone, CostTypes
  <1>4. Drives(l) \in Nat /\ Drives(k) \in Nat /\ Drives(l) <= Drives(k)
    BY <1>1, <1>2, CostMonotone, CostTypes
  <1>5. /\ _upgrade_cost(criteria, l) = Modules(l) + Drives(l)
        /\ _upgrade_cost(criteria, k) = Modules(k) + Drives(k)
    BY DEF _upgrade_cost
  <1> HIDE DEF Modules, Drives
  <1> QED
    BY <1>3, <1>4, <1>5

-----------------------------------------------------------------------------
(* The criteria.                                                           *)

LEMMA OverridesUsable ==
  ASSUME NEW options \in Invocations
  PROVE  Usable(apply_overrides(Config, options))
  <1>1. Config \in Criteria /\ {options.max_price, options.quantity} \subseteq Int \cup {Null}
    BY ServiceAssumption
  <1> DEFINE capped == IF options.max_price = Null THEN Config
                       ELSE [Config EXCEPT !.max_per_unit = options.max_price,
                                           !.preferred_max = IF @ < options.max_price
                                                               THEN @ ELSE options.max_price]
             quantity == Or(options.quantity, capped.quantity_required)
             models == IF options.cpu = Null THEN capped.preferred_models ELSE {options.cpu}
  <1>2. /\ capped.max_per_unit \in Int /\ capped.preferred_max \in Int
        /\ \A field \in {"minimum", "desired_memory", "upgradeable_to", "desired_storage",
                         "nvme_preferred", "preferred_speed"} : capped[field] = Config[field]
        /\ DOMAIN capped = DOMAIN Config
    BY <1>1 DEF Criteria, Positive
  <1>3. apply_overrides(Config, options) =
          [capped EXCEPT !.quantity_required = quantity, !.preferred_models = models]
    BY DEF apply_overrides
  <1>4. /\ DOMAIN Config = {"max_per_unit", "preferred_max", "quantity_required", "preferred_models",
                           "desired_memory", "upgradeable_to", "desired_storage", "nvme_preferred",
                           "preferred_speed", "minimum", "allowed", "excluded"}
        /\ Config.minimum["physical_cores"] \in Optional
        /\ Config.desired_memory \in Optional /\ Config.upgradeable_to \in Optional
        /\ Config.desired_storage \in Optional /\ Config.preferred_speed \in Optional
        /\ Config.nvme_preferred \in BOOLEAN
    BY <1>1 DEF Criteria, Minima
  <1> HIDE DEF capped, quantity, models
  <1> QED
    BY <1>2, <1>3, <1>4 DEF Usable
===============================================================================

----------------------------- MODULE DealScoring -----------------------------
(***************************************************************************)
(* scoring.py.  Floats become integers: a category's score is counted in     *)
(* thousandths of a point and cut off there, a weight in percent; the total  *)
(* is in hundredths of a point, as round(total, 2) leaves it, ties aside.    *)
(* c is a criteria object of config.py, l a listing.                         *)
(***************************************************************************)
EXTENDS HardwareListing

CONSTANTS Weights,      \* ScoringWeights, in percent
          RamCost,      \* UpgradeCosts: per size what the modules cost
          NvmeCost

Categories == {"price", "cpu", "memory", "storage", "security", "networking", "seller", "warranty"}

\* SearchCriteria's validators; what the score and the filters do not read is left out.
Positive == Nat \ {0}
Optional == Positive \cup {Null}
Minima == {least \in [Attributes -> Nat \cup {Null}] :
             /\ \A a \in {"physical_cores", "threads", "memory_gb", "storage_gb",
                         "ethernet_speed_gbps"} : least[a] \in Optional
             /\ least["seller_rating_percent"] \in (0 .. 100) \cup {Null}}
Criteria ==
  [max_per_unit : Positive, preferred_max : Positive, quantity_required : Positive,
   preferred_models : SUBSET STRING, desired_memory : Optional, upgradeable_to : Optional,
   desired_storage : Optional, nvme_preferred : BOOLEAN, preferred_speed : Optional,
   minimum : Minima, allowed : SUBSET STRING, excluded : SUBSET STRING]

Total(of) == of["price"] + of["cpu"] + of["memory"] + of["storage"]
               + of["security"] + of["networking"] + of["seller"] + of["warranty"]

weights_total_one == Total(Weights) = 100

\* All that the validators check: a weight or a cost may be negative.
ASSUME WeightsAssumption ==
  /\ Weights \in [Categories -> Int]
  /\ weights_total_one
ASSUME CostsAssumption ==
  /\ \A size \in DOMAIN RamCost : RamCost[size] \in Int
  /\ \A size \in DOMAIN NvmeCost : NvmeCost[size] \in Int

-----------------------------------------------------------------------------

Point == 1000
Full == 100 * Point

Value(l, a) == IF l.attrs[a] = Null THEN 0 ELSE l.attrs[a]
Or(value, default) == IF value = Null THEN default ELSE value

\* Defect: a ratio is not cut off at 100.
RatioUncut(value, target) ==
  IF target = 0 THEN Full ELSE IF value < 0 THEN 0 ELSE (value * Full) \div target

\* A price that is scored lies between the preferred and the highest one, so that no
\* target is negative.
_ratio(value, target) ==
  IF target = 0 THEN Full
  ELSE IF value < 0 THEN 0
  ELSE IF value > target THEN Full
  ELSE (value * Full) \div target

Bonus(score) == IF score + 25 * Point > Full THEN Full ELSE score + 25 * Point

PriceScore(c, l) ==
  IF l.price <= c.preferred_max THEN Full
  ELSE _ratio(c.max_per_unit - l.price, c.max_per_unit - c.preferred_max)

CpuScore(c, l) ==
  IF l.cpu \in c.preferred_models THEN Full
  ELSE _ratio(Value(l, "physical_cores"), Or(c.minimum["physical_cores"], 1))

\* Defect: the bonus is for machines that cannot be upgraded.
MemoryScoreSwapped(c, l) ==
  LET score == _ratio(Value(l, "memory_gb"), Or(c.desired_memory, 1))
  IN  IF Value(l, "max_memory_gb") >= Or(c.upgradeable_to, 10 ^ 9) THEN score ELSE Bonus(score)

MemoryScore(c, l) ==
  LET score == _ratio(Value(l, "memory_gb"), Or(c.desired_memory, 1))
  IN  IF Value(l, "max_memory_gb") >= Or(c.upgradeable_to, 10 ^ 9) THEN Bonus(score) ELSE score

StorageScore(c, l) ==
  LET score == _ratio(Value(l, "storage_gb"), Or(c.desired_storage, 1))
  IN  IF c.nvme_preferred /\ l.nvme THEN Bonus(score) ELSE score

\* A quarter for each of the three features and for any enterprise feature.
SecurityScore(l) ==
  25 * Point * (Value(l, "tpm_2") + Value(l, "secure_boot") + Value(l, "virtualization")
                  + (IF l.features = {} THEN 0 ELSE 1))

categories(c, l) ==
  [price      |-> PriceScore(c, l),
   cpu        |-> CpuScore(c, l),
   memory     |-> MemoryScore(c, l),
   storage    |-> StorageScore(c, l),
   security   |-> SecurityScore(l),
   networking |-> _ratio(Value(l, "ethernet_speed_gbps"), Or(c.preferred_speed, 1)),
   seller     |-> Value(l, "seller_rating_percent") * Point,
   warranty   |-> 50 * Point * l.cover]

Weighted(scores) == Total([k \in Categories |-> scores[k] * Weights[k]])

\* Thousandths of a point times percent, rounded to hundredths of a point.
score(c, l) == (Weighted(categories(c, l)) + 500) \div 1000

\* The totals that ScoreBreakdown and ClusterDeal accept: 0 to 100 points.
OnScale(total) == 0 <= total /\ total <= 10000

\* What it costs to bring the machine to the desired size; 0 where no price is known.
CostTo(desired, present, costs) ==
  IF desired = Null \/ present >= desired \/ desired \notin DOMAIN costs THEN 0 ELSE costs[desired]

_upgrade_cost(c, l) ==
  CostTo(c.desired_memory, Value(l, "memory_gb"), RamCost)
    + CostTo(c.desired_storage, Value(l, "storage_gb"), NvmeCost)
==============================================================================

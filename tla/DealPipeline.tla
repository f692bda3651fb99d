---------------------------- MODULE DealPipeline ----------------------------
(***************************************************************************)
(* The pure part of a search: deduplication, enrichment, the hard filter,    *)
(* the ranking and the cluster plans, over the listings of HardwareListing   *)
(* and the criteria of DealScoring.                                         *)
(***************************************************************************)
EXTENDS DealScoring

CONSTANTS MachineFacts,   \* per title: the [maker, attrs] of the first pattern that matches, or Null
          CpuFacts        \* per CPU: its [attrs, features], or Null

\* The two tables know different attributes; a feature's evidence has a key of its own.
ASSUME FactsAssumption ==
  /\ \A t \in DOMAIN MachineFacts : MachineFacts[t] # Null =>
       /\ MachineFacts[t].maker # Null
       /\ IsAttributes(MachineFacts[t].attrs)
       /\ \A a \in Attributes \ {"max_memory_gb", "tpm_2", "secure_boot"} :
            MachineFacts[t].attrs[a] = Null
  /\ \A cpu \in DOMAIN CpuFacts : CpuFacts[cpu] # Null =>
       /\ IsAttributes(CpuFacts[cpu].attrs) /\ IsNode(CpuFacts[cpu].attrs)
       /\ \A a \in Attributes \ {"physical_cores", "threads", "virtualization"} :
            CpuFacts[cpu].attrs[a] = Null
       /\ CpuFacts[cpu].features \cap (Attributes \cup {"maker"}) = {}

\* The tables say of its title and of its CPU what they know.
Described(l) == l.title \in DOMAIN MachineFacts /\ l.cpu \in DOMAIN CpuFacts

-----------------------------------------------------------------------------
(* deduplication.py                                                        *)

listing_fingerprint(l) ==
  <<l.maker, l.cpu, l.attrs["memory_gb"], l.attrs["storage_gb"], l.seller, l.price>>

\* The first listing of each fingerprint is kept, in the order they came.
deduplicate(listings) ==
  Filtered(listings, {i \in DOMAIN listings : \A j \in 1 .. i - 1 :
                        listing_fingerprint(listings[j]) # listing_fingerprint(listings[i])})

-----------------------------------------------------------------------------
(* enrichment.py: what the title and then the CPU tell fills what the       *)
(* listing leaves open.                                                    *)

Known(value, fact) == IF value = Null THEN fact ELSE value

Filled(attrs, facts) == [a \in Attributes |-> Known(attrs[a], facts[a])]

\* Defect: provenance is recorded for whatever the facts know.
GapsAll(attrs, facts) == {a \in Attributes : facts[a] # Null}

Gaps(attrs, facts) == {a \in Attributes : attrs[a] = Null /\ facts[a] # Null}

\* provenance[field] = evidence
Evidence(provenance, fields, source) ==
  {e \in provenance : e.field \notin fields} \cup {[field |-> f, source |-> source] : f \in fields}

_enrich_machine(l) ==
  LET facts == MachineFacts[l.title]
      named == IF l.maker = Null THEN {"maker"} ELSE {}
  IN  IF facts = Null THEN l
      ELSE [l EXCEPT !.maker = Known(@, facts.maker),
                     !.attrs = Filled(@, facts.attrs),
                     !.provenance = Evidence(Evidence(@, named, "inferred"),
                                             Gaps(l.attrs, facts.attrs), "manufacturer_spec")]

_enrich_cpu(l) ==
  LET facts == CpuFacts[l.cpu]
  IN  IF facts = Null THEN l
      ELSE [l EXCEPT !.attrs = Filled(@, facts.attrs),
                     !.features = @ \cup facts.features,
                     !.provenance = Evidence(@, Gaps(l.attrs, facts.attrs) \cup (facts.features \ l.features),
                                             "cpu_database")]

enrich(l) == _enrich_cpu(_enrich_machine(l))

-----------------------------------------------------------------------------
(* filtering.py: a known value must meet the requirement; an unknown one    *)
(* passes with a warning.                                                  *)

Meets(value, least) == value = Null \/ least = Null \/ value >= least

evaluate(c, l, enforce_quantity) ==
  /\ l.price <= c.max_per_unit
  /\ l.title \notin c.excluded
  /\ l.condition = Null \/ c.allowed = {} \/ l.condition \in c.allowed
  /\ enforce_quantity => Meets(l.stock, c.quantity_required)
  /\ \A a \in Attributes : Meets(l.attrs[a], c.minimum[a])

\* An unknown quantity has no warning here; the score's explanation mentions it.
warnings(c, l) == {a \in Attributes : c.minimum[a] # Null /\ l.attrs[a] = Null}

-----------------------------------------------------------------------------
(* service.py: the ranking.                                                *)

\* Defect: reverse=True is forgotten.
ByScoreAscending(scored) ==
  Sorted(scored, {p \in PlacePairs(scored) : scored[p[1]].score < scored[p[2]].score})

\* ranked.sort(key=..., reverse=True), which is stable as well.
ByScore(scored) ==
  Sorted(scored, {p \in PlacePairs(scored) : scored[p[1]].score > scored[p[2]].score})

-----------------------------------------------------------------------------
(* cluster.py                                                              *)

\* Without a maker (manufacturer and model, which are known or unknown together) the
\* title stands in for it.
configuration_key(l) ==
  <<IF l.maker = Null THEN <<"title", l.title>> ELSE <<"maker", l.maker>>,
    l.cpu, l.attrs["physical_cores"], l.attrs["threads"], l.attrs["memory_gb"],
    l.attrs["storage_gb"], l.nvme, l.condition>>

InStock(scored) == {n \in DOMAIN scored : scored[n].listing.stock \notin {Null, 0}}

OfConfiguration(scored, key) ==
  Filtered(scored, {n \in InStock(scored) : configuration_key(scored[n].listing) = key})

\* Defect: listings are taken in the order they come.
AsTheyCome(group) == group

CheapestFirst(group) ==
  Sorted(group, {p \in PlacePairs(group) :
                   group[p[1]].listing.price < group[p[2]].listing.price})

\* Take from the cheapest listing all it has, then from the next, until the plan
\* is complete.
Quantities(ordered, required) ==
  LET stock == [n \in DOMAIN ordered |-> ordered[n].listing.stock]
      Left(n) == required - SumTo(stock, n - 1)
  IN  [n \in DOMAIN ordered |-> IF Left(n) <= 0 THEN 0
                                ELSE IF stock[n] < Left(n) THEN stock[n] ELSE Left(n)]

\* The score is rounded to two places; ties of round() are left aside.
PlanFrom(ordered, required) ==
  LET quantity == Quantities(ordered, required)
      Sum(Of(_)) == SumTo([n \in DOMAIN ordered |-> Of(ordered[n]) * quantity[n]], Len(ordered))
      used == {n \in DOMAIN ordered : quantity[n] > 0}
  IN  [configuration |-> configuration_key(ordered[1].listing),
       allocations   |-> [n \in 1 .. Cardinality(used) |->
                            [listing |-> ordered[n].listing, quantity |-> quantity[n]]],
       hardware_cost |-> Sum(LAMBDA x : x.listing.price),
       upgrade_cost  |-> Sum(LAMBDA x : x.upgrade),
       score         |-> (Sum(LAMBDA x : x.score) + required \div 2) \div required]

\* The plans that ClusterDeal refuses with a ValidationError; the cheapest listing tells
\* what each node has.
Refuses(deal) ==
  \/ ~IsNode(deal.allocations[1].listing.attrs)
  \/ deal.upgrade_cost < 0
  \/ ~OnScale(deal.score)

\* The configurations in the order in which the candidates mention them.
Configurations(scored) ==
  LET key == [n \in DOMAIN scored |-> configuration_key(scored[n].listing)]
  IN  Filtered(key, {n \in InStock(scored) : \A m \in InStock(scored) : m < n => key[m] # key[n]})

Complete(scored, key, required) ==
  LET group == OfConfiguration(scored, key)
  IN  SumTo([n \in DOMAIN group |-> group[n].listing.stock], Len(group)) >= required

\* key=lambda deal: (-deal.score, deal.total_cost)
Better(d, e) ==
  \/ d.score > e.score
  \/ d.score = e.score /\ d.hardware_cost + d.upgrade_cost < e.hardware_cost + e.upgrade_cost

build_cluster_deals(scored, required) ==
  LET all   == Configurations(scored)
      keys  == Filtered(all, {n \in DOMAIN all : Complete(scored, all[n], required)})
      deals == [n \in DOMAIN keys |->
                  PlanFrom(CheapestFirst(OfConfiguration(scored, keys[n])), required)]
  IN  Sorted(deals, {p \in PlacePairs(deals) : Better(deals[p[1]], deals[p[2]])})
=============================================================================

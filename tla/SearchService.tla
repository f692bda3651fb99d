---------------------------- MODULE SearchService ----------------------------
(***************************************************************************)
(* One search: what _search of cli.py prepares (overrides, selected sites,   *)
(* plugins, providers), then SearchService.search of service.py: the enabled *)
(* providers are searched concurrently, each behind an isolation boundary;   *)
(* when all have ended the pipeline runs over their listings, in the         *)
(* configured order and without another suspension, up to the run that is    *)
(* handed to save_run.  Marketplaces and plugins are external: they answer   *)
(* or fail, in any order.                                                   *)
(***************************************************************************)
EXTENDS DealPipeline, Providers, Functions

CONSTANTS Config,        \* search.yaml: the criteria
          Sites,         \* sites.yaml, in its order
          Plugins,       \* what the entry points may be: sequences of [name, loads]
          Invocations,   \* the options: [provider, max_price, quantity, cpu], Null where not given
          Responses      \* per site name: what its marketplace may answer

VARIABLES args,         \* the options of this invocation, or Null
          criteria,     \* config.search after the overrides
          providers,    \* the enabled providers, in configured order
          answer,       \* per provider: [status, found] once its search has ended
          phase,        \* "invoked", "refused", "searching", "returned" or "raised"
          run           \* the SearchRun it returned, or Null

commandVars == <<args, criteria, providers>>
serviceVars == <<commandVars, answer, phase, run>>

Names == {providers[n].name : n \in DOMAIN providers}
Provider(name) == CHOOSE p \in {providers[n] : n \in DOMAIN providers} : p.name = name

\* SiteConfig's validators; sites.yaml is a mapping by name.
ValidSites ==
  /\ IsList(Sites)
  /\ \A i, j \in DOMAIN Sites : Sites[i].name = Sites[j].name => i = j
  /\ \A i \in DOMAIN Sites :
       Sites[i] \in [name : STRING, provider : STRING \cup {Null}, enabled : BOOLEAN,
                    trust : 0 .. 100, max_listings : Positive]

ASSUME ServiceAssumption ==
  /\ Config \in Criteria /\ ValidSites
  /\ Null \notin Int
  /\ \A entry_points \in Plugins : IsList(entry_points)
  /\ \A options \in Invocations : {options.max_price, options.quantity} \subseteq Int \cup {Null}

\* An adapter reads payloads, and has no reason to call its site unsupported; a plugin
\* returns listings, or what is no list at all.
IsAdapted(site) ==
  /\ Or(site.provider, site.name) \in DOMAIN BuiltIn
  /\ BuiltIn[Or(site.provider, site.name)] \in {"ebay", "generic"}

ASSUME ResponsesAssumption ==
  /\ \A t \in DOMAIN Titles : t \in DOMAIN MachineFacts /\ Titles[t].cpu \in DOMAIN CpuFacts
  /\ \A n \in DOMAIN Sites : \A response \in Responses[Sites[n].name] :
       IF IsAdapted(Sites[n])
         THEN /\ response.status # "unsupported"
              /\ IsList(response.items)
              /\ \A i \in DOMAIN response.items : IsPayload(response.items[i])
         ELSE \/ response.items = Null
              \/ /\ IsList(response.items)
                 /\ \A i \in DOMAIN response.items :
                      IsListing(response.items[i]) /\ Described(response.items[i])

-----------------------------------------------------------------------------

ServiceInit ==
  /\ args = Null
  /\ criteria = Config
  /\ providers = <<>>
  /\ answer = <<>>
  /\ phase = "invoked"
  /\ run = Null

\* Defect: --quantity changes a copy that is thrown away.
OverridesButQuantity(c, options) ==
  [c EXCEPT !.max_per_unit = IF options.max_price = Null THEN @ ELSE options.max_price]

\* The maximum is assigned unchecked (PriceCriteria does not validate assignments).
apply_overrides(c, options) ==
  LET capped == IF options.max_price = Null THEN c
                ELSE [c EXCEPT !.max_per_unit = options.max_price,
                               !.preferred_max = IF @ < options.max_price THEN @ ELSE options.max_price]
  IN  [capped EXCEPT !.quantity_required = Or(options.quantity, @),
                     !.preferred_models = IF options.cpu = Null THEN @ ELSE {options.cpu}]

\* validate_assignment: a quantity below 1 is a ValidationError.
Refused(options, factories) ==
  \/ options.quantity # Null /\ options.quantity < 1
  \/ _select_sites(Sites, options.provider) = Null
  \/ factories = Null

\* _search up to the service: any refusal ends the invocation, and nothing is searched.
Prepare(options, entry_points) ==
  /\ phase = "invoked"
  /\ args' = options
  /\ LET factories == discover_provider_plugins(entry_points)
     IN  \/ /\ Refused(options, factories)
            /\ phase' = "refused"
            /\ UNCHANGED <<criteria, providers, answer>>
         \/ /\ ~Refused(options, factories)
            /\ phase' = "searching"
            /\ criteria' = apply_overrides(criteria, options)
            /\ providers' = create_enabled_providers(_select_sites(Sites, options.provider), factories)
            /\ answer' = [name \in {providers'[n].name : n \in DOMAIN providers'} |-> Null]
  /\ UNCHANGED run

\* A provider's search ends, and _safe_search turns what it raises into a status.
SafeSearch(name, response) ==
  /\ phase = "searching"
  /\ answer[name] = Null
  /\ ~Unmeasurable(Provider(name), response)
  /\ answer' = [answer EXCEPT ![name] = Outcome(Provider(name), response)]
  /\ UNCHANGED <<commandVars, phase, run>>

\* len(listings) stands outside the try: gather raises at once, whatever the others do.
RaiseUnmeasured(name, response) ==
  /\ phase = "searching"
  /\ answer[name] = Null
  /\ Unmeasurable(Provider(name), response)
  /\ phase' = "raised"
  /\ UNCHANGED <<commandVars, answer, run>>

\* Defect: a failed provider takes those before it with it.
ListingsSinceFailure ==
  LET upTo[n \in 0 .. Len(providers)] ==
        IF n = 0 THEN <<>>
        ELSE IF answer[providers[n].name].status \in Failures THEN <<>>
        ELSE upTo[n - 1] \o answer[providers[n].name].found
  IN  upTo[Len(providers)]

\* gather returns the outputs in the order of the providers, not of the answers.
Listings == Chained([n \in DOMAIN providers |-> answer[providers[n].name].found])

Deduplicated == deduplicate(Listings)
Enriched == LET unique == Deduplicated IN [n \in DOMAIN unique |-> enrich(unique[n])]

\* score() and _apply_trust(); round(total * weight, 2), its ties left aside.  noted is
\* what raw_attributes holds under "warnings".
Scored(l, noted) == [listing  |-> l,
                     score    |-> (score(criteria, l) * Provider(l.provider).trust + 50) \div 100,
                     upgrade  |-> _upgrade_cost(criteria, l),
                     warnings |-> noted]

Passing(listings, enforce_quantity) ==
  Filtered(listings, {n \in DOMAIN listings : evaluate(criteria, listings[n], enforce_quantity)})

Candidates == Passing(Enriched, FALSE)
Accepted == Passing(Candidates, TRUE)

\* The loop scores every candidate right after it has noted its warnings.
Observed ==
  LET candidates == Candidates
  IN  [n \in DOMAIN candidates |-> Scored(candidates[n], warnings(criteria, candidates[n]))]

\* What the loop leaves noted for l: the warnings of the last candidate that shares its
\* raw_attributes.
Noted(candidates, l) ==
  LET sharing == {n \in DOMAIN candidates : candidates[n].raw = l.raw}
  IN  warnings(criteria, candidates[CHOOSE n \in sharing : \A m \in sharing : m <= n])

\* The accepted listings are scored again after the loop.
Ranked ==
  LET candidates == Candidates
      accepted == Passing(candidates, TRUE)
  IN  ByScore([n \in DOMAIN accepted |-> Scored(accepted[n], Noted(candidates, accepted[n]))])

ClusterDeals == build_cluster_deals(Observed, criteria.quantity_required)

\* Defect: a listing with too few units is neither ranked nor counted.
RejectedBySpecification == Len(Enriched) - Len(Candidates)

Rejected == Len(Enriched) - Len(Accepted)

\* _apply_trust finds no provider of that name: next() raises a StopIteration, which
\* the coroutine turns into a RuntimeError.
Mislabelled == LET candidates == Candidates
               IN  \E n \in DOMAIN candidates : candidates[n].provider \notin Names

\* A ScoreBreakdown out of 0 to 100 is a ValidationError.
OffScale == LET candidates == Candidates
            IN  \E n \in DOMAIN candidates : ~OnScale(score(criteria, candidates[n]))

\* What search() raises outside _safe_search: in the loop, or from a plan.
Fails ==
  IF Mislabelled \/ OffScale THEN TRUE
  ELSE LET deals == ClusterDeals IN \E d \in DOMAIN deals : Refuses(deals[d])

\* The provider's line of provider_results.
Status(p) == [status |-> answer[p].status, listing_count |-> Len(answer[p].found)]

SearchRun ==
  [ranked           |-> Ranked,
   cluster_deals    |-> ClusterDeals,
   observed         |-> Observed,
   provider_results |-> [p \in Names |-> Status(p)],
   rejected_count   |-> Rejected]

Raise ==
  /\ Fails
  /\ phase' = "raised"
  /\ UNCHANGED run

Return ==
  /\ ~Fails
  /\ phase' = "returned"
  /\ run' = SearchRun

\* search() after gather: no suspension until the run goes to save_run.
Assemble ==
  /\ phase = "searching"
  /\ \A p \in Names : answer[p] # Null
  /\ Raise \/ Return
  /\ UNCHANGED <<commandVars, answer>>

ServiceNext ==
  \/ \E options \in Invocations, entry_points \in Plugins : Prepare(options, entry_points)
  \/ \E p \in Names : \E response \in Responses[p] : SafeSearch(p, response) \/ RaiseUnmeasured(p, response)
  \/ Assemble

ServiceSpec == ServiceInit /\ [][ServiceNext]_serviceVars

-----------------------------------------------------------------------------
(* Properties.                                                             *)

Done == phase = "returned"
ListingsOf(scored) == {scored[n].listing : n \in DOMAIN scored}

\* No other observed listing shares l's raw_attributes.
Unshared(l) ==
  \A n, m \in DOMAIN run.observed :
    run.observed[n].listing.raw = l.raw /\ run.observed[m].listing.raw = l.raw => n = m

\* What the store relies on: every ranked result is among the observed ones, with the
\* same score and cost although it was scored twice, and with the same warnings unless
\* its raw_attributes are shared; and the best come first.
RankedIsObserved ==
  Done =>
    /\ \A n \in DOMAIN run.ranked : \E m \in DOMAIN run.observed :
         LET x == run.ranked[n]
             y == run.observed[m]
         IN  /\ x.listing = y.listing /\ x.score = y.score /\ x.upgrade = y.upgrade
             /\ Unshared(x.listing) => x.warnings = y.warnings
    /\ \A n \in 1 .. Len(run.ranked) - 1 : run.ranked[n].score >= run.ranked[n + 1].score

\* No listing disappears silently: what the providers returned is ranked, rejected
\* or a duplicate of one that comes before it in the configured order.
EveryListingAccounted ==
  Done =>
    LET raw == Listings
        duplicate(n) == \E m \in 1 .. n - 1 : listing_fingerprint(raw[m]) = listing_fingerprint(raw[n])
        kept == {n \in DOMAIN raw : ~duplicate(n)}
    IN  /\ Cardinality(kept) = Len(run.ranked) + run.rejected_count
        /\ ListingsOf(run.observed) =
             {enrich(raw[n]) : n \in {n \in kept : evaluate(criteria, enrich(raw[n]), FALSE)}}

\* What the providers returned, as pairs of a provider's place and a listing's.
Offers == UNION {{<<i, j>> : j \in DOMAIN answer[providers[i].name].found} : i \in DOMAIN providers}
Offered(o) == answer[providers[o[1]].name].found[o[2]]
Before(o, p) == o[1] < p[1] \/ (o[1] = p[1] /\ o[2] < p[2])

\* What is ranked follows from what the providers returned and their configured order
\* alone: of the offers with one fingerprint the first, if it is eligible with its
\* quantity, and nothing else; another provider's failure takes none away.
FirstOffersRanked ==
  Done =>
    LET offers == Offers
        fingerprint == [o \in offers |-> listing_fingerprint(Offered(o))]
        first == {o \in offers : \A p \in offers : Before(p, o) => fingerprint[p] # fingerprint[o]}
    IN  ListingsOf(run.ranked) =
          {enrich(Offered(o)) : o \in {o \in first : evaluate(criteria, enrich(Offered(o)), TRUE)}}

\* An eligible listing is not lost to another provider's failure, nor to a listing
\* it merely resembles: it is observed, or one that counts as its duplicate is.
EligibleSurvive ==
  Done => \A p \in Names : \A n \in DOMAIN answer[p].found :
            LET l == answer[p].found[n]
                same == {k \in UNION {{answer[q].found[m] : m \in DOMAIN answer[q].found} : q \in Names} :
                           listing_fingerprint(k) = listing_fingerprint(l)}
            IN  evaluate(criteria, enrich(l), FALSE) =>
                  \E k \in same : enrich(k) \in ListingsOf(run.observed)

\* Every way to take the required number of nodes from a group of observed listings.
Plans(group) == {f \in [group -> 0 .. criteria.quantity_required] :
                   /\ \A n \in group : f[n] <= run.observed[n].listing.stock
                   /\ SumFunction(f) = criteria.quantity_required}

CostOf(f) ==
  SumFunction([n \in DOMAIN f |->
                 LET l == run.observed[n].listing IN f[n] * (l.price + _upgrade_cost(criteria, l))])

\* The allocations name a listing each, with what is taken of it, and leave none out.
Allocates(allocations, taken) ==
  \E place \in Injection(DOMAIN allocations, DOMAIN taken) :
    /\ \A a \in DOMAIN allocations : /\ allocations[a].listing = run.observed[place[a]].listing
                                      /\ allocations[a].quantity = taken[place[a]]
    /\ \A n \in DOMAIN taken : taken[n] > 0 => \E a \in DOMAIN allocations : place[a] = n

\* A cluster plan exists exactly for the configurations with enough known stock; it
\* is complete, takes no more than each seller has, does not mix configurations,
\* and no other way to fill it from the same configuration costs less.
ClusterPlansCheapest ==
  Done =>
    LET stocked == {n \in DOMAIN run.observed : run.observed[n].listing.stock \notin {Null, 0}}
        key == [n \in stocked |-> configuration_key(run.observed[n].listing)]
        group(k) == {n \in stocked : key[n] = k}
        planned == {run.cluster_deals[d].configuration : d \in DOMAIN run.cluster_deals}
    IN  /\ planned = {k \in {key[n] : n \in stocked} : Plans(group(k)) # {}}
        /\ \A d \in DOMAIN run.cluster_deals :
             LET deal == run.cluster_deals[d]
                 plans == Plans(group(deal.configuration))
             IN  \E taken \in plans :
                   /\ Allocates(deal.allocations, taken)
                   /\ deal.hardware_cost + deal.upgrade_cost = CostOf(taken)
                   /\ \A f \in plans : CostOf(taken) <= CostOf(f)

\* The request reaches every step: what is ranked comes from a site that was asked for,
\* costs no more than was asked for and is not known to be too few; a cluster plan has
\* as many nodes as were asked for.
RankedMeetsRequest ==
  Done =>
    LET quantity == Or(args.quantity, Config.quantity_required)
        Nodes(deal) == SumTo([n \in DOMAIN deal.allocations |-> deal.allocations[n].quantity],
                             Len(deal.allocations))
    IN  /\ \A l \in ListingsOf(run.ranked) :
             /\ args.provider # {} => l.provider \in args.provider
             /\ l.price <= Or(args.max_price, Config.max_per_unit)
             /\ l.stock = Null \/ l.stock >= quantity
        /\ \A d \in DOMAIN run.cluster_deals : Nodes(run.cluster_deals[d]) = quantity

\* Every site that was asked for, or is enabled when none was, has its line in the
\* diagnostics; one whose implementation is built in is served by it, whatever the
\* entry points register.  A site without a factory or with a restricted one is
\* "unsupported", one that an adapter serves is not; a plugin may say so of itself.
SitesServed ==
  Done =>
    LET asked == {n \in DOMAIN Sites : IF args.provider = {} THEN Sites[n].enabled
                                       ELSE Sites[n].name \in args.provider}
        Built(site) == Or(site.provider, site.name)
    IN  /\ DOMAIN run.provider_results = {Sites[n].name : n \in asked}
        /\ \A n \in asked :
             LET line == run.provider_results[Sites[n].name]
                 p == Provider(Sites[n].name)
             IN  /\ Built(Sites[n]) \in DOMAIN BuiltIn => p.kind = BuiltIn[Built(Sites[n])]
                 /\ p.kind # "plugin" => (line.status = "unsupported" <=> Unsupported(p))
                 /\ line.listing_count > 0 => line.status = "available"

\* An observed listing is what a provider returned, completed and never contradicted:
\* an attribute and its evidence are the provider's, or it stated none and the evidence
\* is that of the table that fills it; enriching it again changes nothing.
EnrichedHonest ==
  Done => \A l \in ListingsOf(run.observed) : \E n \in DOMAIN Listings :
            LET raw == Listings[n]
                evidence(k, a) == {e \in k.provenance : e.field = a}
            IN  /\ \A f \in {"provider", "id", "title", "cpu", "condition", "price", "stock", "seller"} :
                     l[f] = raw[f]
                /\ raw.maker # Null => l.maker = raw.maker
                /\ \A a \in Attributes :
                     \/ l.attrs[a] = raw.attrs[a] /\ evidence(l, a) = evidence(raw, a)
                     \/ /\ raw.attrs[a] = Null /\ l.attrs[a] # Null
                        /\ \E source \in {"manufacturer_spec", "cpu_database"} :
                             evidence(l, a) = {[field |-> a, source |-> source]}
                /\ enrich(l) = l

\* A title that names its memory and its storage in sizes that only one of them comes in
\* is read right in either order, and what it does not mention stays unknown.
CapacitiesHonest ==
  Done => \A p \in Names : Provider(p).kind # "plugin" => \A i \in DOMAIN answer[p].found :
            LET l == enrich(answer[p].found[i])
                sizes == Titles[l.title].sizes
                Of(what) == {n \in DOMAIN sizes : sizes[n].of = what}
                InGB(n) == IF sizes[n].unit = "TB" THEN 1000 * sizes[n].amount ELSE sizes[n].amount
                plain == DOMAIN sizes = Of("memory") \cup Of("storage")
                           /\ (\A n \in Of("memory") : /\ sizes[n].unit = "GB"
                                                       /\ sizes[n].amount \in MemorySizes \ StorageSizes)
                           /\ \A n \in Of("storage") : sizes[n].amount \in StorageSizes \ MemorySizes
                Read(value, what) == IF Of(what) = {} THEN value = Null
                                     ELSE \E n \in Of(what) : value = InGB(n)
            IN  plain => Read(l.attrs["memory_gb"], "memory") /\ Read(l.attrs["storage_gb"], "storage")

\* What the configuration's validators leave open and the shipped one keeps to.
NonNegative ==
  /\ \A k \in Categories : Weights[k] >= 0
  /\ \A size \in DOMAIN RamCost : RamCost[size] >= 0
  /\ \A size \in DOMAIN NvmeCost : NvmeCost[size] >= 0

\* p is a plugin and returned no list, or a listing of a provider that is not searched
\* or of a machine without cores, threads or memory.
Faulty(p) ==
  /\ Provider(p).kind = "plugin"
  /\ \/ answer[p] = Null
     \/ \E n \in DOMAIN answer[p].found :
          answer[p].found[n].provider \notin Names \/ ~IsNode(answer[p].found[n].attrs)

\* Scores and plans are always ones that ScoreBreakdown and ClusterDeal accept: nothing
\* but a plugin that breaks the provider contract makes the whole search fail.
OnlyPluginsFailSearch == phase = "raised" => \E p \in Names : Faulty(p)

\* l is at least as good as k in everything that is scored.
AtLeastAsGood(l, k) ==
  /\ l.price <= k.price
  /\ k.cpu \in criteria.preferred_models => l.cpu \in criteria.preferred_models
  /\ \A a \in Attributes \ {"threads", "seller_feedback_count"} : Value(l, a) >= Value(k, a)
  /\ k.nvme => l.nvme
  /\ k.features # {} => l.features # {}
  /\ l.cover >= k.cover

\* A listing that is at least as good as another of the same provider in every respect
\* never scores lower, and it does not cost more to upgrade.
DominanceRespected ==
  Done => \A n, m \in DOMAIN run.observed :
            LET x == run.observed[n]
                y == run.observed[m]
            IN  x.listing.provider = y.listing.provider /\ AtLeastAsGood(x.listing, y.listing)
                  => x.score >= y.score /\ x.upgrade <= y.upgrade

\* Two observed listings differ in what deduplication compares.
ObservedDistinct ==
  Done => \A n, m \in DOMAIN run.observed :
            listing_fingerprint(run.observed[n].listing) = listing_fingerprint(run.observed[m].listing)
              => n = m

\* Whatever a provider plugin does, search() itself does not fail.
ProvidersIsolated == phase # "raised"
=============================================================================

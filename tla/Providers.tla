------------------------------ MODULE Providers ------------------------------
(***************************************************************************)
(* From sites.yaml to provider objects (registry.py, _select_sites of        *)
(* cli.py), and from what a marketplace answers to a provider's listings     *)
(* (ebay.py, generic.py, restricted.py, and the mapping of exceptions to     *)
(* statuses in _safe_search).  A site is [name, provider, enabled, trust,    *)
(* max_listings], where provider is the implementation it is an alias of.    *)
(***************************************************************************)
EXTENDS Normalization

CONSTANT BuiltIn      \* _FACTORIES after the imports: per name "ebay", "generic", "restricted"
                       \* or "plugin" (a factory whose provider returns listings as it likes)

ASSUME FactoriesAssumption ==
  \A name \in DOMAIN BuiltIn : BuiltIn[name] \in {"ebay", "generic", "restricted", "plugin"}

SiteNames(sites) == {sites[n].name : n \in DOMAIN sites}

\* Null: the ValueError for a name that the configuration does not have.  A site that
\* is asked for by name is searched even if it is disabled.
_select_sites(sites, names) ==
  IF names = {} THEN sites
  ELSE IF ~(names \subseteq SiteNames(sites)) THEN Null
  ELSE [n \in DOMAIN sites |-> [sites[n] EXCEPT !.enabled = sites[n].name \in names]]

\* Defect: an entry point replaces a factory of the same name.
Taken(name, factories) == FALSE

Registered(name, factories) == name \in DOMAIN factories

\* _FACTORIES[name] = factory
WithPlugin(name, factories) ==
  [n \in DOMAIN factories \cup {name} |-> IF n = name THEN "plugin" ELSE factories[n]]

\* The entry points in turn: a name that is taken is passed over without loading it.
\* Null: what load() raises, or the TypeError for what is not callable.
discover_provider_plugins(entry_points) ==
  LET after[n \in 0 .. Len(entry_points)] ==
        IF n = 0 THEN BuiltIn
        ELSE LET factories == after[n - 1]
                 entry == entry_points[n]
             IN  IF factories = Null THEN Null
                 ELSE IF Registered(entry.name, factories) THEN factories
                 ELSE IF entry.loads THEN WithPlugin(entry.name, factories)
                 ELSE Null
  IN  after[Len(entry_points)]

\* Defect: aliases are forgotten.
SiteName(site) == site.name

\* site.provider or name
Implementation(site) == IF site.provider = Null THEN site.name ELSE site.provider

\* Without a factory the site gets an UnsupportedProvider.
create_enabled_providers(sites, factories) ==
  LET enabled == Filtered(sites, {n \in DOMAIN sites : sites[n].enabled})
      kind(site) == IF Implementation(site) \in DOMAIN factories
                      THEN factories[Implementation(site)] ELSE "none"
  IN  [n \in DOMAIN enabled |-> [name         |-> enabled[n].name,
                                 kind         |-> kind(enabled[n]),
                                 trust        |-> enabled[n].trust,
                                 max_listings |-> enabled[n].max_listings]]

-----------------------------------------------------------------------------

\* ProviderUnsupported, ProviderRateLimited, ProviderUnavailable and any other
\* exception of a provider's search.
Failures == {"unsupported", "rate_limited", "unavailable", "error"}

Failed(status) == [status |-> status, found |-> <<>>]
Available(found) == [status |-> "available", found |-> found]

\* RestrictedMarketplaceProvider, and UnsupportedProvider where there is no factory.
Unsupported(p) == p.kind \in {"restricted", "none"}

\* What an adapter reads of the answer: eBay is asked for at most max_listings items
\* by the query, a feed is cut here.
Items(p, response) ==
  IF p.kind = "generic" /\ Len(response.items) > p.max_listings
    THEN SubSeq(response.items, 1, p.max_listings) ELSE response.items

\* The payload that normalize_listing gets.  eBay's shipping is 0 where the item states
\* none; a feed's is read as it is.
Canonical(p, item) ==
  IF p.kind = "ebay" /\ item.shipping = Null THEN [item EXCEPT !.shipping = 0] ELSE item

\* Every item is normalized or the whole answer is lost.  The generic adapter calls a
\* ValueError an incompatible response; nobody catches the others before _safe_search.
Adapted(p, items) ==
  LET payload == [n \in DOMAIN items |-> Canonical(p, items[n])]
      refused == {n \in DOMAIN items : Unreadable(payload[n]) \/ Invalid(payload[n])}
      first   == payload[CHOOSE n \in refused : \A m \in refused : n <= m]
  IN  IF refused = {} THEN Available([n \in DOMAIN items |-> normalize_listing(p.name, payload[n], <<p.name, n>>)])
      ELSE IF p.kind = "generic" /\ ~Unreadable(first) THEN Failed("unavailable")
      ELSE Failed("error")

\* A plugin returned something that len() does not take.
Unmeasurable(p, response) ==
  p.kind = "plugin" /\ response.status \notin Failures /\ response.items = Null

\* _safe_search(provider), for what the marketplace or the plugin answers.
Outcome(p, response) ==
  IF Unsupported(p) THEN Failed("unsupported")
  ELSE IF response.status \in Failures THEN Failed(response.status)
  ELSE IF p.kind = "plugin" THEN Available(response.items)
  ELSE Adapted(p, Items(p, response))
==============================================================================

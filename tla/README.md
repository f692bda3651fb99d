# Hardware Deal Finder: TLA+ models and proofs

The program searches several marketplaces for used hardware, filters and ranks what it finds,
stores every search in SQLite and, as `dealfinder watch`, announces deals that are new or cheaper
than in the search before. This directory holds a model of that code, the model checker's runs
and machine-checked proofs. Paths are relative to the repository; the implementation is
`src/dealfinder/`.

Run them here: `tlc -config DealStore.cfg MCDealStore.tla`, `tlapm DealStoreProofs.tla`.

## The system

| part | state | operations | meets |
|---|---|---|---|
| `persistence.py` | three SQLite tables and their schema, shared by all processes | open and migrate, `save_run`, `load_run`, `load_rank`, `price_history` | `cli.py` and `service.py` call it; processes meet at SQLite's write lock |
| `cli.py` | the local variables of one invocation | `search`, `watch`, `show`, `history`; overrides, site selection | store, service, event detection, channel |
| `watch.py` | none | `detect_deal_events` | two `SearchRun`s in, events out |
| `notifications/` | a table of factories | create a channel, `notify` | called last by `watch` |
| `service.py` | the providers' answers of one search | `search`, `_safe_search`, `_apply_trust` | providers through `gather`; the store in a thread |
| `deduplication.py`, `enrichment.py`, `filtering.py`, `scoring.py`, `cluster.py` | none (the service writes `raw_attributes["warnings"]`) | functions of listings | called by the service in this order |
| `providers/http.py` | cache, time of the last request, a lock | `request`, `aclose` | concurrent coroutines of one provider object |
| `providers/generic.py`, `ebay.py`, `fixture.py`, `restricted.py` | an HTTP client, or none | `search` | HTTP client, normalization |
| `providers/registry.py`, `base.py` | a table of factories | discover plugins, create the enabled providers | plugins from entry points |
| `config.py`, `models.py`, `normalization.py`, `reporting.py` | none | validation, conversion, rendering | everywhere |
| `deploy/`, `Dockerfile` | the CronJob and its volume | starts `watch` once a day, one at a time, retries a failed pod twice, kills it after 900 s | `cli.py` |

What is hard in it:

* **several processes, one file**: a CronJob's `watch`, a manual `search` and a retried pod share
  the database. `save_run` is one transaction, but its timestamp is taken before the lock, the
  baseline of a `watch` is read long before its save, `show` reads in two transactions, and the
  notification comes after the save with nothing that remembers whether it was sent;
* **crashes and Ctrl-C**: every one of those steps may be the last, and every `await`;
* **dicts keyed by listing**: two offers of one listing id collapse into one row and one rank;
* **concurrent requests** that share a rate limit, a cache and a client that somebody closes;
* **marketplaces and plugins** that fail half way, answer in any order or mislabel what they return;
* **order of the pure steps**: what deduplication, enrichment and the filter see of each other;
* **unknown values**: `None` is neither zero nor a refusal, and must not be lost on the way;
* **a dictionary that copies share**: warnings travel through `raw_attributes`, between two scoring
  passes;
* **boundaries of the arithmetic**: stock used up, a title that names two sizes, a score cut at 100,
  a percentage rounded onto its threshold.

`PROJECT.json` lists each of these hazards at its line, with the properties aimed at it.

## Modules

| module | models |
|---|---|
| `DealLedger` | what the store promises: a ledger to which whole snapshots are appended |
| `DealFeed` | what `watch` promises, on top of the ledger: the latest snapshot may be announced once, against the one before it |
| `DealStore` | `persistence.py` |
| `DealWatch` | `cli.py` (`search`, `watch`, `show`), `watch.py` and the channel, composed with `DealStore` |
| `ResilientHttp` | `providers/http.py` and the closing of `providers/generic.py` |
| `ProviderSearch` | one search of `providers/ebay.py` or `generic.py` under `_safe_search`, composed with `ResilientHttp` |
| `HardwareListing`, `Normalization` | `models.py`, `normalization.py`; operators |
| `Providers` | `registry.py`, `_select_sites`, and what the adapters make of an answer; operators |
| `DealScoring` | `scoring.py` and the validators of `config.py` that concern it; operators |
| `Lists` | what the code does with Python lists: comprehensions, stable sorts, chains, sums; operators |
| `DealPipeline` | `deduplication.py`, `enrichment.py`, `filtering.py`, the ranking, `cluster.py`; operators |
| `SearchService` | `_search` of `cli.py` and `service.py`, which use all of these operators |
| `DealStoreProofs` ← `WatchProofs` ← `FeedProofs` | theorems about the store and the command line, each module extending the one before |
| `HttpProofs` ← `ProviderProofs` | theorems about the HTTP client and a provider's search |
| `ListProofs` | lemmas about `Lists`: what each operator computes for lists of any length |
| `ScoringProofs` ← `SearchProofs` | lemmas about the scores, theorems about a search |
| `MCDealStore`, `MCDealWatch`, `MCResilientHttp`, `MCProviderSearch`, `MCSearchService` | small instances |

Definitions marked `Defect` are faulty variants of the definition that follows them; nothing uses
them but the sensitivity tests that `PROJECT.json` lists: put in place of the definition, each
must break its property.

**DealStore.** `disk` holds the committed tables, `pages` what the open transaction sees, `writer`
is SQLite's lock. `pc[c]` follows a client: `closed` → (`altering` →) `ready` → `waiting` (the
timestamp is taken, the `INSERT` waits for the lock) → `writing` → `returned` or `failed`.
`Initialize` and `AddColumn` are the two halves of `_initialize`, since its look at the columns
and its `ALTER TABLE` are separate. `SaveRun`, `InsertRun`, `SaveListing` (one round of the loop: upsert and
observation) and `Commit` (the `UPDATE` with the final result, then `COMMIT`) are `save_run`;
`StatementFails`, `LockTimeout` and `Exit` are how it breaks off. The rounds of the loop are taken
in any order of keys, which gives the same tables. The position of a run in `search_runs` is its
id; a listing key stands for `provider:identity`; an item is a `RankedListing` with its key.
`rank_by_key` and `unique_observed` keep the last of two entries with one key, as the dicts do.
`load_run`, `load_rank` and `price_history` are operators on the committed tables.

**DealWatch.** `phase[c]` follows `main()`: `loading` the baseline (`load_run`, `LookupError`
suppressed), `searching` until `save_run` is back (inside, the `pc` of DealStore moves on),
`notifying` once the events are there, then `done`. `Search` hands any member of `Runs` to the
store: what a search finds is not determined here. `TopOf` is the slice by `--top`, applied to the
new run after it was saved. `ShowLatest` and `ShowRank` are the two reads of `show`, through the
phases `showing` and `selecting`. `Kill`, `Abort` (configuration or provider refused) and
`NotifierFails` end an invocation early; `Faults` switches them. `Overlap = FALSE` is the
deployment's `concurrencyPolicy: Forbid`. `announced` is a history variable, and so is what
`baseline` remembers of a watch.

**ResilientHttp.** A task goes `idle` → `queued` for `_rate_lock` → `pacing` (it holds the lock and
sleeps) → `sent` → `backoff` and round again, or `ended`. `Send` is the stretch without an
`await`: note the time, release the lock, call httpx. Time is kept as the differences the code
computes (`elapsed` since the last request, `left` of a cache entry, `wait` of a sleep), each
capped where it stops to matter, so no bound on the clock is needed. `quiet`, `age`, `sends` and
`answers` are history.

**ProviderSearch.** One coroutine drives the client. `kind` is the adapter, `missing` what the
environment or the site's settings lack (`Refuse`). `search_ebay` begins with a fresh client, in
phase `token`; `Granted` goes on to `listings` with the same client. `search_generic` begins in
`listings` with the client of the constructor, which an earlier search may have closed. `Ask` and
`Work` are the client's steps, `Conclude` ends the search with the `Verdict` that `_safe_search`
reports and closes the client in its `finally`, and `Cancel` is a `CancelledError` at whatever
`await` it waits. `stored` is the body that the cache keeps with a response; `trail` is history.

**SearchService.** `Prepare` is `_search` up to the service: plugin discovery, the overrides of the
criteria, the selected sites, or a refusal of the invocation. `SafeSearch` ends one provider's
search with an `Outcome`, in any order, unless the plugin's result has no length
(`RaiseUnmeasured`); `Assemble` runs the pipeline over the answers in one step, because the code has
no suspension there, and ends in `Raise` or `Return`. `Fails` has the ways in which the pipeline
raises: a listing of an unknown provider, a score that `ScoreBreakdown` refuses, a plan that
`ClusterDeal` refuses. `Observed` and `Ranked` are the two scoring passes: the first takes the
warnings just noted, the second what `raw_attributes` holds after the loop (`Noted`). A listing's
`raw` tells which dictionary that is, since copies share it. `run` is what goes to
`save_run`. Listings are records of typed attributes with `Null` for unknown; scores are computed
as in the code, in integers. What the regular expressions read off a title, and the two knowledge
tables, are constants.

## What the runs check

| run | shows |
|---|---|
| `store` | two clients, two keys, a fresh or a legacy database: the transaction is alone and adds one run (`Isolation`), stored runs are whole and their rows agree with their result (`RunsComplete`), first and last seen agree with the observations (`SeenMatchesHistory`), a returned id is one's own (`SavedRunIsMine`), nobody saves into the old schema (`SchemaReady`), nothing stored changes (`AppendOnly`), a listing's price history only grows, by one entry at its end (`HistoryGrows`), and the tables refine `DealLedger` (`ImplementsLedger`) |
| `store_variants` | **violated**: `ShowFindsEveryRank`, where two ranked offers share a listing id |
| `watch_serial` | invocations one at a time, killed anywhere: `ImplementsFeed` (each notification is the exact difference of the latest snapshot to the one before it, once), `SeenInOrder`, and what is announced twice was gone or different in between (`NewsNotRepeated`, where no two offers share a key) |
| `watch_overlap` | overlapping invocations: notifications are about stored runs only, once, against an earlier run (`AnnouncementsSound`), and `show` answers out of one run (`ShownFromOneRun`) |
| `watch_live` | fair invocations that compete for the lock: all end (`InvocationsEnd`), every run a watch stored is announced (`SnapshotsAnnounced`), and so is every deal that was strong from the start (`StrongDealsAnnounced`) |
| `watch_top` | **violated**: `StrongDealsAnnounced` where `--top` cuts the ranking |
| `http` | two coroutines: sends an interval apart (`SendsSpaced`), no lost or double wake-up (`LockConsistent`), nothing stale served (`CacheFresh`), the retry budget and the kind of error (`AnswersJustify`), every request ends (`RequestsEnd`) |
| `providers` | both adapters, with anything missing, any answers, a second search of the object and Ctrl-C at any `await`: the reported status is what happened, whatever an unusable answer is called (`StatusJustified`), the client is closed and its lock free (`ClientReleased`), token and listings keep the rate limit (`SendsSpaced`), the search ends (`SearchesEnd`) |
| `search` | the shipped configuration, four sites and what they may answer, from the options to the run that is stored: <br>what is ranked follows from the first offers in the configured order, whatever the order of the answers and whoever fails (`FirstOffersRanked`), no listing is lost (`EveryListingAccounted`), and the two scoring passes agree, on the warnings of listings with a dictionary of their own (`RankedIsObserved`); the options reach every step (`RankedMeetsRequest`) and every site its implementation (`SitesServed`); attributes are completed, never contradicted, and read right off a title (`EnrichedHonest`, `CapacitiesHonest`); scores respect dominance (`DominanceRespected`), and only a plugin that breaks the contract makes the search fail (`OnlyPluginsFailSearch`); every cluster plan is complete and the cheapest among all ways to fill it (`ClusterPlansCheapest`) |
| `search_order` | **violated**: `ObservedDistinct`: what enrichment makes equal stays twice |
| `search_condition` | **violated**: `EligibleSurvive` where an offer in a refused condition resembles an eligible one |
| `search_foreign` | **violated**: `ProvidersIsolated` where a plugin labels its listings with another name |

The violated runs each show a disagreement with a sentence of the documentation or a comment;
`PROJECT.json` quotes it. Others were met and have no run:

* overlapping saves can store a listing that was last seen before it was first seen (`SeenInOrder`
  holds only where invocations do not overlap), and overlapping watches compare with a run that is
  no longer the previous one;
* a second search with one `GenericProvider` object ends in a `RuntimeError`, for the first one
  closed the client; and a client is never closed when the search is refused for missing settings;
* a title `128GB SSD 8GB RAM` is read as 128 GB of memory, since the word RAM is optional in the
  pattern and the first match counts;
* of two ranked offers that share a listing id the last one is the baseline of both, so that every
  `watch` announces the cheaper one as a price drop although nothing changed;
* `show 0` finds a listing that was observed but not ranked;
* an eBay item that states no shipping options counts as shipped for free;
* `docs/provider-development.md` (line 6) asks for `ProviderUnavailable` on incompatible responses. The eBay
  adapter catches nothing (`ebay.py:53-72`), so that an answer it cannot read ends as `error`; so
  does a price that is no number with the generic adapter, since `decimal.InvalidOperation` is not
  among the exceptions of `generic.py:69`. `Verdict` models this, and `StatusJustified` takes no
  side: an unusable answer may be called either;
* the same guide (line 23) keeps raw data out of the central logic, but warnings reach the scorer
  through `raw_attributes` (`service.py:106-110`, `scoring.py:100`). Where a plugin's listings share
  that dictionary, a ranked listing carries another's warnings, and `RankedIsObserved` excepts them;
* `README.md` says that a missing quantity is warned about; it is named in the explanation of the
  score, and not among the warnings;
* a negative weight, which `config.py` accepts, can make every search fail;
* an entry point that cannot be loaded aborts the invocation, even if no site uses it.

### Bounds, and why they are enough

* Two clients: the lock and the overlap relate two processes; a third one only waits as the second does.
* `MaxRuns = 2` stored runs when a save starts (so up to three with overlap), 3 in `watch_serial`:
  a first sighting, a change and a comparison after a change. `MaxClock = 3` in `store`, 2 in
  `watch_serial`, 1 where no property looks at times.
* Two keys: one whose row another run updates, one that comes and goes. The items have two
  prices and two ranks; `MCDealWatch` puts prices and scores at the thresholds (4.995 % rounds to
  5 %, score 84 and 85). `MixedRuns` and `PriceRuns` have a run in which two offers share a key.
* `http`: interval and time to live of two units, one retry, `Retry-After` negative, zero and above
  its cap. `providers`: two retries, so that a retry may follow a retry, and an object searched up
  to twice (`MaxSearches`), so that a search may meet the client of another.
* `search`: the criteria, weights and upgrade costs of `config/search.yaml`; a site of each kind
  (eBay, an alias of the generic adapter, a restricted one, a plugin), up to three listings of
  eBay and two of the others; two nodes required, three in one invocation; stock below, at and
  above it, zero and unknown. A plugin's listings share a dictionary, name another provider or have
  no threads, and once it returns no list. A search ends, so these runs do not check for deadlock.

The passing runs have 238,893 (`store`), 207,924, 112,952 and 20,137 (`watch_serial`, `watch_overlap`,
`watch_live`), 304,893 (`http`), 10,395 (`providers`) and 10,015 (`search`) distinct states. No run uses
symmetry: the clients are few, and temporal properties would not allow it.

### Fairness

`FairWatchSpec` is weak fairness of each invocation's own progress: a started process is scheduled,
SQLite's busy timeout bounds its wait, providers answer. It does not assume that anybody
starts an invocation, nor that faults happen or do not. `FairHttpSpec` is weak fairness of time
and of each task's steps: asyncio runs every ready task, its lock is first-come first-served, and
httpx ends each call by an answer or its timeout. `ProviderSpec` assumes the same of the one
coroutine of a search (`Elapse`, `Proceed`); nobody has to press Ctrl-C.

## What is proved

Every theorem holds for all values of the constants that satisfy the named assumptions of the
modules: any sets of clients, keys, items and runs, any interval, time to live and retry budget,
any configuration, sites and answers.

| theorem | states | under |
|---|---|---|
| `DealStoreProofs!TypeCorrect`, `TransactionsIsolated`, `HistoryKept`, `SavedRunKept`, `SchemaMigrated`, `SummaryCorrect` | `TypeOK`, `Isolation`, `AppendOnly`, `SavedRunIsMine`, `SchemaReady`, `SeenMatchesHistory` | `Spec` |
| `DealStoreProofs!RunsStayComplete`, `StoreIsLedger`, `HistoriesGrow` | `RunsComplete`, `ImplementsLedger`, `HistoryGrows` | `Spec` |
| `DealStoreProofs!EveryRankFound` | `ShowFindsEveryRank` | `Spec`, `OneOfferPerKey` |
| `WatchProofs!WatchUsesStore` | `Spec`: what is proved of the store holds under the command line | `WatchSpec` |
| `WatchProofs!WatchTypeCorrect`, `AnnouncementsStaySound` | `WatchTypeOK`, `AnnouncementsSound` | `WatchSpec` |
| `WatchProofs!ShowsOneRun` | `ShownFromOneRun` | `WatchSpec`, `OneOfferPerKey` |
| `FeedProofs!WatchIsFeed`, `SeenStaysInOrder`, `NewsComesOnce` | `ImplementsFeed`, `SeenInOrder`, `NewsNotRepeated` | `WatchSpec`, without overlap |
| `HttpProofs!HttpTypeCorrect`, `LockSound`, `CacheIsFresh`, `OutcomesJustified`, `SendsAreSpaced` | `HttpTypeOK`, `LockConsistent`, `CacheFresh`, `AnswersJustify`, `SendsSpaced` | `HttpSpec` |
| `ProviderProofs!SearchTypeCorrect`, `StatusIsJustified`, `ClientIsReleased`, `SearchSendsSpaced` | `SearchTypeOK`, `StatusJustified`, `ClientReleased`, `SendsSpaced` | `ProviderSpec` |
| `SearchProofs!SearchInvariant` | the inductive invariant: a returned run is the pipeline's result on what the providers answered | `ServiceSpec` |
| `SearchProofs!RankedAreObserved`, `ListingsAccounted`, `FirstOffersAreRanked` | `RankedIsObserved`, `EveryListingAccounted`, `FirstOffersRanked` | `ServiceSpec` |
| `SearchProofs!AskedSitesServed`, `RequestMet` | `SitesServed`, `RankedMeetsRequest` | `ServiceSpec` |
| `SearchProofs!EnrichmentHonest`, `SizesReadRight` | `EnrichedHonest`, `CapacitiesHonest` | `ServiceSpec` |
| `SearchProofs!BetterNeverScoresLower`, `OnlyFaultyPluginsFail` | `DominanceRespected`, `OnlyPluginsFailSearch` | `ServiceSpec`, `NonNegative` |
| `SearchProofs!PlansCheapest` | `ClusterPlansCheapest` | `ServiceSpec` |

**The store.** `TypeInv` adds to the types that a client inside `save_run` has a run. `LockInv` adds
to `Isolation` that no committed observation names a run that does not exist yet, without which
the id of a new run would not be fresh, and that the keys on the writer's list are keys of its
run; without that, taking a key off the list would not add its row. Steps are of four kinds: a
bystander's, the transaction's `INSERT`, a round of its loop, its end by `COMMIT` or rollback; each
has a lemma. `CommitAppends` then says what a `COMMIT` does to the committed tables, and
`AppendOnly` and `SavedRunIsMine` follow from it. `SeenInv` extends the summary of the listings
table to the open transaction: by `LockInv` the run being written has the greatest id, so its
observation is the latest of its listing and, if there is no other, the first.

**The ledger.** `RunsComplete` is about committed runs; `LedgerInv` adds what is true of the rows of the
open transaction: each is the one that `save_run` writes for its key (`WrittenFromRun`), none is
written twice (`OneRowPerKey`), and with the keys still on the list they are all keys of the run.
When the list is empty a `COMMIT` therefore adds exactly the snapshot that `DealLedger` records
for the run, and every other step leaves the committed tables as they are. What `show` finds needs one
premise more, `OneOfferPerKey`: no two offers of a run share a key. With it `RowsHoldRanked` is
inductive, each row holds the item of its rank; without it the run `store_variants` loses a rank.

**A listing's history.** `price_history` orders the rows of a listing by their run. The place of a
row follows from counting: it is one more than the number of rows of earlier runs. A `COMMIT`
adds rows of the newest run only, so that it changes no earlier count, and adds at most one row
of a listing, which comes last. Counting needs finite sets; `HistoryInv` adds to `LedgerInv`
that the open transaction has finitely many rows.

**The command line.** Each step of an invocation is a step of the store or leaves it alone, so
`WatchSpec` implies the store's `Spec`. `WatchInv` says where a baseline comes from: it is the ranking
of a run that was stored before the one the invocation saves, and no announcement is about a run
whose invocation has not notified yet. Where invocations do not overlap, `SerialInv` adds that only
one is active (`Alone`), that the others have no connection (`IdleClosed`), and that its baseline
is the latest run until it saves and the one before the latest from then on (`ComparesWithLatest`).
Then the events are the news that `DealFeed` asks for, which takes a lemma on numbers as well: the
percentage that the code rounds to two places reaches the threshold exactly if the drop is
material as `DealFeed` says it without division. Announcements follow the order of the runs
(`NewsInOrder`), so that the same news in two of them leaves a run in between. And no
row of `listings` is later than the timestamp of a save under way (`TimesInOrder`), from which
`SeenInOrder` follows.

**The HTTP client.** `HttpInv` adds to the four invariants of the run that a task at work has a
request (`Asked`), that sends and answers follow the loop variable (`Counted`), that an entry in
the cache and a request under way are as old as their expiry says (`Dated`), and that since the
last send as much time has passed as the code believes (`Paced`); the last two relate what the code
computes to the history. **A provider's search** keeps `HttpInv` in every step, the fresh client of
eBay and a cancellation at an `await` included; `ProviderInv` adds what a search under way has and
which answers it already got.

**A search.** `SearchInv` says, of the phases after `Prepare`, that the criteria are those of the
file with the options put over them (`Prepared`), that the providers are objects for the sites
that were asked for, of the implementation the registry prescribes (`Served`), that each answer is
a list of well-formed listings or none, with the status it was given (`Answers`), that the
run of a search that is done is `SearchRun` of these answers, and why one that failed did. All that
the properties say about a run is then a fact about the operators of the pipeline, for lists of any length:

* **lists** (`ListProofs`): a comprehension lists exactly the chosen elements in their order, a stable
  sort lists each element once, chains and sums are what they should be. `Lists` defines an order
  by counting how many elements are ahead of one; chains and sums are recursive functions.
  Facts about all numbers come from the least counterexample (`Least`, `Induction`): sets of
  numbers, for which no theorem with an operator parameter is needed. `SumNumbered` lets a sum be
  taken in any order;
* **what is kept**: the earliest listing with a given fingerprint is kept, so every listing
  resembles one that is kept (`KeptFor`), and ranked, rejected and duplicate listings add up to what
  was returned. The places in the chained list are matched with the providers' own lists, so that
  what is ranked is told by the answers and the configured order (`FirstOffersRanked`). That a first
  offer may displace an eligible one is the code's, and what `search_condition` shows;
* **what is completed**: enrichment is followed attribute by attribute through its two tables, and
  a second time finds nothing left to fill; sizes are followed from the matches in a title;
* **scores**: each category lies between 0 and 100 and is monotone in what `AtLeastAsGood`
  compares; weighted sums and the trust factor keep both, and a plan's average stays in range, if
  the weights and costs are not negative (`NonNegative`). This premise is the theorems' own:
  `config.py` checks that the weights add up to one and nothing of their signs;
* **plans**: the sellers are taken in the order of their price. Compared with any other
  way to fill the plan, each node beyond what the plan takes costs at least as much as the last
  seller it takes from, and each node less saves at most that (`GreedyCheapest`). There is a plan
  exactly where the known stock is enough.

**Assumptions.** Of a configuration they say what its validators check and no more
(`WeightsAssumption`, `CostsAssumption`, `ServiceAssumption`): a weight or a cost may be negative.
Of a plugin (`ResponsesAssumption`) they say that it answers with listings that could be built, or
with something that has no length: `IsListing` is what building a `HardwareListing` checks, so that
the attributes may be negative and a machine may have no cores. Of the two knowledge tables
(`FactsAssumption`) and of the sizes in a title (`TitlesAssumption`), which are constants of the
code and matches of digits, they say what the code shows. `FactoriesAssumption` says which adapters
there are, and `ResponsesAssumption` that an adapter never calls its own site unsupported, as a
plugin may. Nothing is assumed about the order of answers, stocks, prices, overrides, the sites or
the plugins that are installed.

**Only model-checked**: liveness under fairness and what rests on `ENABLED` (`InvocationsEnd`,
`SnapshotsAnnounced`, `StrongDealsAnnounced`, `RequestsEnd`, `SearchesEnd`), which the prover does
not reach. Every other property of a passing run is proved.

## What is not modelled

* The fixture provider (a constant for tests), argument parsing and exit codes, the texts of
  reports, explanations and notifications, the layout of tables, JSON and CSV.
* The reading of YAML and its defaults; the walk along a field path of the generic adapter (an
  answer can be read or cannot); how the regular expressions cut a title into sizes; confidence
  and reference of an `AttributeValue`; the computed costs of a `ClusterAllocation`.
* Currencies: the models have one. The code compares prices of different currencies as numbers.
* A `Retry-After` of `nan`; a second Ctrl-C while the first one is being handled.
* SQLite itself: its commit is atomic and durable, and a stored result can be read again. The clock
  never goes back. Ties of Python's `round` on binary floats are left aside, and a drop threshold
  finer than a hundredth of a percent is not represented.
* A plugin's own code: it answers with listings, with what has no length, or fails, but it answers. A
  list of something else than listings, and floats that are not numbers, are left out.
* Details of the data: manufacturer and model are one name, known or unknown together; of the
  storage types only NVMe is told apart; an eBay shipping value that is an explicit `null` (which
  `Decimal` refuses) is one that is not stated; a feed whose mapping leaves out the price is an
  incompatible answer of `ProviderSearch` and does not occur in `Providers`.
* The last line of `_request_with_retries`, which only a negative `max_retries` would reach.

## Plan

1. An abstract specification of a search (a function of what the sites answered, in the configured
   order) that `SearchService` implements; `FirstOffersRanked` is its part about the ranking.
2. A condition on listings under which no eligible offer is displaced, for instance one condition
   and one set of attributes per fingerprint, to say exactly when `EligibleSurvive` holds.
3. Distinctness: which two observed listings may share a listing id, so that `OneOfferPerKey` of the
   store follows from what a search returns.
4. `DealFeed` with overlapping invocations: the strongest order of announcements that still holds.

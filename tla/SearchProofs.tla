---------------------------- MODULE SearchProofs ----------------------------
(***************************************************************************)
(* Proofs about a search, for every configuration, every set of sites and   *)
(* plugins and every answer of theirs: what the pipeline makes of listings   *)
(* of any number, and what a returned run says of them.                     *)
(***************************************************************************)
EXTENDS ScoringProofs, ListProofs

-----------------------------------------------------------------------------
(* Enrichment.                                                             *)

LEMMA NullIsNone == Null \notin Int /\ Null \notin Nat /\ Null # 0 /\ Null # 1
  BY ServiceAssumption

LEMMA KnowledgeFilled ==
  ASSUME NEW attrs, IsAttributes(attrs), NEW facts, IsAttributes(facts)
  PROVE  /\ IsAttributes(Filled(attrs, facts))
         /\ \A a \in Attributes : attrs[a] # Null => Filled(attrs, facts)[a] = attrs[a]
         /\ \A a \in Attributes : attrs[a] = Null => Filled(attrs, facts)[a] = facts[a]
         /\ Gaps(attrs, facts) = {} => Filled(attrs, facts) = attrs
         /\ Gaps(Filled(attrs, facts), facts) = {}
         /\ IsNode(attrs) /\ IsNode(facts) => IsNode(Filled(attrs, facts))
  <1> DEFINE filled == Filled(attrs, facts)
  <1>1. /\ filled = [a \in Attributes |-> filled[a]]
        /\ \A a \in Attributes : filled[a] = IF attrs[a] = Null THEN facts[a] ELSE attrs[a]
    BY DEF Filled, Known
  <1>2. attrs \in [Attributes -> Int \cup {Null}] /\ facts \in [Attributes -> Int \cup {Null}]
    BY DEF IsAttributes
  <1> HIDE DEF filled
  <1>3. filled \in [Attributes -> Int \cup {Null}]
    BY <1>1, <1>2
  <1>4. \A a \in Security : filled[a] \in {0, 1, Null}
    BY <1>1 DEF IsAttributes, Attributes
  <1>5. filled["seller_feedback_count"] \in Nat \cup {Null}
    BY <1>1 DEF IsAttributes, Attributes
  <1>6. filled["seller_rating_percent"] \in (0 .. 100) \cup {Null}
    BY <1>1 DEF IsAttributes, Attributes
  <1>7. Gaps(attrs, facts) = {} => filled = attrs
    <2>1. Gaps(attrs, facts) = {} => \A a \in Attributes : filled[a] = attrs[a]
      BY <1>1 DEF Gaps
    <2> QED
      BY <1>1, <1>2, <2>1
  <1>8. Gaps(filled, facts) = {}
    BY <1>1 DEF Gaps
  <1>9. IsAttributes(filled)
    BY <1>3, <1>4, <1>5, <1>6 DEF IsAttributes
  <1>10. ASSUME IsNode(attrs), IsNode(facts) PROVE IsNode(filled)
    BY <1>1, <1>10 DEF IsNode, PerNode, Attributes
  <1> QED
    BY <1>1, <1>7, <1>8, <1>9, <1>10 DEF filled

\* What the title tells.
LEMMA MachineEnriched ==
  ASSUME NEW l, IsListing(l), Described(l), NEW k, k = _enrich_machine(l)
  PROVE  /\ IsListing(k) /\ Described(k)
         /\ \A f \in Fields \ {"maker", "attrs", "provenance"} : k[f] = l[f]
         /\ l.maker # Null => k.maker = l.maker
         /\ MachineFacts[l.title] # Null =>
              /\ k.maker # Null
              /\ Gaps(k.attrs, MachineFacts[l.title].attrs) = {}
         /\ \A a \in Attributes :
              \/ /\ k.attrs[a] = l.attrs[a]
                 /\ {e \in k.provenance : e.field = a} = {e \in l.provenance : e.field = a}
              \/ /\ l.attrs[a] = Null /\ k.attrs[a] # Null
                 /\ a \in {"max_memory_gb", "tpm_2", "secure_boot"}
                 /\ {e \in k.provenance : e.field = a}
                      = {[field |-> a, source |-> "manufacturer_spec"]}
  <1> DEFINE facts == MachineFacts[l.title]
             named == IF l.maker = Null THEN {"maker"} ELSE {}
             gaps == Gaps(l.attrs, facts.attrs)
             maker == Known(l.maker, facts.maker)
             attrs == Filled(l.attrs, facts.attrs)
             before == Evidence(l.provenance, named, "inferred")
             provenance == Evidence(before, gaps, "manufacturer_spec")
  <1>1. k = IF facts = Null THEN l
            ELSE [l EXCEPT !.maker = maker, !.attrs = attrs, !.provenance = provenance]
    BY DEF _enrich_machine
  <1>2. l = [f \in Fields |-> l[f]] /\ IsAttributes(l.attrs)
    BY DEF IsListing
  <1>3. CASE facts = Null
    BY <1>1, <1>3
  <1>4. CASE facts # Null
    <2>1. /\ facts.maker # Null /\ IsAttributes(facts.attrs)
          /\ \A a \in Attributes \ {"max_memory_gb", "tpm_2", "secure_boot"} : facts.attrs[a] = Null
      BY <1>4, FactsAssumption DEF Described
    <2>2. /\ gaps \subseteq {"max_memory_gb", "tpm_2", "secure_boot"}
          /\ gaps = {a \in Attributes : l.attrs[a] = Null /\ facts.attrs[a] # Null}
      BY <2>1 DEF Gaps
    <2>3. maker # Null /\ (l.maker # Null => maker = l.maker)
      BY <2>1 DEF Known
    <2>4. /\ IsAttributes(attrs) /\ Gaps(attrs, facts.attrs) = {}
          /\ \A a \in Attributes : attrs[a] = IF l.attrs[a] = Null THEN facts.attrs[a] ELSE l.attrs[a]
      BY <1>2, <2>1, KnowledgeFilled
    <2>5. /\ before = {e \in l.provenance : e.field \notin named}
                        \cup {[field |-> f, source |-> "inferred"] : f \in named}
          /\ provenance = {e \in before : e.field \notin gaps}
                            \cup {[field |-> f, source |-> "manufacturer_spec"] : f \in gaps}
      BY DEF Evidence
    <2>6. named \subseteq {"maker"} /\ "maker" \notin Attributes
      BY DEF Attributes, Security
    <2> HIDE DEF facts, named, gaps, maker, attrs, before, provenance
    <2>7. k = [l EXCEPT !.maker = maker, !.attrs = attrs, !.provenance = provenance]
      BY <1>1, <1>4
    <2>8. /\ k.maker = maker /\ k.attrs = attrs /\ k.provenance = provenance
          /\ \A f \in Fields \ {"maker", "attrs", "provenance"} : k[f] = l[f]
          /\ k = [f \in Fields |-> k[f]]
      BY <1>2, <2>7 DEF Fields
    <2>9. IsListing(k) /\ Described(k)
      BY <2>4, <2>8 DEF IsListing, Described, Fields
    <2>10. ASSUME NEW a \in Attributes, a \notin gaps
           PROVE  {e \in provenance : e.field = a} = {e \in l.provenance : e.field = a}
      <3>1. a \notin named
        BY <2>6
      <3>2. {e \in before : e.field = a} = {e \in l.provenance : e.field = a}
        BY <2>5, <3>1
      <3> QED
        BY <2>5, <2>10, <3>2
    <2>11. ASSUME NEW a \in gaps
           PROVE  {e \in provenance : e.field = a} = {[field |-> a, source |-> "manufacturer_spec"]}
      BY <2>5, <2>11
    <2>12. ASSUME NEW a \in Attributes
           PROVE  \/ /\ k.attrs[a] = l.attrs[a]
                     /\ {e \in k.provenance : e.field = a} = {e \in l.provenance : e.field = a}
                  \/ /\ l.attrs[a] = Null /\ k.attrs[a] # Null
                     /\ a \in {"max_memory_gb", "tpm_2", "secure_boot"}
                     /\ {e \in k.provenance : e.field = a}
                          = {[field |-> a, source |-> "manufacturer_spec"]}
      BY <2>2, <2>4, <2>8, <2>10, <2>11
    <2>13. k.maker # Null /\ (l.maker # Null => k.maker = l.maker)
      BY <2>3, <2>8
    <2>14. Gaps(k.attrs, facts.attrs) = {}
      BY <2>4, <2>8
    <2> HIDE DEF facts
    <2> QED
      BY <1>4, <2>8, <2>9, <2>12, <2>13, <2>14 DEF facts
  <1> QED
    BY <1>3, <1>4

LEMMA NoEvidence ==
  ASSUME NEW provenance, NEW source
  PROVE  Evidence(provenance, {}, source) = provenance
  BY DEF Evidence

\* A listing of which the title tells nothing new.
LEMMA MachineSettled ==
  ASSUME NEW l, IsListing(l), Described(l),
         MachineFacts[l.title] # Null =>
           l.maker # Null /\ Gaps(l.attrs, MachineFacts[l.title].attrs) = {}
  PROVE  _enrich_machine(l) = l
  <1> DEFINE facts == MachineFacts[l.title]
  <1>1. CASE facts = Null
    BY <1>1 DEF _enrich_machine
  <1>2. CASE facts # Null
    <2>1. l.maker # Null /\ Gaps(l.attrs, facts.attrs) = {}
      BY <1>2
    <2>2. IsAttributes(facts.attrs) /\ IsAttributes(l.attrs) /\ l = [f \in Fields |-> l[f]]
      BY <1>2, FactsAssumption DEF Described, IsListing
    <2>3. Filled(l.attrs, facts.attrs) = l.attrs
      BY <2>1, <2>2, KnowledgeFilled
    <2>4. Known(l.maker, facts.maker) = l.maker
      BY <2>1 DEF Known
    <2>5. Evidence(Evidence(l.provenance, {}, "inferred"), {}, "manufacturer_spec") = l.provenance
      BY NoEvidence
    <2>6. _enrich_machine(l) = [l EXCEPT !.maker = l.maker, !.attrs = l.attrs, !.provenance = l.provenance]
      BY <1>2, <2>1, <2>3, <2>4, <2>5 DEF _enrich_machine
    <2> QED
      BY <2>2, <2>6 DEF Fields
  <1> QED
    BY <1>1, <1>2

\* One of which the CPU tells nothing new.
LEMMA CpuSettled ==
  ASSUME NEW l, IsListing(l), Described(l),
         CpuFacts[l.cpu] # Null =>
           /\ Gaps(l.attrs, CpuFacts[l.cpu].attrs) = {}
           /\ CpuFacts[l.cpu].features \subseteq l.features
  PROVE  _enrich_cpu(l) = l
  <1> DEFINE facts == CpuFacts[l.cpu]
  <1>1. CASE facts = Null
    BY <1>1 DEF _enrich_cpu
  <1>2. CASE facts # Null
    <2>1. Gaps(l.attrs, facts.attrs) = {} /\ facts.features \subseteq l.features
      BY <1>2
    <2>2. IsAttributes(facts.attrs) /\ IsAttributes(l.attrs) /\ l = [f \in Fields |-> l[f]]
      BY <1>2, FactsAssumption DEF Described, IsListing
    <2>3. Filled(l.attrs, facts.attrs) = l.attrs
      BY <2>1, <2>2, KnowledgeFilled
    <2>4. l.features \cup facts.features = l.features
      BY <2>1
    <2>5. Gaps(l.attrs, facts.attrs) \cup (facts.features \ l.features) = {}
      BY <2>1
    <2>6. Evidence(l.provenance, {}, "cpu_database") = l.provenance
      BY NoEvidence
    <2>7. _enrich_cpu(l) = [l EXCEPT !.attrs = l.attrs, !.features = l.features, !.provenance = l.provenance]
      BY <1>2, <2>3, <2>4, <2>5, <2>6 DEF _enrich_cpu
    <2> QED
      BY <2>2, <2>7 DEF Fields
  <1> QED
    BY <1>1, <1>2

\* What the CPU tells.
LEMMA CpuEnriched ==
  ASSUME NEW l, IsListing(l), Described(l), NEW k, k = _enrich_cpu(l)
  PROVE  /\ IsListing(k) /\ Described(k)
         /\ \A f \in Fields \ {"attrs", "features", "provenance"} : k[f] = l[f]
         /\ CpuFacts[l.cpu] # Null =>
              /\ Gaps(k.attrs, CpuFacts[l.cpu].attrs) = {}
              /\ CpuFacts[l.cpu].features \subseteq k.features
         /\ IsNode(l.attrs) => IsNode(k.attrs)
         /\ \A a \in Attributes :
              \/ /\ k.attrs[a] = l.attrs[a]
                 /\ {e \in k.provenance : e.field = a} = {e \in l.provenance : e.field = a}
              \/ /\ l.attrs[a] = Null /\ k.attrs[a] # Null
                 /\ a \in {"physical_cores", "threads", "virtualization"}
                 /\ {e \in k.provenance : e.field = a} = {[field |-> a, source |-> "cpu_database"]}
  <1> DEFINE facts == CpuFacts[l.cpu]
             gaps == Gaps(l.attrs, facts.attrs)
             new == facts.features \ l.features
             attrs == Filled(l.attrs, facts.attrs)
             features == l.features \cup facts.features
             provenance == Evidence(l.provenance, gaps \cup new, "cpu_database")
  <1>1. k = IF facts = Null THEN l
            ELSE [l EXCEPT !.attrs = attrs, !.features = features, !.provenance = provenance]
    BY DEF _enrich_cpu
  <1>2. l = [f \in Fields |-> l[f]] /\ IsAttributes(l.attrs)
    BY DEF IsListing
  <1>3. CASE facts = Null
    BY <1>1, <1>3
  <1>4. CASE facts # Null
    <2>1. /\ IsAttributes(facts.attrs) /\ IsNode(facts.attrs) /\ facts.features \cap Attributes = {}
          /\ \A a \in Attributes \ {"physical_cores", "threads", "virtualization"} : facts.attrs[a] = Null
      BY <1>4, FactsAssumption DEF Described
    <2>2. /\ gaps \subseteq {"physical_cores", "threads", "virtualization"}
          /\ gaps = {a \in Attributes : l.attrs[a] = Null /\ facts.attrs[a] # Null}
      BY <2>1 DEF Gaps
    <2>3. new \cap Attributes = {} /\ facts.features \subseteq features
      BY <2>1
    <2>4. /\ IsAttributes(attrs) /\ Gaps(attrs, facts.attrs) = {}
          /\ \A a \in Attributes : attrs[a] = IF l.attrs[a] = Null THEN facts.attrs[a] ELSE l.attrs[a]
          /\ IsNode(l.attrs) => IsNode(attrs)
      BY <1>2, <2>1, KnowledgeFilled
    <2>5. provenance = {e \in l.provenance : e.field \notin gaps \cup new}
                         \cup {[field |-> f, source |-> "cpu_database"] : f \in gaps \cup new}
      BY DEF Evidence
    <2> HIDE DEF facts, gaps, new, attrs, features, provenance
    <2>7. k = [l EXCEPT !.attrs = attrs, !.features = features, !.provenance = provenance]
      BY <1>1, <1>4
    <2>8. /\ k.attrs = attrs /\ k.features = features /\ k.provenance = provenance
          /\ \A f \in Fields \ {"attrs", "features", "provenance"} : k[f] = l[f]
          /\ k = [f \in Fields |-> k[f]]
      BY <1>2, <2>7 DEF Fields
    <2>9. IsListing(k) /\ Described(k)
      BY <2>4, <2>8 DEF IsListing, Described, Fields
    <2>10. ASSUME NEW a \in Attributes, a \notin gaps
           PROVE  {e \in provenance : e.field = a} = {e \in l.provenance : e.field = a}
      <3>1. a \notin gaps \cup new
        BY <2>3, <2>10
      <3> QED
        BY <2>5, <3>1
    <2>11. ASSUME NEW a \in gaps
           PROVE  {e \in provenance : e.field = a} = {[field |-> a, source |-> "cpu_database"]}
      BY <2>5, <2>11
    <2>12. ASSUME NEW a \in Attributes
           PROVE  \/ /\ k.attrs[a] = l.attrs[a]
                     /\ {e \in k.provenance : e.field = a} = {e \in l.provenance : e.field = a}
                  \/ /\ l.attrs[a] = Null /\ k.attrs[a] # Null
                     /\ a \in {"physical_cores", "threads", "virtualization"}
                     /\ {e \in k.provenance : e.field = a} = {[field |-> a, source |-> "cpu_database"]}
      BY <2>2, <2>4, <2>8, <2>10, <2>11
    <2>13. Gaps(k.attrs, facts.attrs) = {} /\ facts.features \subseteq k.features
      BY <2>3, <2>4, <2>8
    <2>14. IsNode(l.attrs) => IsNode(k.attrs)
      BY <2>4, <2>8
    <2> HIDE DEF facts
    <2> QED
      BY <1>4, <2>8, <2>9, <2>12, <2>13, <2>14 DEF facts
  <1> QED
    BY <1>3, <1>4

\* An attribute and its evidence are as they were, or were filled from one of the tables.
Honest(k, l, a) ==
  \/ /\ k.attrs[a] = l.attrs[a]
     /\ {e \in k.provenance : e.field = a} = {e \in l.provenance : e.field = a}
  \/ /\ l.attrs[a] = Null /\ k.attrs[a] # Null
     /\ \E source \in {"manufacturer_spec", "cpu_database"} :
          {e \in k.provenance : e.field = a} = {[field |-> a, source |-> source]}

\* Enriching completes a listing, contradicts nothing, and is complete.
LEMMA Completed ==
  ASSUME NEW l, IsListing(l), Described(l), NEW k, k = enrich(l)
  PROVE  /\ IsListing(k) /\ Described(k)
         /\ \A f \in Fields \ {"maker", "attrs", "features", "provenance"} : k[f] = l[f]
         /\ l.maker # Null => k.maker = l.maker
         /\ \A a \in Attributes : Honest(k, l, a)
         /\ \A a \in {"memory_gb", "storage_gb"} : k.attrs[a] = l.attrs[a]
         /\ IsNode(l.attrs) => IsNode(k.attrs)
         /\ enrich(k) = k
  <1> DEFINE m == _enrich_machine(l)
  <1>1. /\ IsListing(m) /\ Described(m)
        /\ \A f \in Fields \ {"maker", "attrs", "provenance"} : m[f] = l[f]
        /\ l.maker # Null => m.maker = l.maker
        /\ MachineFacts[l.title] # Null =>
             m.maker # Null /\ Gaps(m.attrs, MachineFacts[l.title].attrs) = {}
        /\ \A a \in Attributes :
             \/ /\ m.attrs[a] = l.attrs[a]
                /\ {e \in m.provenance : e.field = a} = {e \in l.provenance : e.field = a}
             \/ /\ l.attrs[a] = Null /\ m.attrs[a] # Null
                /\ a \in {"max_memory_gb", "tpm_2", "secure_boot"}
                /\ {e \in m.provenance : e.field = a} = {[field |-> a, source |-> "manufacturer_spec"]}
    BY MachineEnriched
  <1>2. k = _enrich_cpu(m)
    BY DEF enrich
  <1> HIDE DEF m
  <1>3. /\ IsListing(k) /\ Described(k)
        /\ \A f \in Fields \ {"attrs", "features", "provenance"} : k[f] = m[f]
        /\ CpuFacts[m.cpu] # Null =>
             /\ Gaps(k.attrs, CpuFacts[m.cpu].attrs) = {}
             /\ CpuFacts[m.cpu].features \subseteq k.features
        /\ IsNode(m.attrs) => IsNode(k.attrs)
        /\ \A a \in Attributes :
             \/ /\ k.attrs[a] = m.attrs[a]
                /\ {e \in k.provenance : e.field = a} = {e \in m.provenance : e.field = a}
             \/ /\ m.attrs[a] = Null /\ k.attrs[a] # Null
                /\ a \in {"physical_cores", "threads", "virtualization"}
                /\ {e \in k.provenance : e.field = a} = {[field |-> a, source |-> "cpu_database"]}
    BY <1>1, <1>2, CpuEnriched
  <1>4. /\ \A f \in Fields \ {"maker", "attrs", "features", "provenance"} : k[f] = l[f]
        /\ k.title = l.title /\ k.cpu = m.cpu /\ k.maker = m.maker
    BY <1>1, <1>3 DEF Fields
  <1>5. \A a \in Attributes : Honest(k, l, a)
    BY <1>1, <1>3 DEF Honest
  <1>6. \A a \in {"memory_gb", "storage_gb"} : k.attrs[a] = l.attrs[a]
    BY <1>1, <1>3 DEF Attributes
  <1>7. MachineFacts[k.title] # Null => k.maker # Null /\ Gaps(k.attrs, MachineFacts[k.title].attrs) = {}
    BY <1>1, <1>3, <1>4 DEF Gaps
  <1>8. _enrich_machine(k) = k
    BY <1>3, <1>7, MachineSettled
  <1>9. _enrich_cpu(k) = k
    BY <1>3, <1>4, CpuSettled
  <1>10. enrich(k) = k
    BY <1>8, <1>9 DEF enrich
  <1>11. IsNode(l.attrs) => IsNode(m.attrs)
    BY <1>1 DEF IsNode, PerNode, Attributes
  <1> QED
    BY <1>1, <1>3, <1>4, <1>5, <1>6, <1>10, <1>11

-----------------------------------------------------------------------------
(* Normalization.                                                          *)

FitsMemory(size) == size.unit = "GB" /\ size.amount \in MemorySizes

InGB(size) == IF size.unit = "TB" THEN 1000 * size.amount ELSE size.amount

\* The first size that memory comes in; the last that storage comes in.
LEMMA SizesRead ==
  ASSUME NEW sizes, IsList(sizes)
  PROVE  /\ (\A n \in DOMAIN sizes : ~FitsMemory(sizes[n])) => Memory(sizes) = Null
         /\ (\E n \in DOMAIN sizes : FitsMemory(sizes[n])) =>
              \E n \in DOMAIN sizes : FitsMemory(sizes[n]) /\ Memory(sizes) = sizes[n].amount
         /\ (\A n \in DOMAIN sizes : sizes[n].amount \notin StorageSizes) => Storage(sizes) = Null
         /\ (\E n \in DOMAIN sizes : sizes[n].amount \in StorageSizes) =>
              \E n \in DOMAIN sizes : /\ sizes[n].amount \in StorageSizes
                                      /\ Storage(sizes) = InGB(sizes[n])
  <1>1. /\ (\A n \in DOMAIN sizes : ~FitsMemory(sizes[n])) => Memory(sizes) = Null
        /\ (\E n \in DOMAIN sizes : FitsMemory(sizes[n])) =>
             \E n \in DOMAIN sizes : FitsMemory(sizes[n]) /\ Memory(sizes) = sizes[n].amount
    <2> DEFINE kept == {n \in DOMAIN sizes : sizes[n].unit = "GB" /\ sizes[n].amount \in MemorySizes}
               hits == Filtered(sizes, kept)
    <2>1. kept \in SUBSET (DOMAIN sizes)
      OBVIOUS
    <2>2. Memory(sizes) = IF hits = <<>> THEN Null ELSE hits[1].amount
      BY DEF Memory
    <2>3. \A n \in DOMAIN sizes : n \in kept <=> FitsMemory(sizes[n])
      BY DEF FitsMemory
    <2> HIDE DEF kept
    <2>4. /\ kept = {} <=> hits = <<>>
          /\ kept # {} => 1 \in DOMAIN hits
      BY <2>1, FilteredEnds
    <2>5. \A n \in DOMAIN hits : \E i \in kept : hits[n] = sizes[i]
      BY <2>1, FilteredFrom
    <2> HIDE DEF hits
    <2> QED
      BY <2>1, <2>2, <2>3, <2>4, <2>5
  <1>2. /\ (\A n \in DOMAIN sizes : sizes[n].amount \notin StorageSizes) => Storage(sizes) = Null
        /\ (\E n \in DOMAIN sizes : sizes[n].amount \in StorageSizes) =>
             \E n \in DOMAIN sizes : /\ sizes[n].amount \in StorageSizes
                                     /\ Storage(sizes) = InGB(sizes[n])
    <2> DEFINE kept == {n \in DOMAIN sizes : sizes[n].amount \in StorageSizes}
               hits == Filtered(sizes, kept)
               last == hits[Len(hits)]
    <2>1. kept \in SUBSET (DOMAIN sizes)
      OBVIOUS
    <2>2. Storage(sizes) = IF hits = <<>> THEN Null ELSE InGB(last)
      BY DEF Storage, InGB
    <2>3. \A n \in DOMAIN sizes : n \in kept <=> sizes[n].amount \in StorageSizes
      OBVIOUS
    <2> HIDE DEF kept
    <2>4. /\ kept = {} <=> hits = <<>>
          /\ kept # {} => Len(hits) \in DOMAIN hits
      BY <2>1, FilteredEnds
    <2>5. \A n \in DOMAIN hits : \E i \in kept : hits[n] = sizes[i]
      BY <2>1, FilteredFrom
    <2> HIDE DEF hits
    <2> QED
      BY <2>1, <2>2, <2>3, <2>4, <2>5
  <1> QED
    BY <1>1, <1>2

\* What an adapter gets a listing from.
Readable(payload) == IsPayload(payload) /\ ~Unreadable(payload) /\ ~Invalid(payload)

LEMMA NormalizedTyped ==
  ASSUME NEW payload, Readable(payload), NEW name, NEW raw
  PROVE  /\ IsListing(normalize_listing(name, payload, raw))
         /\ Described(normalize_listing(name, payload, raw))
         /\ IsNode(normalize_listing(name, payload, raw).attrs)
         /\ normalize_listing(name, payload, raw).provider = name
  <1> DEFINE l == normalize_listing(name, payload, raw)
             sizes == Titles[payload.title].sizes
             attrs == AttributesOf(payload)
  <1>1. /\ IsList(sizes) /\ \A n \in DOMAIN sizes : sizes[n].amount \in Nat
        /\ Titles[payload.title].nvme \in BOOLEAN
        /\ payload.title \in DOMAIN MachineFacts /\ Titles[payload.title].cpu \in DOMAIN CpuFacts
    BY TitlesAssumption, ResponsesAssumption DEF Readable, IsPayload
  <1>2. /\ payload.price \in Int /\ payload.shipping \in Int /\ payload.cover \in 0 .. 2
        /\ payload.price >= 0 /\ payload.shipping >= 0
        /\ attrs["seller_rating_percent"] \in (0 .. 100) \cup {Null}
        /\ attrs["seller_feedback_count"] \in Nat \cup {Null}
        /\ payload.quantity \in Nat \cup {Null}
    BY DEF Readable, IsPayload, Unreadable, Invalid, Valid
  <1>3. Memory(sizes) \in Int \cup {Null} /\ (Memory(sizes) # Null => Memory(sizes) > 0)
    <2>1. Memory(sizes) = Null \/ Memory(sizes) \in MemorySizes
      BY <1>1, SizesRead DEF FitsMemory
    <2> QED
      BY <2>1, NullIsNone DEF MemorySizes
  <1>4. Storage(sizes) \in Nat \cup {Null}
    <2>1. \A n \in DOMAIN sizes : InGB(sizes[n]) \in Nat
      BY <1>1 DEF InGB
    <2> QED
      BY <1>1, <2>1, SizesRead
  <1>5. /\ attrs = [a \in Attributes |-> attrs[a]]
        /\ attrs["memory_gb"] = Memory(sizes) /\ attrs["storage_gb"] = Storage(sizes)
        /\ \A a \in Attributes \ {"memory_gb", "storage_gb", "seller_rating_percent",
                                  "seller_feedback_count"} : attrs[a] = Null
    BY DEF AttributesOf, Unknown, Attributes
  <1>6. IsAttributes(attrs)
    <2>1. \A a \in Attributes : attrs[a] \in Int \cup {Null}
      BY <1>2, <1>3, <1>4, <1>5
    <2>2. \A a \in Security : attrs[a] = Null
      BY <1>5 DEF Attributes, Security
    <2> HIDE DEF attrs
    <2> QED
      BY <1>2, <1>5, <2>1, <2>2 DEF IsAttributes
  <1>7. /\ l = [f \in Fields |-> l[f]] /\ l.attrs = attrs /\ l.nvme = Titles[payload.title].nvme
        /\ l.price = payload.price + payload.shipping /\ l.stock = payload.quantity
        /\ l.cover = payload.cover /\ l.title = payload.title /\ l.cpu = Titles[payload.title].cpu
        /\ l.provider = name
    BY DEF normalize_listing, Fields
  <1>9. IsNode(attrs)
    <2>1. attrs["physical_cores"] = Null /\ attrs["threads"] = Null
      BY <1>5 DEF Attributes
    <2> HIDE DEF attrs
    <2> QED
      BY <1>3, <1>5, <2>1 DEF IsNode, PerNode
  <1> HIDE DEF l, attrs, sizes
  <1>8. IsListing(l) /\ Described(l)
    BY <1>1, <1>2, <1>6, <1>7 DEF IsListing, Described
  <1> QED
    BY <1>7, <1>8, <1>9 DEF l

-----------------------------------------------------------------------------
(* What a provider answers.                                                *)

\* The provider object of a site.
Serves(p, site) ==
  /\ p.name = site.name /\ p.trust = site.trust /\ p.max_listings = site.max_listings
  /\ p.kind \in {"ebay", "generic", "restricted", "plugin", "none"}
  /\ Implementation(site) \in DOMAIN BuiltIn => p.kind = BuiltIn[Implementation(site)]
  /\ Implementation(site) \notin DOMAIN BuiltIn => p.kind \in {"plugin", "none"}

\* A failure has no listings; listings are well-formed, and an adapter's are normalized.
\* Only a plugin says by itself that it is unsupported.
IsAnswer(p, o) ==
  /\ IsList(o.found)
  /\ o.found # <<>> => o.status = "available"
  /\ p.kind # "plugin" => (o.status = "unsupported" <=> Unsupported(p))
  /\ \A i \in DOMAIN o.found :
       /\ IsListing(o.found[i]) /\ Described(o.found[i])
       /\ p.kind # "plugin" => \E payload, raw :
            Readable(payload) /\ o.found[i] = normalize_listing(p.name, payload, raw)

LEMMA EmptyList == IsList(<<>>) /\ DOMAIN <<>> = {} /\ Len(<<>>) = 0
  BY DEF IsList, Range

LEMMA FailedAnswer ==
  ASSUME NEW p, NEW status, p.kind # "plugin" => (status = "unsupported" <=> Unsupported(p))
  PROVE  IsAnswer(p, Failed(status))
  BY EmptyList DEF Failed, IsAnswer

LEMMA CanonicalPayload ==
  ASSUME NEW p, NEW item, IsPayload(item)
  PROVE  IsPayload(Canonical(p, item))
  <1> DEFINE filled == [item EXCEPT !.shipping = 0]
  <1>1. /\ item = [f \in PayloadFields |-> item[f]] /\ "shipping" \in PayloadFields
        /\ "title" \in PayloadFields /\ "cover" \in PayloadFields
        /\ {"price", "quantity", "rating", "feedback"} \subseteq PayloadFields
    BY DEF IsPayload, PayloadFields
  <1>2. /\ filled = [f \in PayloadFields |-> filled[f]] /\ filled.shipping = 0
        /\ \A f \in PayloadFields \ {"shipping"} : filled[f] = item[f]
    BY <1>1
  <1> HIDE DEF filled
  <1>3. /\ filled.title = item.title /\ filled.cover = item.cover /\ filled.price = item.price
        /\ filled.quantity = item.quantity /\ filled.rating = item.rating
        /\ filled.feedback = item.feedback
    BY <1>1, <1>2
  <1>4. IsPayload(filled)
    BY <1>2, <1>3 DEF IsPayload
  <1>5. Canonical(p, item) = item \/ Canonical(p, item) = filled
    BY DEF Canonical, filled
  <1> QED
    BY <1>4, <1>5

LEMMA ItemsCut ==
  ASSUME NEW p, p.max_listings \in Nat, NEW response, IsList(response.items)
  PROVE  /\ IsList(Items(p, response))
         /\ \A i \in DOMAIN Items(p, response) : /\ i \in DOMAIN response.items
                                                 /\ Items(p, response)[i] = response.items[i]
  <1> DEFINE s == response.items
             m == p.max_listings
             cut == SubSeq(s, 1, m)
  <1>1. /\ Len(s) \in Nat /\ DOMAIN s = 1 .. Len(s)
        /\ s = [n \in 1 .. Len(s) |-> s[n]] /\ s \in Seq(Range(s))
    BY ListIs DEF IsList
  <1>2. CASE p.kind = "generic" /\ Len(s) > m
    <2>1. Items(p, response) = cut
      BY <1>2 DEF Items
    <2> HIDE DEF s, m
    <2>2. cut \in Seq(Range(s)) /\ Len(cut) = m /\ \A i \in 1 .. m : cut[i] = s[i]
      BY <1>1, <1>2 DEF m
    <2> HIDE DEF cut
    <2>3. DOMAIN cut = 1 .. m /\ cut = [n \in 1 .. m |-> cut[n]] /\ m \in Nat
      BY <2>2 DEF m
    <2>4. IsList(cut)
      BY <2>3, ListOf
    <2>5. \A i \in DOMAIN cut : i \in DOMAIN s /\ cut[i] = s[i]
      BY <1>1, <1>2, <2>2, <2>3
    <2> QED
      BY <2>1, <2>4, <2>5 DEF s
  <1>3. CASE ~(p.kind = "generic" /\ Len(s) > m)
    BY <1>3 DEF Items
  <1> QED
    BY <1>2, <1>3

LEMMA AdaptedAnswer ==
  ASSUME NEW p, ~Unsupported(p), p.kind # "plugin", NEW items, IsList(items),
         \A i \in DOMAIN items : IsPayload(items[i])
  PROVE  IsAnswer(p, Adapted(p, items))
  <1> DEFINE payload == [n \in DOMAIN items |-> Canonical(p, items[n])]
             refused == {n \in DOMAIN items : Unreadable(payload[n]) \/ Invalid(payload[n])}
             found == [n \in DOMAIN items |-> normalize_listing(p.name, payload[n], <<p.name, n>>)]
  <1>1. CASE refused = {}
    <2>1. Adapted(p, items) = Available(found)
      BY <1>1 DEF Adapted
    <2>2. \A n \in DOMAIN items : IsPayload(payload[n])
      BY CanonicalPayload
    <2>3. \A n \in DOMAIN items : Readable(payload[n])
      BY <1>1, <2>2 DEF Readable
    <2>4. DOMAIN found = DOMAIN items /\ IsList(found)
      <3>1. found = [n \in DOMAIN items |-> found[n]]
        OBVIOUS
      <3> HIDE DEF found
      <3> QED
        BY <3>1, MappedList
    <2>5. \A n \in DOMAIN found : found[n] = normalize_listing(p.name, payload[n], <<p.name, n>>)
      OBVIOUS
    <2> HIDE DEF found, payload
    <2>6. ASSUME NEW n \in DOMAIN found
          PROVE  IsListing(found[n]) /\ Described(found[n])
      <3>1. Readable(payload[n]) /\ found[n] = normalize_listing(p.name, payload[n], <<p.name, n>>)
        BY <2>3, <2>4, <2>5
      <3> QED
        BY <3>1, NormalizedTyped
    <2>7. Available(found).found = found /\ Available(found).status = "available"
      BY DEF Available
    <2> QED
      BY <2>1, <2>3, <2>4, <2>5, <2>6, <2>7 DEF IsAnswer
  <1>2. CASE refused # {}
    <2>1. \E status \in {"unavailable", "error"} : Adapted(p, items) = Failed(status)
      BY <1>2 DEF Adapted
    <2> QED
      BY <2>1, FailedAnswer
  <1> QED
    BY <1>1, <1>2

LEMMA OutcomeAnswer ==
  ASSUME NEW n \in DOMAIN Sites, NEW p, Serves(p, Sites[n]),
         NEW response \in Responses[Sites[n].name], ~Unmeasurable(p, response)
  PROVE  IsAnswer(p, Outcome(p, response))
  <1>1. CASE Unsupported(p)
    BY <1>1, FailedAnswer DEF Outcome
  <1>2. CASE ~Unsupported(p) /\ response.status \in Failures
    <2>1. ASSUME p.kind # "plugin" PROVE response.status # "unsupported"
      <3>1. IsAdapted(Sites[n])
        BY <1>2, <2>1 DEF Serves, Unsupported, IsAdapted, Implementation, Or
      <3> QED
        BY <3>1, ResponsesAssumption
    <2> QED
      BY <1>2, <2>1, FailedAnswer DEF Outcome
  <1>3. CASE ~Unsupported(p) /\ response.status \notin Failures /\ p.kind = "plugin"
    <2>1. ~IsAdapted(Sites[n])
      BY <1>3 DEF Serves, IsAdapted, Implementation, Or
    <2>2. /\ IsList(response.items)
          /\ \A i \in DOMAIN response.items :
               IsListing(response.items[i]) /\ Described(response.items[i])
      BY <1>3, <2>1, ResponsesAssumption DEF Unmeasurable
    <2>3. Outcome(p, response) = Available(response.items)
      BY <1>3 DEF Outcome
    <2> QED
      BY <1>3, <2>2, <2>3 DEF Available, IsAnswer
  <1>4. CASE ~Unsupported(p) /\ response.status \notin Failures /\ p.kind # "plugin"
    <2>1. IsAdapted(Sites[n])
      BY <1>4 DEF Serves, Unsupported, IsAdapted, Implementation, Or
    <2>2. /\ IsList(response.items)
          /\ \A i \in DOMAIN response.items : IsPayload(response.items[i])
      BY <2>1, ResponsesAssumption
    <2>3. p.max_listings \in Nat
      BY ServiceAssumption DEF ValidSites, Serves, Positive
    <2>4. /\ IsList(Items(p, response))
          /\ \A i \in DOMAIN Items(p, response) : IsPayload(Items(p, response)[i])
      BY <2>2, <2>3, ItemsCut
    <2>5. Outcome(p, response) = Adapted(p, Items(p, response))
      BY <1>4 DEF Outcome
    <2> QED
      BY <1>4, <2>4, <2>5, AdaptedAnswer
  <1> QED
    BY <1>1, <1>2, <1>3, <1>4

-----------------------------------------------------------------------------
(* Which providers there are.                                              *)

\* f holds the factories after each of the entry points.
Discovers(f, entry_points, N) ==
  f = [n \in 0 .. N |->
         IF n = 0 THEN BuiltIn
         ELSE LET factories == f[n - 1]
                  entry == entry_points[n]
              IN  IF factories = Null THEN Null
                  ELSE IF Registered(entry.name, factories) THEN factories
                  ELSE IF entry.loads THEN WithPlugin(entry.name, factories)
                  ELSE Null]

\* One entry point's effect.
Loaded(factories, entry) ==
  IF factories = Null THEN Null
  ELSE IF Registered(entry.name, factories) THEN factories
  ELSE IF entry.loads THEN WithPlugin(entry.name, factories)
  ELSE Null

LEMMA DiscoversExist ==
  ASSUME NEW entry_points, NEW N \in Nat
  PROVE  \E f : Discovers(f, entry_points, N)
  <1> DEFINE S == {k \in Nat : \E f : Discovers(f, entry_points, k)}
  <1>0. ASSUME NEW f, NEW k \in Nat
        PROVE  Discovers(f, entry_points, k) <=>
                 f = [n \in 0 .. k |-> IF n = 0 THEN BuiltIn ELSE Loaded(f[n - 1], entry_points[n])]
    BY DEF Discovers, Loaded
  <1>1. 0 \in S
    <2> DEFINE f == [n \in 0 .. 0 |-> BuiltIn]
    <2>1. f = [n \in 0 .. 0 |-> IF n = 0 THEN BuiltIn ELSE Loaded(f[n - 1], entry_points[n])]
      OBVIOUS
    <2>2. Discovers(f, entry_points, 0)
      BY <1>0, <2>1
    <2> QED
      BY <2>2
  <1>2. ASSUME NEW k \in 0 .. N - 1, k \in S PROVE k + 1 \in S
    <2>1. PICK f : Discovers(f, entry_points, k)
      BY <1>2
    <2> DEFINE h == [j \in 0 .. k + 1 |-> IF j = k + 1 THEN Loaded(f[k], entry_points[k + 1]) ELSE f[j]]
    <2>2. \A j \in 0 .. k : h[j] = f[j] /\ f[j] = IF j = 0 THEN BuiltIn ELSE Loaded(f[j - 1], entry_points[j])
      BY <1>0, <2>1
    <2>3. ASSUME NEW j \in 0 .. k + 1
          PROVE  h[j] = IF j = 0 THEN BuiltIn ELSE Loaded(h[j - 1], entry_points[j])
      <3>1. CASE j = k + 1
        <4>1. j # 0 /\ j - 1 = k /\ k \in 0 .. k
          BY <3>1
        <4>2. h[j] = Loaded(f[k], entry_points[k + 1])
          BY <3>1
        <4> QED
          BY <2>2, <3>1, <4>1, <4>2
      <3>2. CASE j \in 0 .. k
        <4>1. j # 0 => j - 1 \in 0 .. k
          BY <3>2
        <4> QED
          BY <2>2, <3>2, <4>1
      <3> QED
        BY <3>1, <3>2
    <2>4. h = [j \in 0 .. k + 1 |-> h[j]]
      OBVIOUS
    <2> HIDE DEF h
    <2>5. h = [j \in 0 .. k + 1 |-> IF j = 0 THEN BuiltIn ELSE Loaded(h[j - 1], entry_points[j])]
      BY <2>3, <2>4
    <2>6. Discovers(h, entry_points, k + 1)
      BY <1>0, <2>5
    <2> QED
      BY <2>6
  <1> HIDE DEF S
  <1>3. 0 .. N \subseteq S
    BY <1>1, <1>2, Induction
  <1> QED
    BY <1>3 DEF S

\* The built-in factories are kept, whatever the entry points register.
KeepsBuiltIn(factories) ==
  /\ DOMAIN BuiltIn \subseteq DOMAIN factories
  /\ \A name \in DOMAIN BuiltIn : factories[name] = BuiltIn[name]
  /\ \A name \in DOMAIN factories \ DOMAIN BuiltIn : factories[name] = "plugin"

LEMMA LoadedKeeps ==
  ASSUME NEW factories, factories = Null \/ KeepsBuiltIn(factories), NEW entry
  PROVE  Loaded(factories, entry) = Null \/ KeepsBuiltIn(Loaded(factories, entry))
  <1>1. CASE KeepsBuiltIn(factories) /\ ~Registered(entry.name, factories) /\ entry.loads
    <2> DEFINE more == WithPlugin(entry.name, factories)
    <2>1. /\ DOMAIN more = {entry.name} \cup DOMAIN factories
          /\ more[entry.name] = "plugin"
          /\ \A name \in DOMAIN factories : name # entry.name => more[name] = factories[name]
      BY DEF WithPlugin
    <2>2. entry.name \notin DOMAIN factories
      BY <1>1 DEF Registered
    <2> HIDE DEF more
    <2>3. KeepsBuiltIn(more)
      BY <1>1, <2>1, <2>2 DEF KeepsBuiltIn
    <2>4. Loaded(factories, entry) \in {Null, more}
      BY <1>1 DEF Loaded, more
    <2> QED
      BY <2>3, <2>4
  <1>2. CASE ~(KeepsBuiltIn(factories) /\ ~Registered(entry.name, factories) /\ entry.loads)
    BY <1>2 DEF Loaded
  <1> QED
    BY <1>1, <1>2

LEMMA DiscoveredKeeps ==
  ASSUME NEW entry_points \in Plugins, discover_provider_plugins(entry_points) # Null
  PROVE  KeepsBuiltIn(discover_provider_plugins(entry_points))
  <1> DEFINE N == Len(entry_points)
             f == CHOOSE g : Discovers(g, entry_points, N)
             S == {k \in 0 .. N : f[k] = Null \/ KeepsBuiltIn(f[k])}
  <1>1. N \in Nat
    BY ServiceAssumption, ListIs
  <1>2. discover_provider_plugins(entry_points) = f[N]
    BY DEF discover_provider_plugins, Discovers
  <1> HIDE DEF N
  <1>3. Discovers(f, entry_points, N)
    BY <1>1, DiscoversExist
  <1> HIDE DEF f
  <1>4. \A n \in 0 .. N : f[n] = IF n = 0 THEN BuiltIn ELSE Loaded(f[n - 1], entry_points[n])
    BY <1>3 DEF Discovers, Loaded
  <1>5. 0 \in S
    BY <1>1, <1>4 DEF KeepsBuiltIn
  <1>6. ASSUME NEW k \in 0 .. N - 1, k \in S PROVE k + 1 \in S
    <2>1. k + 1 \in 0 .. N /\ k + 1 # 0 /\ (k + 1) - 1 = k
      BY <1>1
    <2>2. f[k + 1] = Loaded(f[k], entry_points[k + 1])
      BY <1>4, <2>1
    <2> QED
      BY <1>6, <2>1, <2>2, LoadedKeeps
  <1> HIDE DEF S
  <1>7. 0 .. N \subseteq S
    BY <1>1, <1>5, <1>6, Induction
  <1>8. f[N] = Null \/ KeepsBuiltIn(f[N])
    BY <1>1, <1>7 DEF S
  <1> QED
    BY <1>2, <1>8

\* The site was asked for by name, or none was and it is enabled.
Asked(names, site) == IF names = {} THEN site.enabled ELSE site.name \in names

LEMMA ProvidersServe ==
  ASSUME NEW names, NEW sites, sites = _select_sites(Sites, names), sites # Null,
         NEW factories, KeepsBuiltIn(factories),
         NEW objects, objects = create_enabled_providers(sites, factories)
  PROVE  /\ IsList(objects)
         /\ \A m \in DOMAIN objects : \E n \in DOMAIN Sites :
              Asked(names, Sites[n]) /\ Serves(objects[m], Sites[n])
         /\ \A n \in DOMAIN Sites : Asked(names, Sites[n]) =>
              \E m \in DOMAIN objects : objects[m].name = Sites[n].name
  <1>1. /\ IsList(Sites)
        /\ \A n \in DOMAIN Sites :
             Sites[n] \in [name : STRING, provider : STRING \cup {Null}, enabled : BOOLEAN,
                           trust : 0 .. 100, max_listings : Positive]
    BY ServiceAssumption DEF ValidSites
  <1>2. /\ IsList(sites) /\ DOMAIN sites = DOMAIN Sites
        /\ \A n \in DOMAIN Sites :
             /\ sites[n].name = Sites[n].name /\ sites[n].provider = Sites[n].provider
             /\ sites[n].trust = Sites[n].trust /\ sites[n].max_listings = Sites[n].max_listings
             /\ sites[n].enabled <=> Asked(names, Sites[n])
    <2>1. CASE names = {}
      BY <1>1, <2>1 DEF _select_sites, Asked
    <2>2. CASE names # {}
      <3>1. sites = [n \in DOMAIN Sites |-> [Sites[n] EXCEPT !.enabled = Sites[n].name \in names]]
        BY <2>2 DEF _select_sites
      <3>2. IsList(sites) /\ DOMAIN sites = DOMAIN Sites
        <4>1. sites = [n \in DOMAIN Sites |-> sites[n]]
          BY <3>1
        <4> QED
          BY <1>1, <4>1, MappedList
      <3>3. ASSUME NEW n \in DOMAIN Sites
            PROVE  /\ sites[n].name = Sites[n].name /\ sites[n].provider = Sites[n].provider
                   /\ sites[n].trust = Sites[n].trust /\ sites[n].max_listings = Sites[n].max_listings
                   /\ sites[n].enabled = (Sites[n].name \in names)
        <4>1. sites[n] = [Sites[n] EXCEPT !.enabled = Sites[n].name \in names]
          BY <3>1
        <4> QED
          BY <1>1, <4>1
      <3> QED
        BY <2>2, <3>2, <3>3 DEF Asked
    <2> QED
      BY <2>1, <2>2
  <1> DEFINE kept == {n \in DOMAIN sites : sites[n].enabled}
             enabled == Filtered(sites, kept)
             kind(site) == IF Implementation(site) \in DOMAIN factories
                             THEN factories[Implementation(site)] ELSE "none"
  <1>3. objects = [n \in DOMAIN enabled |-> [name         |-> enabled[n].name,
                                             kind         |-> kind(enabled[n]),
                                             trust        |-> enabled[n].trust,
                                             max_listings |-> enabled[n].max_listings]]
    BY DEF create_enabled_providers
  <1>4. kept \in SUBSET (DOMAIN sites) /\ \A n \in DOMAIN sites : n \in kept <=> sites[n].enabled
    OBVIOUS
  <1> HIDE DEF kept
  <1>5. /\ IsList(enabled)
        /\ \A m \in DOMAIN enabled : \E n \in kept : enabled[m] = sites[n]
        /\ \A n \in kept : \E m \in DOMAIN enabled : enabled[m] = sites[n]
    BY <1>2, <1>4, FilteredFrom
  <1> HIDE DEF enabled
  <1>6. /\ DOMAIN objects = DOMAIN enabled /\ objects = [n \in DOMAIN enabled |-> objects[n]]
        /\ \A m \in DOMAIN enabled :
             /\ objects[m].name = enabled[m].name /\ objects[m].trust = enabled[m].trust
             /\ objects[m].max_listings = enabled[m].max_listings /\ objects[m].kind = kind(enabled[m])
    BY <1>3
  <1>7. IsList(objects)
    BY <1>5, <1>6, MappedList
  <1>8. ASSUME NEW m \in DOMAIN objects
        PROVE  \E n \in DOMAIN Sites : Asked(names, Sites[n]) /\ Serves(objects[m], Sites[n])
    <2>1. PICK n \in kept : enabled[m] = sites[n]
      BY <1>5, <1>6
    <2>2. n \in DOMAIN Sites /\ Asked(names, Sites[n])
      BY <1>2, <1>4, <2>1
    <2>3. Implementation(enabled[m]) = Implementation(Sites[n])
      BY <1>2, <2>1, <2>2 DEF Implementation
    <2>4. /\ objects[m].kind \in {"ebay", "generic", "restricted", "plugin", "none"}
          /\ Implementation(Sites[n]) \in DOMAIN BuiltIn => objects[m].kind = BuiltIn[Implementation(Sites[n])]
          /\ Implementation(Sites[n]) \notin DOMAIN BuiltIn => objects[m].kind \in {"plugin", "none"}
      <3>1. objects[m].kind = kind(enabled[m])
        BY <1>6
      <3> QED
        BY <2>3, <3>1, FactoriesAssumption DEF KeepsBuiltIn
    <2> QED
      BY <1>2, <1>6, <2>1, <2>2, <2>4 DEF Serves
  <1>9. ASSUME NEW n \in DOMAIN Sites, Asked(names, Sites[n])
        PROVE  \E m \in DOMAIN objects : objects[m].name = Sites[n].name
    BY <1>2, <1>4, <1>5, <1>6, <1>9
  <1> QED
    BY <1>7, <1>8, <1>9

-----------------------------------------------------------------------------
(* The invariant: the search has the request, providers of the sites that    *)
(* were asked for and well-formed answers; the run is what the pipeline      *)
(* makes of exactly these, or the pipeline fails over them.                  *)

Prepared ==
  /\ args \in Invocations
  /\ criteria = apply_overrides(Config, args)
  /\ args.quantity # Null => args.quantity >= 1

Served ==
  /\ IsList(providers)
  /\ \A m \in DOMAIN providers : \E n \in DOMAIN Sites :
       Asked(args.provider, Sites[n]) /\ Serves(providers[m], Sites[n])
  /\ \A n \in DOMAIN Sites : Asked(args.provider, Sites[n]) =>
       \E m \in DOMAIN providers : providers[m].name = Sites[n].name

Answers ==
  /\ DOMAIN answer = Names
  /\ \A p \in Names : answer[p] = Null \/ IsAnswer(Provider(p), answer[p])

SearchInv ==
  /\ phase \in {"invoked", "refused", "searching", "returned", "raised"}
  /\ phase = "invoked" => criteria = Config
  /\ phase \in {"invoked", "refused"} => providers = <<>>
  /\ phase \in {"searching", "returned", "raised"} => Prepared /\ Served /\ Answers
  /\ Done => /\ \A p \in Names : answer[p] # Null
             /\ ~Fails
             /\ run = SearchRun
  /\ phase = "raised" => \/ (\A p \in Names : answer[p] # Null) /\ Fails
                         \/ \E p \in Names : Provider(p).kind = "plugin" /\ answer[p] = Null

\* A name stands for one provider object, that of its site.
LEMMA ProviderOf ==
  ASSUME Served, NEW p \in Names
  PROVE  /\ \E m \in DOMAIN providers : Provider(p) = providers[m] /\ Provider(p).name = p
         /\ \E n \in DOMAIN Sites : /\ Asked(args.provider, Sites[n]) /\ Sites[n].name = p
                                    /\ Serves(Provider(p), Sites[n])
  <1>1. \E m \in DOMAIN providers : providers[m].name = p
    BY DEF Names
  <1>2. Provider(p) \in {providers[m] : m \in DOMAIN providers} /\ Provider(p).name = p
    BY <1>1 DEF Provider
  <1>3. PICK m \in DOMAIN providers : Provider(p) = providers[m]
    BY <1>2
  <1>4. PICK n \in DOMAIN Sites : Asked(args.provider, Sites[n]) /\ Serves(providers[m], Sites[n])
    BY DEF Served
  <1> QED
    BY <1>2, <1>3, <1>4 DEF Serves

LEMMA SearchInit == ServiceInit => SearchInv
  BY DEF ServiceInit, SearchInv, Done

\* The state functions of the pipeline depend only on what the search was given.
LEMMA RunUnchanged ==
  ASSUME criteria' = criteria, providers' = providers, answer' = answer
  PROVE  /\ (Prepared /\ args' = args) => Prepared'
         /\ (Served /\ args' = args) => Served'
         /\ Answers => Answers'
         /\ Names' = Names /\ (\A p : Provider(p)' = Provider(p))
         /\ Fails' = Fails /\ SearchRun' = SearchRun
  <1>1. Names' = Names
    BY DEF Names
  <1>2. \A p : Provider(p)' = Provider(p)
    BY DEF Provider
  <1>3. Listings' = Listings
    BY DEF Listings
  <1>4. Enriched' = Enriched
    BY <1>3 DEF Enriched, Deduplicated
  <1>5. Candidates' = Candidates
    BY <1>4 DEF Candidates, Passing
  <1>6. Accepted' = Accepted
    BY <1>5 DEF Accepted, Passing
  <1>7. /\ \A l, noted : Scored(l, noted)' = Scored(l, noted)
        /\ \A candidates, l : Noted(candidates, l)' = Noted(candidates, l)
    BY <1>2 DEF Scored, Noted
  <1>14. Observed' = Observed
    BY <1>5, <1>7 DEF Observed
  <1>15. Ranked' = Ranked
    BY <1>5, <1>7 DEF Ranked, Passing
  <1>16. ClusterDeals' = ClusterDeals
    BY <1>14 DEF ClusterDeals
  <1>8. Rejected' = Rejected /\ \A p : Status(p)' = Status(p)
    BY <1>4, <1>6 DEF Rejected, Status
  <1>9. SearchRun' = SearchRun
    BY <1>1, <1>8, <1>14, <1>15, <1>16 DEF SearchRun
  <1>10. Fails' = Fails
    <2>1. Mislabelled' = Mislabelled /\ OffScale' = OffScale
      BY <1>1, <1>5 DEF Mislabelled, OffScale
    <2> QED
      BY <1>16, <2>1 DEF Fails
  <1>11. (Prepared /\ args' = args) => Prepared'
    BY DEF Prepared
  <1>12. (Served /\ args' = args) => Served'
    BY DEF Served
  <1>13. Answers => Answers'
    BY <1>1, <1>2 DEF Answers
  <1> QED
    BY <1>1, <1>2, <1>9, <1>10, <1>11, <1>12, <1>13

LEMMA SearchStep == SearchInv /\ [ServiceNext]_serviceVars => SearchInv'
  <1> SUFFICES ASSUME SearchInv, [ServiceNext]_serviceVars PROVE SearchInv'
    OBVIOUS
  <1>1. ASSUME NEW options \in Invocations, NEW entry_points \in Plugins,
               Prepare(options, entry_points)
        PROVE  SearchInv'
    <2> DEFINE factories == discover_provider_plugins(entry_points)
    <2>1. criteria = Config /\ providers = <<>> /\ args' = options
      BY <1>1 DEF Prepare, SearchInv
    <2>2. CASE phase' = "refused"
      <3>1. UNCHANGED <<criteria, providers, answer>>
        BY <1>1, <2>2 DEF Prepare
      <3> QED
        BY <2>1, <2>2, <3>1 DEF SearchInv, Done
    <2>3. CASE phase' # "refused"
      <3>1. /\ ~Refused(options, factories) /\ phase' = "searching"
            /\ criteria' = apply_overrides(criteria, options)
            /\ providers' = create_enabled_providers(_select_sites(Sites, options.provider), factories)
            /\ answer' = [name \in {providers'[n].name : n \in DOMAIN providers'} |-> Null]
        BY <1>1, <2>3 DEF Prepare
      <3>2. /\ options.quantity # Null => ~(options.quantity < 1)
            /\ _select_sites(Sites, options.provider) # Null /\ factories # Null
        BY <3>1 DEF Refused
      <3>3. options.quantity # Null => options.quantity >= 1
        BY <3>2, ServiceAssumption
      <3>4. Prepared'
        BY <2>1, <3>1, <3>3 DEF Prepared
      <3>5. KeepsBuiltIn(factories)
        BY <3>2, DiscoveredKeeps
      <3> HIDE DEF factories
      <3>6. Served'
        BY <2>1, <3>1, <3>2, <3>5, ProvidersServe DEF Served
      <3>7. Answers'
        BY <3>1 DEF Answers, Names
      <3> QED
        BY <3>1, <3>4, <3>6, <3>7 DEF SearchInv, Done
    <2> QED
      BY <2>2, <2>3
  <1>2. ASSUME NEW p \in Names, NEW response \in Responses[p], SafeSearch(p, response)
        PROVE  SearchInv'
    <2>1. /\ phase = "searching" /\ phase' = phase
          /\ args' = args /\ criteria' = criteria /\ providers' = providers
          /\ answer' = [answer EXCEPT ![p] = Outcome(Provider(p), response)]
      BY <1>2 DEF SafeSearch, commandVars
    <2>2. Prepared /\ Served /\ Answers
      BY <2>1 DEF SearchInv
    <2>3. PICK n \in DOMAIN Sites : Sites[n].name = p /\ Serves(Provider(p), Sites[n])
      BY <2>2, ProviderOf
    <2>4. IsAnswer(Provider(p), Outcome(Provider(p), response))
      BY <1>2, <2>3, OutcomeAnswer DEF SafeSearch
    <2>5. Names' = Names /\ \A q : Provider(q)' = Provider(q)
      BY <2>1 DEF Names, Provider
    <2>6. Answers'
      BY <2>1, <2>2, <2>4, <2>5 DEF Answers
    <2>7. Prepared' /\ Served'
      BY <2>1, <2>2 DEF Prepared, Served
    <2> QED
      BY <2>1, <2>6, <2>7 DEF SearchInv, Done
  <1>3. CASE Assemble
    <2>1. /\ phase = "searching" /\ \A p \in Names : answer[p] # Null
          /\ args' = args /\ criteria' = criteria /\ providers' = providers /\ answer' = answer
      BY <1>3 DEF Assemble, commandVars
    <2>2. \/ phase' = "raised" /\ Fails
          \/ phase' = "returned" /\ ~Fails /\ run' = SearchRun
      BY <1>3 DEF Assemble, Raise, Return
    <2>3. Prepared /\ Served /\ Answers
      BY <2>1 DEF SearchInv
    <2>4. /\ Prepared' /\ Served' /\ Answers' /\ Names' = Names
          /\ Fails' = Fails /\ SearchRun' = SearchRun
      BY <2>1, <2>3, RunUnchanged
    <2> QED
      BY <2>1, <2>2, <2>4 DEF SearchInv, Done
  <1>4. CASE UNCHANGED serviceVars
    <2>1. UNCHANGED <<args, criteria, providers, answer, phase, run>>
      BY <1>4 DEF serviceVars, commandVars
    <2>2. /\ (Prepared => Prepared') /\ (Served => Served') /\ (Answers => Answers')
          /\ Names' = Names /\ (\A p : Provider(p)' = Provider(p))
          /\ Fails' = Fails /\ SearchRun' = SearchRun
      BY <2>1, RunUnchanged
    <2> QED
      BY <2>1, <2>2 DEF SearchInv, Done
  <1>5. ASSUME NEW p \in Names, NEW response \in Responses[p], RaiseUnmeasured(p, response)
        PROVE  SearchInv'
    <2>1. /\ phase = "searching" /\ phase' = "raised" /\ answer[p] = Null
          /\ Provider(p).kind = "plugin"
          /\ args' = args /\ criteria' = criteria /\ providers' = providers /\ answer' = answer
      BY <1>5 DEF RaiseUnmeasured, Unmeasurable, commandVars
    <2>2. Prepared /\ Served /\ Answers
      BY <2>1 DEF SearchInv
    <2>3. /\ Prepared' /\ Served' /\ Answers' /\ Names' = Names
          /\ \A q : Provider(q)' = Provider(q)
      BY <2>1, <2>2, RunUnchanged
    <2>4. \E q \in Names' : Provider(q)'.kind = "plugin" /\ answer'[q] = Null
      BY <2>1, <2>3
    <2> QED
      BY <2>1, <2>3, <2>4 DEF SearchInv, Done
  <1> QED
    BY <1>1, <1>2, <1>3, <1>4, <1>5 DEF ServiceNext

\* In every state of every search: what was asked for, who answers, what they answered
\* and what the run holds belong together.
THEOREM SearchInvariant == ServiceSpec => []SearchInv
  BY SearchInit, SearchStep, PTL DEF ServiceSpec

-----------------------------------------------------------------------------
(* The lists of the pipeline.                                              *)

Answered == Served /\ Answers /\ \A p \in Names : answer[p] # Null

\* The places of the listings that no earlier one resembles.
Kept == {n \in DOMAIN Listings : \A m \in 1 .. n - 1 :
           listing_fingerprint(Listings[m]) # listing_fingerprint(Listings[n])}

\* at[i] is the offer that the i-th listing is.
InOrder(at) ==
  /\ \A i \in DOMAIN Listings : at[i] \in Offers /\ Listings[i] = Offered(at[i])
  /\ \A o \in Offers : \E i \in DOMAIN Listings : at[i] = o
  /\ \A i, j \in DOMAIN Listings : i < j <=> Before(at[i], at[j])

LEMMA OffersAre ==
  \A o : o \in Offers <=> \E n \in DOMAIN providers : \E m \in DOMAIN answer[providers[n].name].found :
                            o = <<n, m>>
  BY DEF Offers

LEMMA ListingsOffered ==
  ASSUME Answered
  PROVE  IsList(Listings) /\ \E at : InOrder(at)
  <1> DEFINE lists == [n \in DOMAIN providers |-> answer[providers[n].name].found]
  <1>1. Listings = Chained(lists) /\ DOMAIN lists = DOMAIN providers
    BY DEF Listings
  <1>2. IsList(lists)
    <2>1. lists = [n \in DOMAIN providers |-> lists[n]]
      OBVIOUS
    <2> HIDE DEF lists
    <2> QED
      BY <2>1, MappedList DEF Answered, Served
  <1>3. \A n \in DOMAIN providers : providers[n].name \in Names
    BY DEF Names
  <1>4. \A p \in Names : IsAnswer(Provider(p), answer[p])
    BY DEF Answered, Answers
  <1>5. \A n \in DOMAIN lists : lists[n] = answer[providers[n].name].found /\ IsList(lists[n])
    BY <1>3, <1>4 DEF IsAnswer
  <1> HIDE DEF lists
  <1>6. DOMAIN lists = 1 .. Len(lists)
    BY <1>2, ListIs
  <1>7. IsList(Listings) /\ \E at : Follows(at, Listings, lists, Len(lists))
    BY <1>1, <1>2, <1>5, ChainedOf
  <1>8. PICK at : Follows(at, Listings, lists, Len(lists))
    BY <1>7
  <1>9. ASSUME NEW i \in DOMAIN Listings
        PROVE  at[i] \in Offers /\ Listings[i] = Offered(at[i])
    <2> DEFINE n == at[i][1]
               m == at[i][2]
    <2>1. /\ at[i] = <<n, m>> /\ n \in DOMAIN lists /\ m \in DOMAIN lists[n]
          /\ Listings[i] = lists[n][m]
      BY <1>6, <1>8 DEF Follows
    <2> HIDE DEF n, m
    <2>2. at[i][1] = n /\ at[i][2] = m
      BY <2>1
    <2>3. lists[n] = answer[providers[n].name].found /\ n \in DOMAIN providers
      BY <1>1, <1>5, <2>1
    <2>4. at[i] \in Offers
      BY <2>1, <2>3, OffersAre
    <2>5. Offered(at[i]) = answer[providers[n].name].found[m]
      BY <2>2 DEF Offered
    <2> QED
      BY <2>1, <2>3, <2>4, <2>5
  <1>10. ASSUME NEW o \in Offers PROVE \E i \in DOMAIN Listings : at[i] = o
    <2>1. PICK n \in DOMAIN providers : \E m \in DOMAIN answer[providers[n].name].found : o = <<n, m>>
      BY OffersAre
    <2>2. PICK m \in DOMAIN lists[n] : o = <<n, m>>
      BY <1>1, <1>5, <2>1
    <2> QED
      BY <1>1, <1>6, <1>8, <2>2 DEF Follows
  <1>11. \A i, j \in DOMAIN Listings : i < j <=> Before(at[i], at[j])
    BY <1>8 DEF Follows, PlaceBefore, Before
  <1> QED
    BY <1>7, <1>9, <1>10, <1>11 DEF InOrder

LEMMA ListingsAnswered ==
  ASSUME Answered
  PROVE  /\ IsList(Listings)
         /\ \A i \in DOMAIN Listings : \E p \in Names : \E j \in DOMAIN answer[p].found :
              Listings[i] = answer[p].found[j]
         /\ \A i \in DOMAIN Listings : IsListing(Listings[i]) /\ Described(Listings[i])
  <1>1. \A p \in Names : IsAnswer(Provider(p), answer[p])
    BY DEF Answered, Answers
  <1>2. IsList(Listings) /\ \E at : InOrder(at)
    BY ListingsOffered
  <1>3. PICK at : InOrder(at)
    BY <1>2
  <1>4. ASSUME NEW i \in DOMAIN Listings
        PROVE  \E p \in Names : \E j \in DOMAIN answer[p].found : Listings[i] = answer[p].found[j]
    <2>1. at[i] \in Offers /\ Listings[i] = Offered(at[i])
      BY <1>3 DEF InOrder
    <2>2. PICK n \in DOMAIN providers : \E m \in DOMAIN answer[providers[n].name].found : at[i] = <<n, m>>
      BY <2>1, OffersAre
    <2>3. PICK m \in DOMAIN answer[providers[n].name].found : at[i] = <<n, m>>
      BY <2>2
    <2>4. Listings[i] = answer[providers[n].name].found[m] /\ providers[n].name \in Names
      BY <2>1, <2>3 DEF Offered, Names
    <2> QED
      BY <2>4
  <1>5. \A i \in DOMAIN Listings : IsListing(Listings[i]) /\ Described(Listings[i])
    BY <1>1, <1>4 DEF IsAnswer
  <1> QED
    BY <1>2, <1>4, <1>5

LEMMA EnrichedLists ==
  ASSUME Answered
  PROVE  /\ IsList(Enriched) /\ Len(Enriched) = Cardinality(Kept) /\ IsFiniteSet(Kept)
         /\ Kept \subseteq DOMAIN Listings
         /\ \A n \in DOMAIN Enriched : \E i \in Kept : Enriched[n] = enrich(Listings[i])
         /\ \A i \in Kept : \E n \in DOMAIN Enriched : Enriched[n] = enrich(Listings[i])
  <1>1. IsList(Listings)
    BY ListingsAnswered
  <1>2. Deduplicated = Filtered(Listings, Kept) /\ Kept \in SUBSET (DOMAIN Listings)
    BY DEF Deduplicated, deduplicate, Kept
  <1>3. /\ IsFiniteSet(Kept) /\ IsList(Deduplicated) /\ Len(Deduplicated) = Cardinality(Kept)
        /\ \A n \in DOMAIN Deduplicated : \E i \in Kept : Deduplicated[n] = Listings[i]
        /\ \A i \in Kept : \E n \in DOMAIN Deduplicated : Deduplicated[n] = Listings[i]
    BY <1>1, <1>2, FilteredFrom
  <1>4. Enriched = [n \in DOMAIN Deduplicated |-> enrich(Deduplicated[n])]
    BY DEF Enriched
  <1>5. /\ IsList(Enriched) /\ Len(Enriched) = Len(Deduplicated)
        /\ DOMAIN Enriched = DOMAIN Deduplicated
    <2>1. Enriched = [n \in DOMAIN Deduplicated |-> Enriched[n]]
      BY <1>4
    <2> QED
      BY <1>3, <2>1, MappedList
  <1> QED
    BY <1>2, <1>3, <1>4, <1>5

LEMMA CandidatesLists ==
  ASSUME Answered
  PROVE  /\ IsList(Candidates)
         /\ \A n \in DOMAIN Candidates : \E i \in Kept :
              /\ Candidates[n] = enrich(Listings[i])
              /\ evaluate(criteria, Candidates[n], FALSE)
         /\ \A i \in Kept : evaluate(criteria, enrich(Listings[i]), FALSE) =>
              \E n \in DOMAIN Candidates : Candidates[n] = enrich(Listings[i])
         /\ \A n \in DOMAIN Candidates : IsListing(Candidates[n])
  <1> DEFINE kept == {n \in DOMAIN Enriched : evaluate(criteria, Enriched[n], FALSE)}
  <1>1. /\ IsList(Enriched) /\ Kept \subseteq DOMAIN Listings
        /\ \A n \in DOMAIN Enriched : \E i \in Kept : Enriched[n] = enrich(Listings[i])
        /\ \A i \in Kept : \E n \in DOMAIN Enriched : Enriched[n] = enrich(Listings[i])
    BY EnrichedLists
  <1>2. Candidates = Filtered(Enriched, kept)
    BY DEF Candidates, Passing
  <1>3. /\ kept \in SUBSET (DOMAIN Enriched)
        /\ \A n \in DOMAIN Enriched : n \in kept <=> evaluate(criteria, Enriched[n], FALSE)
    OBVIOUS
  <1> HIDE DEF kept
  <1>4. /\ IsList(Candidates)
        /\ \A n \in DOMAIN Candidates : \E i \in kept : Candidates[n] = Enriched[i]
        /\ \A i \in kept : \E n \in DOMAIN Candidates : Candidates[n] = Enriched[i]
    BY <1>1, <1>2, <1>3, FilteredFrom
  <1>5. ASSUME NEW n \in DOMAIN Candidates
        PROVE  \E i \in Kept : /\ Candidates[n] = enrich(Listings[i])
                               /\ evaluate(criteria, Candidates[n], FALSE)
    <2>1. PICK i \in kept : Candidates[n] = Enriched[i]
      BY <1>4
    <2> QED
      BY <1>1, <1>3, <2>1
  <1>6. ASSUME NEW i \in Kept, evaluate(criteria, enrich(Listings[i]), FALSE)
        PROVE  \E n \in DOMAIN Candidates : Candidates[n] = enrich(Listings[i])
    <2>1. PICK m \in DOMAIN Enriched : Enriched[m] = enrich(Listings[i])
      BY <1>1
    <2>2. m \in kept
      BY <1>3, <1>6, <2>1
    <2> QED
      BY <1>4, <2>1, <2>2
  <1>7. ASSUME NEW n \in DOMAIN Candidates
        PROVE  IsListing(Candidates[n])
    <2>1. PICK i \in Kept : Candidates[n] = enrich(Listings[i])
      BY <1>5
    <2>2. IsListing(Listings[i]) /\ Described(Listings[i])
      BY <1>1, <2>1, ListingsAnswered
    <2> QED
      BY <2>1, <2>2, Completed
  <1> QED
    BY <1>4, <1>5, <1>6, <1>7

LEMMA AcceptedLists ==
  ASSUME Answered
  PROVE  /\ IsList(Accepted)
         /\ \A n \in DOMAIN Accepted : \E m \in DOMAIN Candidates :
              /\ Accepted[n] = Candidates[m]
              /\ evaluate(criteria, Accepted[n], TRUE)
         /\ \A m \in DOMAIN Candidates : evaluate(criteria, Candidates[m], TRUE) =>
              \E n \in DOMAIN Accepted : Accepted[n] = Candidates[m]
  <1> DEFINE kept == {n \in DOMAIN Candidates : evaluate(criteria, Candidates[n], TRUE)}
  <1>1. IsList(Candidates)
    BY CandidatesLists
  <1>2. Accepted = Filtered(Candidates, kept)
    BY DEF Accepted, Passing
  <1>3. /\ kept \in SUBSET (DOMAIN Candidates)
        /\ \A n \in DOMAIN Candidates : n \in kept <=> evaluate(criteria, Candidates[n], TRUE)
    OBVIOUS
  <1> HIDE DEF kept
  <1>4. /\ IsList(Accepted)
        /\ \A n \in DOMAIN Accepted : \E i \in kept : Accepted[n] = Candidates[i]
        /\ \A i \in kept : \E n \in DOMAIN Accepted : Accepted[n] = Candidates[i]
    BY <1>1, <1>2, <1>3, FilteredFrom
  <1> QED
    BY <1>3, <1>4

-----------------------------------------------------------------------------
(* What is scored.                                                         *)

LEMMA ListingScorable ==
  ASSUME NEW l, IsListing(l)
  PROVE  Scorable(l)
  BY DEF IsListing, IsAttributes, Scorable, Attributes

\* All providers have answered, and nothing fails before the plans are made.
Ready == Answered /\ Prepared /\ ~Mislabelled /\ ~OffScale

LEMMA CandidateScored ==
  ASSUME Ready, NEW n \in DOMAIN Candidates, NEW l, l = Candidates[n], NEW noted,
         NEW trust, trust = Provider(l.provider).trust, NEW scored, scored = Scored(l, noted)
  PROVE  /\ Scorable(l) /\ Usable(criteria) /\ TrustRange(trust)
         /\ TotalRange(score(criteria, l)) /\ TotalRange(scored.score)
         /\ scored.score = (score(criteria, l) * trust + 50) \div 100
         /\ scored.listing = l /\ scored.upgrade = _upgrade_cost(criteria, l)
         /\ scored.warnings = noted
  <1>1. Answered /\ Prepared /\ ~Mislabelled /\ ~OffScale
    BY DEF Ready
  <1>2. Scorable(l)
    BY <1>1, CandidatesLists, ListingScorable
  <1>3. Usable(criteria)
    BY <1>1, OverridesUsable DEF Prepared
  <1>4. TrustRange(trust)
    <2>1. l.provider \in Names
      BY <1>1 DEF Mislabelled
    <2>2. PICK i \in DOMAIN Sites : Serves(Provider(l.provider), Sites[i])
      BY <1>1, <2>1, ProviderOf DEF Answered
    <2>3. trust = Sites[i].trust
      BY <2>2 DEF Serves
    <2> QED
      BY <2>3, ServiceAssumption DEF ValidSites, TrustRange
  <1>5. TotalRange(score(criteria, l))
    <2>1. score(criteria, l) \in Int
      BY <1>2, <1>3, ScoreInt
    <2>2. OnScale(score(criteria, l))
      BY <1>1 DEF OffScale
    <2> QED
      BY <2>1, <2>2 DEF OnScale, TotalRange
  <1>6. /\ scored.score = (score(criteria, l) * trust + 50) \div 100
        /\ scored.listing = l /\ scored.upgrade = _upgrade_cost(criteria, l)
        /\ scored.warnings = noted
    BY DEF Scored
  <1>7. TotalRange((score(criteria, l) * trust + 50) \div 100)
    BY ONLY <1>4, <1>5, TrustedRange
  <1> QED
    BY <1>2, <1>3, <1>4, <1>5, <1>6, <1>7

\* What the loop has scored.
LEMMA ObservedOf ==
  ASSUME Answered
  PROVE  /\ IsList(Observed) /\ DOMAIN Observed = DOMAIN Candidates
         /\ \A n \in DOMAIN Observed :
              /\ Observed[n] = Scored(Candidates[n], warnings(criteria, Candidates[n]))
              /\ Observed[n].listing = Candidates[n]
  <1>1. Observed = [n \in DOMAIN Candidates |-> Scored(Candidates[n], warnings(criteria, Candidates[n]))]
    BY DEF Observed
  <1>2. IsList(Observed) /\ DOMAIN Observed = DOMAIN Candidates
    <2>1. Observed = [n \in DOMAIN Candidates |-> Observed[n]]
      BY <1>1
    <2> QED
      BY <2>1, MappedList, CandidatesLists
  <1>3. \A l, noted : Scored(l, noted).listing = l
    BY DEF Scored
  <1> QED
    BY <1>1, <1>2, <1>3

\* An accepted listing as it is scored the second time.
ScoredAgain(l) == Scored(l, Noted(Candidates, l))

\* What the run holds of the observed and of the ranked listings.
LEMMA RunHolds ==
  ASSUME SearchInv, Done
  PROVE  /\ Ready /\ Answered /\ Prepared /\ ~Mislabelled
         /\ run.observed = Observed
         /\ run.ranked = ByScore([n \in DOMAIN Accepted |-> ScoredAgain(Accepted[n])])
         /\ run.cluster_deals = build_cluster_deals(Observed, criteria.quantity_required)
         /\ run.rejected_count = Len(Enriched) - Len(Accepted)
         /\ run.provider_results = [p \in Names |-> Status(p)]
  <1>1. Answered /\ Prepared /\ ~Fails /\ run = SearchRun
    BY DEF SearchInv, Done, Answered
  <1>2. ~Mislabelled /\ ~OffScale
    BY <1>1 DEF Fails
  <1>3. /\ run.observed = Observed
        /\ run.ranked = Ranked
        /\ run.cluster_deals = ClusterDeals
        /\ run.rejected_count = Rejected
        /\ run.provider_results = [p \in Names |-> Status(p)]
    BY <1>1 DEF SearchRun
  <1>4. Ranked = ByScore([n \in DOMAIN Accepted |-> ScoredAgain(Accepted[n])])
    BY DEF Ranked, Accepted, ScoredAgain
  <1> QED
    BY <1>1, <1>2, <1>3, <1>4 DEF Ready, ClusterDeals, Rejected

-----------------------------------------------------------------------------
(* Theorems: the ranking.                                                  *)

\* The ranking holds the accepted listings, the best first.
LEMMA RankedLists ==
  ASSUME SearchInv, Done
  PROVE  /\ IsList(run.ranked) /\ Len(run.ranked) = Len(Accepted)
         /\ \A n \in DOMAIN run.ranked : \E m \in DOMAIN Accepted : run.ranked[n] = ScoredAgain(Accepted[m])
         /\ \A m \in DOMAIN Accepted : \E n \in DOMAIN run.ranked : run.ranked[n] = ScoredAgain(Accepted[m])
         /\ \A m, n \in DOMAIN run.ranked : m < n => run.ranked[m].score >= run.ranked[n].score
  <1> DEFINE scored == [n \in DOMAIN Accepted |-> ScoredAgain(Accepted[n])]
             less == {p \in PlacePairs(scored) : scored[p[1]].score > scored[p[2]].score}
  <1>1. /\ Ready
        /\ IsList(Accepted) /\ \A n \in DOMAIN Accepted : \E m \in DOMAIN Candidates :
             Accepted[n] = Candidates[m]
        /\ run.ranked = Sorted(scored, less)
    BY RunHolds, AcceptedLists DEF ByScore
  <1>4. \A n \in DOMAIN Accepted : scored[n] = ScoredAgain(Accepted[n])
    OBVIOUS
  <1>3. IsList(scored) /\ Len(scored) = Len(Accepted) /\ DOMAIN scored = DOMAIN Accepted
    <2>1. scored = [n \in DOMAIN Accepted |-> scored[n]]
      OBVIOUS
    <2> HIDE DEF scored
    <2> QED
      BY <1>1, <2>1, MappedList
  <1>5. \A i, j \in DOMAIN scored : <<i, j>> \in less <=> scored[i].score > scored[j].score
    <2> HIDE DEF scored
    <2> QED
      BY DEF PlacePairs
  <1> HIDE DEF scored, less
  <1>2. ASSUME NEW n \in DOMAIN Accepted PROVE TotalRange(scored[n].score)
    <2>1. PICK m \in DOMAIN Candidates : Accepted[n] = Candidates[m]
      BY <1>1
    <2>2. scored[n] = Scored(Accepted[n], Noted(Candidates, Accepted[n]))
      BY <1>4 DEF ScoredAgain
    <2> QED
      BY <1>1, <2>1, <2>2, CandidateScored
  <1>6. Ranks(less, DOMAIN scored)
    <2>1. \A i \in DOMAIN scored : scored[i].score \in Int
      BY <1>2, <1>3 DEF TotalRange
    <2> QED
      BY <1>5, <2>1 DEF Ranks
  <1>7. /\ IsList(run.ranked) /\ DOMAIN run.ranked = DOMAIN scored /\ Len(run.ranked) = Len(scored)
        /\ \E at : Rearranges(at, run.ranked, scored, less)
    BY <1>1, <1>3, <1>6, SortedOf
  <1>8. PICK at : Rearranges(at, run.ranked, scored, less)
    BY <1>7
  <1>9. /\ \A n \in DOMAIN scored : at[n] \in DOMAIN scored /\ run.ranked[n] = scored[at[n]]
        /\ \A m \in DOMAIN scored : \E n \in DOMAIN scored : at[n] = m
        /\ \A m, n \in DOMAIN scored : m < n => <<at[n], at[m]>> \notin less
    BY <1>8 DEF Rearranges
  <1>10. ASSUME NEW m \in DOMAIN scored, NEW n \in DOMAIN scored, m < n
         PROVE  run.ranked[m].score >= run.ranked[n].score
    <2>1. ~(scored[at[n]].score > scored[at[m]].score)
      BY <1>5, <1>9, <1>10
    <2>2. at[n] \in DOMAIN Accepted /\ at[m] \in DOMAIN Accepted
      BY <1>3, <1>9
    <2>3. scored[at[n]].score \in Int /\ scored[at[m]].score \in Int
      BY <1>2, <2>2 DEF TotalRange
    <2> QED
      BY <1>9, <2>1, <2>3
  <1>11. \A m \in DOMAIN Accepted : \E n \in DOMAIN run.ranked : run.ranked[n] = ScoredAgain(Accepted[m])
    BY <1>3, <1>4, <1>7, <1>9
  <1>12. \A n \in DOMAIN run.ranked : \E m \in DOMAIN Accepted : run.ranked[n] = ScoredAgain(Accepted[m])
    BY <1>3, <1>4, <1>7, <1>9
  <1> QED
    BY <1>3, <1>7, <1>10, <1>11, <1>12

\* For any number of providers, listings and ties: what is ranked is observed, with the
\* same score and cost, and with the same warnings where no other listing shares its
\* raw_attributes; the best come first.
THEOREM RankedAreObserved == ServiceSpec => []RankedIsObserved
  <1>1. SearchInv => RankedIsObserved
    <2> SUFFICES ASSUME SearchInv, Done PROVE RankedIsObserved
      BY DEF RankedIsObserved
    <2>1. /\ IsList(run.ranked)
          /\ \A n \in DOMAIN run.ranked : \E m \in DOMAIN Accepted : run.ranked[n] = ScoredAgain(Accepted[m])
          /\ \A m, n \in DOMAIN run.ranked : m < n => run.ranked[m].score >= run.ranked[n].score
      BY RankedLists
    <2>2. ASSUME NEW n \in DOMAIN run.ranked, NEW x, x = run.ranked[n]
          PROVE  \E m \in DOMAIN run.observed : LET y == run.observed[m] IN
                   /\ x.listing = y.listing /\ x.score = y.score /\ x.upgrade = y.upgrade
                   /\ Unshared(x.listing) => x.warnings = y.warnings
      <3>1. /\ Answered /\ run.observed = Observed
            /\ DOMAIN Observed = DOMAIN Candidates
            /\ \A m \in DOMAIN Observed :
                 /\ Observed[m] = Scored(Candidates[m], warnings(criteria, Candidates[m]))
                 /\ Observed[m].listing = Candidates[m]
        BY RunHolds, ObservedOf
      <3>2. \A k \in DOMAIN Accepted : \E m \in DOMAIN Candidates : Accepted[k] = Candidates[m]
        BY <3>1, AcceptedLists
      <3>8. DOMAIN Candidates \subseteq Int
        <4>1. DOMAIN Candidates = 1 .. Len(Candidates)
          BY <3>1, CandidatesLists, ListIs
        <4> QED
          BY <4>1
      <3>3. PICK k \in DOMAIN Accepted : x = ScoredAgain(Accepted[k])
        BY <2>1, <2>2
      <3>4. PICK m \in DOMAIN Candidates : Accepted[k] = Candidates[m]
        BY <3>2
      <3> DEFINE l == Candidates[m]
                 y == Observed[m]
                 sharing == {i \in DOMAIN Candidates : Candidates[i].raw = l.raw}
      <3>5. x = Scored(l, Noted(Candidates, l)) /\ y = Scored(l, warnings(criteria, l))
        BY <3>1, <3>3, <3>4 DEF ScoredAgain
      <3>6. /\ x.listing = l /\ y.listing = l /\ x.score = y.score /\ x.upgrade = y.upgrade
            /\ x.warnings = Noted(Candidates, l) /\ y.warnings = warnings(criteria, l)
        <4> HIDE DEF l, y
        <4> QED
          BY <3>5 DEF Scored
      <3>7. ASSUME Unshared(l) PROVE Noted(Candidates, l) = warnings(criteria, l)
        <4>1. sharing = {m}
          BY <3>1, <3>7 DEF Unshared
        <4>2. m <= m
          BY <3>8
        <4>3. (CHOOSE i \in sharing : \A j \in sharing : j <= i) = m
          <5> HIDE DEF sharing
          <5> QED
            BY <4>1, <4>2
        <4> QED
          BY <4>3 DEF Noted
      <3> HIDE DEF l
      <3> QED
        BY <3>1, <3>6, <3>7
    <2>3. ASSUME NEW n \in 1 .. Len(run.ranked) - 1
          PROVE  run.ranked[n].score >= run.ranked[n + 1].score
      <3>1. n \in DOMAIN run.ranked /\ n + 1 \in DOMAIN run.ranked /\ n < n + 1
        BY <2>1, ListIs
      <3> QED
        BY <2>1, <3>1
    <2> QED
      BY <2>2, <2>3 DEF RankedIsObserved
  <1> QED
    BY <1>1, SearchInvariant, PTL

\* For every set of answers: each listing is ranked, rejected or the duplicate of an
\* earlier one, and those that meet the specification are observed.
THEOREM ListingsAccounted == ServiceSpec => []EveryListingAccounted
  <1>1. SearchInv => EveryListingAccounted
    <2> SUFFICES ASSUME SearchInv, Done PROVE EveryListingAccounted
      BY DEF EveryListingAccounted
    <2> DEFINE raw == Listings
               duplicate(n) == \E m \in 1 .. n - 1 : listing_fingerprint(raw[m]) = listing_fingerprint(raw[n])
               kept == {n \in DOMAIN raw : ~duplicate(n)}
    <2>1. kept = Kept
      BY DEF Kept
    <2>2. Cardinality(Kept) = Len(run.ranked) + run.rejected_count
      <3>1. /\ IsList(Enriched) /\ Len(Enriched) = Cardinality(Kept)
            /\ run.rejected_count = Len(Enriched) - Len(Accepted)
            /\ IsList(Accepted) /\ Len(run.ranked) = Len(Accepted)
        BY RunHolds, EnrichedLists, AcceptedLists, RankedLists
      <3>2. Len(Enriched) \in Nat /\ Len(Accepted) \in Nat
        BY <3>1, ListIs
      <3> QED
        BY <3>1, <3>2
    <2>3. ListingsOf(run.observed)
            = {enrich(raw[n]) : n \in {n \in Kept : evaluate(criteria, enrich(raw[n]), FALSE)}}
      <3>1. Answered /\ DOMAIN run.observed = DOMAIN Candidates
            /\ \A n \in DOMAIN run.observed : run.observed[n].listing = Candidates[n]
        BY RunHolds, ObservedOf
      <3>2. /\ \A n \in DOMAIN Candidates : \E i \in Kept :
                 /\ Candidates[n] = enrich(Listings[i])
                 /\ evaluate(criteria, Candidates[n], FALSE)
            /\ \A i \in Kept : evaluate(criteria, enrich(Listings[i]), FALSE) =>
                 \E n \in DOMAIN Candidates : Candidates[n] = enrich(Listings[i])
        BY <3>1, CandidatesLists
      <3> DEFINE eligible == {n \in Kept : evaluate(criteria, enrich(Listings[n]), FALSE)}
      <3>3. ASSUME NEW n \in DOMAIN run.observed
            PROVE  \E i \in eligible : run.observed[n].listing = enrich(Listings[i])
        <4>1. PICK i \in Kept : /\ Candidates[n] = enrich(Listings[i])
                               /\ evaluate(criteria, Candidates[n], FALSE)
          BY <3>1, <3>2
        <4>2. evaluate(criteria, enrich(Listings[i]), FALSE)
          BY <4>1
        <4> QED
          BY <3>1, <4>1, <4>2
      <3>4. \A i \in eligible : \E n \in DOMAIN run.observed : run.observed[n].listing = enrich(Listings[i])
        BY <3>1, <3>2
      <3> HIDE DEF eligible
      <3>5. ListingsOf(run.observed) = {enrich(Listings[i]) : i \in eligible}
        BY <3>3, <3>4 DEF ListingsOf
      <3> QED
        BY <3>5 DEF eligible
    <2> HIDE DEF kept
    <2> QED
      BY <2>1, <2>2, <2>3 DEF EveryListingAccounted, kept
  <1> QED
    BY <1>1, SearchInvariant, PTL

\* The first offer of each fingerprint is the one that is kept.
LEMMA KeptFirst ==
  ASSUME Answered, NEW at, InOrder(at), NEW i \in DOMAIN Listings
  PROVE  i \in Kept <=> \A p \in Offers : Before(p, at[i]) =>
                          listing_fingerprint(Offered(p)) # listing_fingerprint(Offered(at[i]))
  <1>1. /\ \A j \in DOMAIN Listings : at[j] \in Offers /\ Listings[j] = Offered(at[j])
        /\ \A o \in Offers : \E j \in DOMAIN Listings : at[j] = o
        /\ \A j, k \in DOMAIN Listings : j < k <=> Before(at[j], at[k])
    BY DEF InOrder
  <1>2. DOMAIN Listings = 1 .. Len(Listings) /\ Len(Listings) \in Nat
    BY ListingsOffered, ListIs
  <1>3. i \in Kept <=> \A j \in 1 .. i - 1 : listing_fingerprint(Listings[j]) # listing_fingerprint(Listings[i])
    BY DEF Kept
  <1>4. \A j : j \in 1 .. i - 1 <=> j \in DOMAIN Listings /\ j < i
    BY <1>2
  <1>5. ASSUME i \in Kept, NEW p \in Offers, Before(p, at[i])
        PROVE  listing_fingerprint(Offered(p)) # listing_fingerprint(Offered(at[i]))
    <2>1. PICK j \in DOMAIN Listings : at[j] = p
      BY <1>1
    <2>2. j \in 1 .. i - 1
      BY <1>1, <1>4, <1>5, <2>1
    <2> QED
      BY <1>1, <1>3, <1>5, <2>1, <2>2
  <1>6. ASSUME \A p \in Offers : Before(p, at[i]) =>
                 listing_fingerprint(Offered(p)) # listing_fingerprint(Offered(at[i]))
        PROVE  i \in Kept
    <2>1. ASSUME NEW j \in 1 .. i - 1
          PROVE  listing_fingerprint(Listings[j]) # listing_fingerprint(Listings[i])
      <3>1. j \in DOMAIN Listings /\ Before(at[j], at[i])
        BY <1>1, <1>4
      <3> QED
        BY <1>1, <1>6, <3>1
    <2> QED
      BY <1>3, <2>1
  <1> QED
    BY <1>5, <1>6

\* For any number of providers, failing or not: what is ranked is determined by the first
\* offer of each fingerprint, in the configured order.
THEOREM FirstOffersAreRanked == ServiceSpec => []FirstOffersRanked
  <1>1. SearchInv => FirstOffersRanked
    <2> SUFFICES ASSUME SearchInv, Done PROVE FirstOffersRanked
      BY DEF FirstOffersRanked
    <2> DEFINE fingerprint == [o \in Offers |-> listing_fingerprint(Offered(o))]
               first == {o \in Offers : \A p \in Offers : Before(p, o) => fingerprint[p] # fingerprint[o]}
               eligible == {o \in first : evaluate(criteria, enrich(Offered(o)), TRUE)}
    <2>1. Answered
      BY RunHolds
    <2>2. PICK at : InOrder(at)
      BY <2>1, ListingsOffered
    <2>3. /\ \A i \in DOMAIN Listings : at[i] \in Offers /\ Listings[i] = Offered(at[i])
          /\ \A o \in Offers : \E i \in DOMAIN Listings : at[i] = o
      BY <2>2 DEF InOrder
    <2>4. \A i \in DOMAIN Listings : i \in Kept <=> at[i] \in first
      <3>1. \A o \in Offers : fingerprint[o] = listing_fingerprint(Offered(o))
        OBVIOUS
      <3>2. \A o : o \in first <=> o \in Offers /\ \A p \in Offers : Before(p, o) => fingerprint[p] # fingerprint[o]
        OBVIOUS
      <3> HIDE DEF fingerprint, first
      <3> QED
        BY <2>1, <2>2, <2>3, <3>1, <3>2, KeptFirst
    <2>5. Kept \subseteq DOMAIN Listings /\ first \subseteq Offers
      BY DEF Kept
    <2>6. \A o : o \in eligible <=> o \in first /\ evaluate(criteria, enrich(Offered(o)), TRUE)
      OBVIOUS
    <2> HIDE DEF first, eligible
    <2>7. ASSUME NEW l \in ListingsOf(run.ranked)
          PROVE  \E o \in eligible : l = enrich(Offered(o))
      <3>1. PICK n \in DOMAIN run.ranked : l = run.ranked[n].listing
        BY DEF ListingsOf
      <3>2. PICK m \in DOMAIN Accepted : run.ranked[n] = ScoredAgain(Accepted[m])
        BY RankedLists
      <3>3. l = Accepted[m]
        BY <3>1, <3>2 DEF ScoredAgain, Scored
      <3>4. PICK c \in DOMAIN Candidates : l = Candidates[c] /\ evaluate(criteria, l, TRUE)
        BY <2>1, <3>3, AcceptedLists
      <3>5. PICK i \in Kept : l = enrich(Listings[i])
        BY <2>1, <3>4, CandidatesLists
      <3> QED
        BY <2>3, <2>4, <2>5, <2>6, <3>4, <3>5
    <2>8. ASSUME NEW o \in eligible
          PROVE  enrich(Offered(o)) \in ListingsOf(run.ranked)
      <3> DEFINE l == enrich(Offered(o))
      <3>1. o \in first /\ evaluate(criteria, l, TRUE) /\ o \in Offers
        BY <2>5, <2>6
      <3>2. PICK i \in DOMAIN Listings : at[i] = o
        BY <2>3, <3>1
      <3>3. i \in Kept /\ l = enrich(Listings[i])
        BY <2>3, <2>4, <3>1, <3>2
      <3>4. evaluate(criteria, l, FALSE)
        <4> HIDE DEF l
        <4> QED
          BY <3>1 DEF evaluate
      <3> HIDE DEF l
      <3>5. PICK c \in DOMAIN Candidates : Candidates[c] = l
        BY <2>1, <3>3, <3>4, CandidatesLists
      <3>6. PICK m \in DOMAIN Accepted : Accepted[m] = l
        BY <2>1, <3>1, <3>5, AcceptedLists
      <3>7. PICK n \in DOMAIN run.ranked : run.ranked[n] = ScoredAgain(l)
        BY <3>6, RankedLists
      <3>8. run.ranked[n].listing = l
        BY <3>7 DEF ScoredAgain, Scored
      <3> QED
        BY <3>8 DEF ListingsOf, l
    <2>9. ListingsOf(run.ranked) = {enrich(Offered(o)) : o \in eligible}
      BY <2>7, <2>8
    <2> QED
      BY <2>9 DEF FirstOffersRanked, first, eligible
  <1> QED
    BY <1>1, SearchInvariant, PTL

\* Every observed listing is well-formed, as pydantic builds it, and its score is one
\* that ScoreBreakdown accepts.
LEMMA ObservedScored ==
  ASSUME Ready, NEW n \in DOMAIN Observed,
         NEW l, l = Observed[n].listing, NEW trust, trust = Provider(l.provider).trust
  PROVE  /\ IsListing(l) /\ Scorable(l) /\ Usable(criteria) /\ TrustRange(trust)
         /\ TotalRange(score(criteria, l)) /\ TotalRange(Observed[n].score)
         /\ Observed[n].score = (score(criteria, l) * trust + 50) \div 100
         /\ Observed[n].upgrade = _upgrade_cost(criteria, l)
  <1>1. /\ n \in DOMAIN Candidates /\ l = Candidates[n]
        /\ Observed[n] = Scored(l, warnings(criteria, l))
    BY ObservedOf DEF Ready
  <1>2. IsListing(l)
    BY <1>1, CandidatesLists DEF Ready
  <1>3. /\ Scorable(l) /\ Usable(criteria) /\ TrustRange(trust)
        /\ TotalRange(score(criteria, l)) /\ TotalRange(Observed[n].score)
        /\ Observed[n].score = (score(criteria, l) * trust + 50) \div 100
        /\ Observed[n].upgrade = _upgrade_cost(criteria, l)
    BY <1>1, CandidateScored
  <1> QED
    BY <1>2, <1>3

\* With weights and costs that are not negative, which config.py does not check: a listing
\* that is at least as good as another of the same provider in all that is scored never
\* scores lower, nor costs more to upgrade.
THEOREM BetterNeverScoresLower ==
  ASSUME NonNegative
  PROVE  ServiceSpec => []DominanceRespected
  <1>1. SearchInv => DominanceRespected
    <2> SUFFICES ASSUME SearchInv, Done,
                        NEW n \in DOMAIN run.observed, NEW m \in DOMAIN run.observed,
                        run.observed[n].listing.provider = run.observed[m].listing.provider,
                        AtLeastAsGood(run.observed[n].listing, run.observed[m].listing)
                 PROVE  /\ run.observed[n].score >= run.observed[m].score
                        /\ run.observed[n].upgrade <= run.observed[m].upgrade
      BY DEF DominanceRespected
    <2> DEFINE l == run.observed[n].listing
               k == run.observed[m].listing
               trust == Provider(l.provider).trust
    <2>0. trust = Provider(k.provider).trust /\ Ready /\ run.observed = Observed
      BY RunHolds
    <2>1. /\ Scorable(l) /\ Usable(criteria) /\ TrustRange(trust) /\ TotalRange(score(criteria, l))
          /\ run.observed[n].score = (score(criteria, l) * trust + 50) \div 100
          /\ run.observed[n].upgrade = _upgrade_cost(criteria, l)
          /\ TotalRange(run.observed[n].score)
      BY <2>0, ObservedScored
    <2>2. /\ Scorable(k) /\ TotalRange(score(criteria, k))
          /\ run.observed[m].score = (score(criteria, k) * trust + 50) \div 100
          /\ run.observed[m].upgrade = _upgrade_cost(criteria, k)
          /\ TotalRange(run.observed[m].score)
      BY <2>0, ObservedScored
    <2>3. /\ score(criteria, k) <= score(criteria, l)
          /\ _upgrade_cost(criteria, l) <= _upgrade_cost(criteria, k)
      BY <2>1, <2>2, ScoreMonotone, UpgradeMonotone
    <2> HIDE DEF l, k, trust
    <2>4. (score(criteria, k) * trust + 50) \div 100 <= (score(criteria, l) * trust + 50) \div 100
      BY <2>1, <2>2, <2>3, TrustedMonotone
    <2> HIDE DEF Done
    <2> QED
      BY <2>1, <2>2, <2>3, <2>4 DEF TotalRange
  <1> QED
    BY <1>1, SearchInvariant, PTL

-----------------------------------------------------------------------------
(* Theorems: no site is forgotten, and no listing misread.                  *)

\* Whatever is asked for, configured and registered: every asked site has its line in the
\* diagnostics, served by the implementation built in where there is one.
THEOREM AskedSitesServed == ServiceSpec => []SitesServed
  <1>1. SearchInv => SitesServed
    <2> SUFFICES ASSUME SearchInv, Done PROVE SitesServed
      BY DEF SitesServed
    <2>1. Answered /\ run.provider_results = [p \in Names |-> Status(p)]
      BY RunHolds
    <2>2. \A n \in DOMAIN Sites : Asked(args.provider, Sites[n]) => Sites[n].name \in Names
      BY <2>1 DEF Answered, Served, Names
    <2>3. \A p \in Names : \E n \in DOMAIN Sites : /\ Asked(args.provider, Sites[n]) /\ Sites[n].name = p
                                                   /\ Serves(Provider(p), Sites[n])
      BY <2>1, ProviderOf DEF Answered
    <2> DEFINE asked == {n \in DOMAIN Sites : IF args.provider = {} THEN Sites[n].enabled
                                              ELSE Sites[n].name \in args.provider}
    <2>4. \A n \in DOMAIN Sites : n \in asked <=> Asked(args.provider, Sites[n])
      BY DEF Asked
    <2> HIDE DEF asked
    <2>5. asked \subseteq DOMAIN Sites
      BY DEF asked
    <2>6. DOMAIN run.provider_results = {Sites[n].name : n \in asked}
      BY <2>1, <2>2, <2>3, <2>4, <2>5
    <2>7. ASSUME NEW n \in asked, NEW p, p = Provider(Sites[n].name),
                 NEW line, line = run.provider_results[Sites[n].name]
          PROVE  /\ Implementation(Sites[n]) \in DOMAIN BuiltIn => p.kind = BuiltIn[Implementation(Sites[n])]
                 /\ p.kind # "plugin" => (line.status = "unsupported" <=> Unsupported(p))
                 /\ line.listing_count > 0 => line.status = "available"
      <3> DEFINE name == Sites[n].name
      <3>1. name \in Names
        BY <2>2, <2>4, <2>5, <2>7
      <3>2. PICK m \in DOMAIN Sites : Sites[m].name = name /\ Serves(Provider(name), Sites[m])
        BY <2>3, <3>1
      <3>3. m = n
        BY <2>5, <3>2, ServiceAssumption DEF ValidSites
      <3>4. Serves(p, Sites[n])
        BY <2>7, <3>2, <3>3
      <3>5. IsAnswer(p, answer[name])
        BY <2>1, <2>7, <3>1 DEF Answered, Answers
      <3>6. line.status = answer[name].status /\ line.listing_count = Len(answer[name].found)
        BY <2>1, <2>7, <3>1 DEF Status
      <3>7. p.kind # "plugin" => (line.status = "unsupported" <=> Unsupported(p))
        BY <3>5, <3>6 DEF IsAnswer
      <3>8. line.listing_count > 0 => line.status = "available"
        BY <3>5, <3>6, EmptyList DEF IsAnswer
      <3> QED
        BY <3>4, <3>7, <3>8 DEF Serves
    <2>8. \A n \in asked : Or(Sites[n].provider, Sites[n].name) = Implementation(Sites[n])
      BY DEF Or, Implementation
    <2> QED
      BY <2>6, <2>7, <2>8 DEF SitesServed, asked
  <1> QED
    BY <1>1, SearchInvariant, PTL

\* For any listings, titles and tables: enrichment only completes.
THEOREM EnrichmentHonest == ServiceSpec => []EnrichedHonest
  <1>1. SearchInv => EnrichedHonest
    <2> SUFFICES ASSUME SearchInv, Done, NEW l \in ListingsOf(run.observed)
                 PROVE  \E n \in DOMAIN Listings :
                          LET raw == Listings[n]
                              evidence(k, a) == {e \in k.provenance : e.field = a}
                          IN  /\ \A f \in {"provider", "id", "title", "cpu", "condition", "price", "stock", "seller"} :
                                   l[f] = raw[f]
                              /\ raw.maker # Null => l.maker = raw.maker
                              /\ \A a \in Attributes :
                                   \/ l.attrs[a] = raw.attrs[a] /\ evidence(l, a) = evidence(raw, a)
                                   \/ /\ raw.attrs[a] = Null /\ l.attrs[a] # Null
                                      /\ \E source \in {"manufacturer_spec", "cpu_database"} :
                                           evidence(l, a) = {[field |-> a, source |-> source]}
                              /\ enrich(l) = l
      BY DEF EnrichedHonest
    <2>1. PICK n \in DOMAIN run.observed : l = run.observed[n].listing
      BY DEF ListingsOf
    <2>2. Answered /\ n \in DOMAIN Candidates /\ l = Candidates[n]
      BY <2>1, RunHolds, ObservedOf
    <2>3. PICK i \in Kept : l = enrich(Listings[i])
      BY <2>2, CandidatesLists
    <2>4. i \in DOMAIN Listings /\ IsListing(Listings[i]) /\ Described(Listings[i])
      BY <2>2, ListingsAnswered DEF Kept
    <2>5. /\ \A f \in Fields \ {"maker", "attrs", "features", "provenance"} : l[f] = Listings[i][f]
          /\ Listings[i].maker # Null => l.maker = Listings[i].maker
          /\ \A a \in Attributes : Honest(l, Listings[i], a)
          /\ enrich(l) = l
      BY <2>3, <2>4, Completed
    <2>6. \A f \in {"provider", "id", "title", "cpu", "condition", "price", "stock", "seller"} :
            l[f] = Listings[i][f]
      BY <2>5 DEF Fields
    <2> QED
      BY <2>4, <2>5, <2>6 DEF Honest
  <1> QED
    BY <1>1, SearchInvariant, PTL

\* For titles with any number of sizes: memory and storage are not taken for each other.
THEOREM SizesReadRight == ServiceSpec => []CapacitiesHonest
  <1>1. SearchInv => CapacitiesHonest
    <2> SUFFICES ASSUME SearchInv, Done, NEW p \in Names, Provider(p).kind # "plugin",
                        NEW i \in DOMAIN answer[p].found
                 PROVE  LET l == enrich(answer[p].found[i])
                            sizes == Titles[l.title].sizes
                            Of(what) == {n \in DOMAIN sizes : sizes[n].of = what}
                            InGB_(n) == IF sizes[n].unit = "TB" THEN 1000 * sizes[n].amount ELSE sizes[n].amount
                            plain == DOMAIN sizes = Of("memory") \cup Of("storage")
                                       /\ (\A n \in Of("memory") : /\ sizes[n].unit = "GB"
                                                                   /\ sizes[n].amount \in MemorySizes \ StorageSizes)
                                       /\ \A n \in Of("storage") : sizes[n].amount \in StorageSizes \ MemorySizes
                            Read(value, what) == IF Of(what) = {} THEN value = Null
                                                 ELSE \E n \in Of(what) : value = InGB_(n)
                        IN  plain => Read(l.attrs["memory_gb"], "memory") /\ Read(l.attrs["storage_gb"], "storage")
      BY DEF CapacitiesHonest
    <2> DEFINE raw == answer[p].found[i]
               l == enrich(raw)
               sizes == Titles[l.title].sizes
               Of(what) == {n \in DOMAIN sizes : sizes[n].of = what}
               plain == DOMAIN sizes = Of("memory") \cup Of("storage")
                          /\ (\A n \in Of("memory") : /\ sizes[n].unit = "GB"
                                                      /\ sizes[n].amount \in MemorySizes \ StorageSizes)
                          /\ \A n \in Of("storage") : sizes[n].amount \in StorageSizes \ MemorySizes
               Read(value, what) == IF Of(what) = {} THEN value = Null
                                    ELSE \E n \in Of(what) : value = InGB(sizes[n])
    <2>1. IsAnswer(Provider(p), answer[p])
      BY RunHolds DEF Answered, Answers
    <2>2. /\ IsListing(raw) /\ Described(raw)
          /\ \E payload, held : Readable(payload) /\ raw = normalize_listing(Provider(p).name, payload, held)
      BY <2>1 DEF IsAnswer
    <2>3. PICK payload, held : Readable(payload) /\ raw = normalize_listing(Provider(p).name, payload, held)
      BY <2>2
    <2>4. /\ l.title = raw.title /\ l.attrs["memory_gb"] = raw.attrs["memory_gb"]
          /\ l.attrs["storage_gb"] = raw.attrs["storage_gb"]
      <3>1. "title" \in Fields \ {"maker", "attrs", "features", "provenance"}
        BY DEF Fields
      <3> HIDE DEF raw
      <3> QED
        BY <2>2, <3>1, Completed
    <2>5. raw.title = payload.title /\ raw.attrs = AttributesOf(payload)
      BY <2>3 DEF normalize_listing
    <2> HIDE DEF raw, l
    <2>6. /\ l.attrs["memory_gb"] = Memory(sizes) /\ l.attrs["storage_gb"] = Storage(sizes)
          /\ l.title \in DOMAIN Titles
      BY <2>3, <2>4, <2>5 DEF AttributesOf, Unknown, Attributes, Readable, IsPayload
    <2>7. IsList(sizes)
      BY <2>6, TitlesAssumption
    <2> HIDE DEF sizes
    <2>8. ASSUME plain PROVE Read(Memory(sizes), "memory")
      <3>1. \A n \in DOMAIN sizes : FitsMemory(sizes[n]) <=> n \in Of("memory")
        BY <2>8 DEF FitsMemory
      <3>2. \A n \in Of("memory") : InGB(sizes[n]) = sizes[n].amount
        BY <2>8 DEF InGB
      <3> QED
        BY <2>7, <3>1, <3>2, SizesRead
    <2>9. ASSUME plain PROVE Read(Storage(sizes), "storage")
      <3>1. \A n \in DOMAIN sizes : sizes[n].amount \in StorageSizes <=> n \in Of("storage")
        BY <2>9
      <3> QED
        BY <2>7, <3>1, SizesRead
    <2>10. plain => Read(l.attrs["memory_gb"], "memory") /\ Read(l.attrs["storage_gb"], "storage")
      BY <2>6, <2>8, <2>9
    <2> QED
      BY <2>10, Zenon DEF InGB, raw, l, sizes
  <1> QED
    BY <1>1, SearchInvariant, PTL

-----------------------------------------------------------------------------
(* The cluster plans.                                                      *)

\* The places of what a plan of this configuration may take from.
Members(scored, key) == {n \in InStock(scored) : configuration_key(scored[n].listing) = key}

\* at numbers the members of s; o has them in that order.
Enumerates(at, o, s, members) ==
  /\ at \in [DOMAIN o -> members]
  /\ \A n \in DOMAIN o : o[n] = s[at[n]]
  /\ \A i \in members : \E n \in DOMAIN o : at[n] = i
  /\ \A m, n \in DOMAIN o : at[m] = at[n] => m = n

Stock(o) == [n \in DOMAIN o |-> o[n].listing.stock]

\* What is scored is a list of listings.
Plannable(scored) ==
  /\ IsList(scored)
  /\ \A n \in DOMAIN scored : /\ IsListing(scored[n].listing) /\ TotalRange(scored[n].score)
                              /\ scored[n].upgrade \in Int

\* The group of a configuration holds its members, all in stock.
LEMMA GroupOf ==
  ASSUME NEW scored, Plannable(scored), NEW key, NEW g, g = OfConfiguration(scored, key)
  PROVE  /\ IsList(g)
         /\ \E at : Enumerates(at, g, scored, Members(scored, key))
         /\ \A n \in DOMAIN g : \E i \in Members(scored, key) : g[n] = scored[i]
         /\ \A n \in DOMAIN g : /\ Stock(g)[n] = g[n].listing.stock
                                /\ g[n].listing.stock \in Nat \ {0} /\ g[n].listing.price \in Nat
  <1> DEFINE members == Members(scored, key)
             N == Cardinality(members)
  <1>1. g = Filtered(scored, members) /\ members \in SUBSET (DOMAIN scored)
    BY DEF OfConfiguration, Members, InStock
  <1> HIDE DEF members
  <1>2. /\ IsFiniteSet(members) /\ N \in Nat /\ IsList(g) /\ DOMAIN g = 1 .. N
    BY <1>1, FilteredFrom DEF Plannable
  <1>3. members \in SUBSET Nat
    BY <1>1, ListIs DEF Plannable
  <1>4. PICK at : Keeps(at, g, scored, members)
    BY <1>1, <1>2, <1>3, FilteredOf
  <1>5. /\ at \in [DOMAIN g -> members]
        /\ \A n \in DOMAIN g : g[n] = scored[at[n]]
        /\ \A i \in members : \E n \in DOMAIN g : at[n] = i
    BY <1>2, <1>4 DEF Keeps
  <1>6. ASSUME NEW m \in DOMAIN g, NEW n \in DOMAIN g, at[m] = at[n] PROVE m = n
    <2>1. ~(at[m] < at[n]) /\ ~(at[n] < at[m])
      <3>1. at[m] \in members
        BY <1>5
      <3>2. at[m] \in Nat
        BY <1>3, <3>1
      <3> QED
        BY <1>6, <3>2
    <2>2. ~(m < n) /\ ~(n < m)
      BY <1>2, <1>4, <2>1 DEF Keeps
    <2> QED
      BY <1>2, <2>2
  <1>7. Enumerates(at, g, scored, members)
    BY <1>5, <1>6 DEF Enumerates
  <1>8. ASSUME NEW n \in DOMAIN g
        PROVE  /\ \E i \in members : g[n] = scored[i]
               /\ Stock(g)[n] = g[n].listing.stock
               /\ g[n].listing.stock \in Nat \ {0} /\ g[n].listing.price \in Nat
    <2>1. PICK i \in members : g[n] = scored[i]
      BY <1>5
    <2>2. i \in InStock(scored)
      BY <2>1 DEF members, Members
    <2>3. scored[i].listing.stock \notin {Null, 0} /\ IsListing(scored[i].listing)
      BY <2>2 DEF InStock, Plannable
    <2> QED
      BY <2>1, <2>3 DEF IsListing, Stock
  <1> QED
    BY <1>2, <1>7, <1>8 DEF members

\* Sorted by price, it is the same group.
LEMMA CheapestOf ==
  ASSUME NEW scored, Plannable(scored), NEW key, NEW g, g = OfConfiguration(scored, key),
         NEW o, o = CheapestFirst(g)
  PROVE  /\ IsList(o) /\ DOMAIN o = DOMAIN g /\ Len(o) = Len(g)
         /\ \E at : Enumerates(at, o, scored, Members(scored, key))
         /\ \A n \in DOMAIN o : \E i \in Members(scored, key) : o[n] = scored[i]
         /\ \A n \in DOMAIN o : /\ Stock(o)[n] = o[n].listing.stock
                                /\ o[n].listing.stock \in Nat \ {0} /\ o[n].listing.price \in Nat
         /\ \A m, n \in DOMAIN o : m < n => o[m].listing.price <= o[n].listing.price
         /\ SumTo(Stock(o), Len(o)) = SumTo(Stock(g), Len(g))
  <1> DEFINE less == {p \in PlacePairs(g) : g[p[1]].listing.price < g[p[2]].listing.price}
             members == Members(scored, key)
  <1>1. /\ IsList(g)
        /\ \E at : Enumerates(at, g, scored, members)
        /\ \A n \in DOMAIN g : \E i \in members : g[n] = scored[i]
        /\ \A n \in DOMAIN g : /\ Stock(g)[n] = g[n].listing.stock
                               /\ g[n].listing.stock \in Nat \ {0} /\ g[n].listing.price \in Nat
    BY GroupOf
  <1>2. o = Sorted(g, less)
    BY DEF CheapestFirst
  <1>3. \A i, j \in DOMAIN g : <<i, j>> \in less <=> g[i].listing.price < g[j].listing.price
    BY DEF PlacePairs
  <1> HIDE DEF less, members
  <1>4. Ranks(less, DOMAIN g)
    BY <1>1, <1>3 DEF Ranks
  <1>5. /\ IsList(o) /\ DOMAIN o = DOMAIN g /\ Len(o) = Len(g)
        /\ \E b : Rearranges(b, o, g, less)
    BY <1>1, <1>2, <1>4, SortedOf
  <1>6. PICK b : Rearranges(b, o, g, less)
    BY <1>5
  <1>7. PICK at : Enumerates(at, g, scored, members)
    BY <1>1
  <1>8. /\ \A n \in DOMAIN g : b[n] \in DOMAIN g /\ o[n] = g[b[n]]
        /\ b \in [DOMAIN g -> DOMAIN g]
        /\ \A i \in DOMAIN g : \E n \in DOMAIN g : b[n] = i
        /\ \A m, n \in DOMAIN g : b[m] = b[n] => m = n
        /\ \A m, n \in DOMAIN g : m < n => <<b[n], b[m]>> \notin less
    BY <1>6 DEF Rearranges
  <1>9. /\ at \in [DOMAIN g -> members]
        /\ \A n \in DOMAIN g : g[n] = scored[at[n]]
        /\ \A i \in members : \E n \in DOMAIN g : at[n] = i
        /\ \A m, n \in DOMAIN g : at[m] = at[n] => m = n
    BY <1>7 DEF Enumerates
  <1>10. \E c : Enumerates(c, o, scored, members)
    <2> DEFINE c == [n \in DOMAIN o |-> at[b[n]]]
    <2>1. c \in [DOMAIN o -> members] /\ \A n \in DOMAIN o : c[n] = at[b[n]] /\ o[n] = scored[c[n]]
      BY <1>5, <1>8, <1>9
    <2> HIDE DEF c
    <2>2. ASSUME NEW i \in members PROVE \E n \in DOMAIN o : c[n] = i
      <3>1. PICK j \in DOMAIN g : at[j] = i
        BY <1>9
      <3>2. PICK n \in DOMAIN g : b[n] = j
        BY <1>8
      <3> QED
        BY <1>5, <2>1, <3>1, <3>2
    <2>3. \A m, n \in DOMAIN o : c[m] = c[n] => m = n
      BY <1>5, <1>8, <1>9, <2>1
    <2> QED
      BY <2>1, <2>2, <2>3 DEF Enumerates
  <1>11. ASSUME NEW n \in DOMAIN o
         PROVE  /\ \E i \in members : o[n] = scored[i]
                /\ Stock(o)[n] = o[n].listing.stock
                /\ o[n].listing.stock \in Nat \ {0} /\ o[n].listing.price \in Nat
    <2>1. b[n] \in DOMAIN g /\ o[n] = g[b[n]]
      BY <1>5, <1>8
    <2>2. Stock(o)[n] = o[n].listing.stock
      BY DEF Stock
    <2> QED
      BY <1>1, <2>1, <2>2
  <1>12. ASSUME NEW m \in DOMAIN o, NEW n \in DOMAIN o, m < n
         PROVE  o[m].listing.price <= o[n].listing.price
    <2>1. ~(g[b[n]].listing.price < g[b[m]].listing.price)
      BY <1>3, <1>5, <1>8, <1>12
    <2>2. g[b[n]].listing.price \in Nat /\ g[b[m]].listing.price \in Nat
      BY <1>1, <1>5, <1>8
    <2>3. o[m] = g[b[m]] /\ o[n] = g[b[n]]
      BY <1>5, <1>8
    <2>4. g[b[m]].listing.price <= g[b[n]].listing.price
      BY <2>1, <2>2
    <2> QED
      BY <2>3, <2>4
  <1>13. SumTo(Stock(o), Len(o)) = SumTo(Stock(g), Len(g))
    <2>1. Len(g) \in Nat /\ DOMAIN g = 1 .. Len(g)
      BY <1>1, ListIs
    <2>2. Numbers(b, Len(g), 1 .. Len(g))
      BY <1>8, <2>1 DEF Numbers
    <2>3. \A n \in 1 .. Len(g) : Stock(g)[n] \in Int
      BY <1>1, <2>1
    <2>4. SumTo(Through(Stock(g), b), Len(g)) = SumTo(Stock(g), Len(g))
      BY <2>1, <2>2, <2>3, SumPermuted
    <2>5. ASSUME NEW n \in 1 .. Len(g) PROVE Through(Stock(g), b)[n] = Stock(o)[n]
      <3>1. n \in DOMAIN b /\ n \in DOMAIN o /\ b[n] \in DOMAIN g /\ o[n] = g[b[n]]
        BY <1>5, <1>8, <2>1
      <3>2. Through(Stock(g), b)[n] = Stock(g)[b[n]]
        BY <3>1 DEF Through
      <3> QED
        BY <1>1, <1>11, <3>1, <3>2
    <2>6. SumTo(Through(Stock(g), b), Len(g)) = SumTo(Stock(o), Len(g))
      BY <2>1, <2>5, SumSame
    <2> QED
      BY <1>5, <2>4, <2>6
  <1> QED
    BY <1>5, <1>10, <1>11, <1>12, <1>13 DEF members

\* q takes all of the first k - 1, some of the k-th and none of what follows.
Takes(q, stock, N, k, required) ==
  /\ k \in 1 .. N /\ SumTo(q, N) = required /\ SumTo(q, k) = required
  /\ \A n \in 1 .. N : /\ q[n] \in Nat /\ q[n] <= stock[n]
                       /\ q[n] > 0 <=> n <= k
                       /\ n < k => q[n] = stock[n]

LEMMA QuantitiesOf ==
  ASSUME NEW o, IsList(o), NEW required \in Nat \ {0}, NEW N, N = Len(o),
         NEW stock, stock = Stock(o), \A n \in DOMAIN o : stock[n] \in Nat \ {0},
         SumTo(stock, N) >= required, NEW q, q = Quantities(o, required)
  PROVE  DOMAIN q = DOMAIN o /\ \E k : Takes(q, stock, N, k, required)
  <1>1. N \in Nat /\ DOMAIN o = 1 .. N
    BY ListIs
  <1> DEFINE Left(n) == required - SumTo(stock, n - 1)
  <1>2. /\ DOMAIN q = 1 .. N
        /\ \A n \in 1 .. N : q[n] = IF Left(n) <= 0 THEN 0
                                    ELSE IF stock[n] < Left(n) THEN stock[n] ELSE Left(n)
    BY <1>1 DEF Quantities, Stock
  <1>3. \A n \in 0 .. N : SumTo(stock, n) \in Nat
    <2> TAKE n \in 0 .. N
    <2>1. n \in Nat /\ \A j \in 1 .. n : stock[j] \in Int /\ stock[j] >= 0
      BY <1>1
    <2> QED
      BY <2>1, SumRange
  <1>4. \A n \in 0 .. N - 1 : /\ n + 1 \in 1 .. N /\ stock[n + 1] \in Nat \ {0}
                              /\ SumTo(stock, n + 1) = SumTo(stock, n) + stock[n + 1]
                              /\ SumTo(q, n + 1) = SumTo(q, n) + q[n + 1]
                              /\ Left(n + 1) = required - SumTo(stock, n)
    <2> TAKE n \in 0 .. N - 1
    <2>1. n + 1 \in 1 .. N /\ n + 1 \in Nat \ {0} /\ (n + 1) - 1 = n
      BY <1>1
    <2>2. \A f : SumTo(f, n + 1) = SumTo(f, n) + f[n + 1]
      BY <2>1, SumStep
    <2> QED
      BY <1>1, <2>1, <2>2
  <1>5. \A n \in 1 .. N : q[n] \in Nat /\ q[n] <= stock[n]
    <2> TAKE n \in 1 .. N
    <2>1. SumTo(stock, n - 1) \in Nat /\ stock[n] \in Nat
      BY <1>1, <1>3
    <2> QED
      BY <1>2, <2>1
  <1> DEFINE Good(n) == SumTo(q, n) = IF SumTo(stock, n) < required THEN SumTo(stock, n) ELSE required
             S == {n \in 0 .. N : Good(n)}
  <1>6. 0 .. N \subseteq S
    <2>1. 0 \in S
      BY <1>1, SumStep
    <2>2. ASSUME NEW n \in 0 .. N - 1, n \in S PROVE n + 1 \in S
      <3>1. /\ n + 1 \in 1 .. N /\ stock[n + 1] \in Nat \ {0} /\ SumTo(stock, n) \in Nat
            /\ SumTo(stock, n + 1) = SumTo(stock, n) + stock[n + 1]
            /\ SumTo(q, n + 1) = SumTo(q, n) + q[n + 1]
            /\ Left(n + 1) = required - SumTo(stock, n)
        BY <1>3, <1>4
      <3>2. q[n + 1] = IF Left(n + 1) <= 0 THEN 0
                       ELSE IF stock[n + 1] < Left(n + 1) THEN stock[n + 1] ELSE Left(n + 1)
        BY <1>2, <3>1
      <3>3. Good(n)
        BY <2>2
      <3> HIDE DEF Left
      <3>4. Good(n + 1)
        BY <3>1, <3>2, <3>3
      <3> QED
        BY <3>1, <3>4
    <2> HIDE DEF S
    <2> QED
      BY <1>1, <2>1, <2>2, Induction
  <1> DEFINE enough == {n \in 0 .. N : SumTo(stock, n) >= required}
  <1>7. PICK k \in enough : \A n \in enough : k <= n
    <2>1. enough \in SUBSET Nat /\ enough # {}
      BY <1>1
    <2> HIDE DEF enough
    <2> QED
      BY <2>1, Least
  <1>8. k \in 1 .. N /\ SumTo(stock, k) >= required
    <2>1. SumTo(stock, 0) = 0
      BY SumStep
    <2> QED
      BY <1>1, <1>7, <2>1
  <1>9. \A n \in 0 .. N : n < k => SumTo(stock, n) < required
    BY <1>3, <1>7, <1>8
  <1>10. \A n \in 0 .. N : k <= n => SumTo(stock, n) >= required
    <2> DEFINE M == {n \in 0 .. N : k <= n => SumTo(stock, n) >= required}
    <2>1. 0 \in M
      BY <1>1, <1>8
    <2>2. ASSUME NEW n \in 0 .. N - 1, n \in M PROVE n + 1 \in M
      <3>1. /\ n + 1 \in 0 .. N /\ stock[n + 1] \in Nat /\ SumTo(stock, n) \in Nat
            /\ SumTo(stock, n + 1) = SumTo(stock, n) + stock[n + 1]
        BY <1>3, <1>4
      <3> QED
        BY <1>8, <2>2, <3>1
    <2> HIDE DEF M
    <2>3. 0 .. N \subseteq M
      BY <1>1, <2>1, <2>2, Induction
    <2> QED
      BY <2>3 DEF M
  <1>11. ASSUME NEW n \in 1 .. N
         PROVE  (q[n] > 0 <=> n <= k) /\ (n < k => q[n] = stock[n])
    <2>1. n - 1 \in 0 .. N /\ n \in 0 .. N /\ (n - 1) + 1 = n /\ n - 1 \in 0 .. N - 1
      OBVIOUS
    <2>2. SumTo(stock, n) = SumTo(stock, n - 1) + stock[n] /\ stock[n] \in Nat \ {0}
      BY <1>4, <2>1
    <2>3. SumTo(stock, n) \in Nat /\ SumTo(stock, n - 1) \in Nat
      BY <1>3, <2>1
    <2>4. /\ n < k => SumTo(stock, n) < required
          /\ n <= k => SumTo(stock, n - 1) < required
          /\ k < n => SumTo(stock, n - 1) >= required
      BY <1>8, <1>9, <1>10, <2>1
    <2>5. q[n] = IF Left(n) <= 0 THEN 0 ELSE IF stock[n] < Left(n) THEN stock[n] ELSE Left(n)
      BY <1>2
    <2> QED
      BY <1>8, <2>2, <2>3, <2>4, <2>5
  <1>12. SumTo(q, N) = required /\ SumTo(q, k) = required
    <2>1. N \in S /\ k \in S
      BY <1>1, <1>6, <1>8
    <2>2. SumTo(stock, N) \in Nat /\ SumTo(stock, k) \in Nat
      BY <1>1, <1>3, <1>8
    <2> QED
      BY <1>8, <2>1, <2>2
  <1>13. Takes(q, stock, N, k, required)
    BY <1>5, <1>8, <1>11, <1>12 DEF Takes
  <1> QED
    BY <1>1, <1>2, <1>13

\* d takes from the listings of o what q says, in their order.
Plan(d, o, q, k, key) ==
  /\ d.configuration = key
  /\ d.allocations = [n \in 1 .. k |-> [listing |-> o[n].listing, quantity |-> q[n]]]
  /\ d.hardware_cost = SumTo([n \in DOMAIN o |-> o[n].listing.price * q[n]], Len(o))
  /\ d.upgrade_cost = SumTo([n \in DOMAIN o |-> o[n].upgrade * q[n]], Len(o))
  /\ d.hardware_cost \in Int /\ d.upgrade_cost \in Int /\ TotalRange(d.score)

\* An average of scores, rounded, is a score.
LEMMA AverageRange ==
  ASSUME NEW required \in Nat \ {0}, NEW sum \in Nat, sum <= 10000 * required,
         NEW a, a = (sum + required \div 2) \div required
  PROVE  TotalRange(a)
  <1> DEFINE half == required \div 2
  <1>1. half \in Nat /\ half < required
    OBVIOUS
  <1>6. a = (sum + half) \div required
    OBVIOUS
  <1> HIDE DEF half
  <1>2. sum + half \in Nat /\ sum + half < 10001 * required
    BY <1>1
  <1>3. a \in Nat /\ a * required <= sum + half
    BY <1>1, <1>2, <1>6, QuotientOf
  <1>4. a * required \in Nat /\ a * required < 10001 * required
    BY <1>2, <1>3
  <1>5. a < 10001
    BY <1>3, <1>4, QuotientBelow
  <1> QED
    BY <1>3, <1>5 DEF TotalRange

LEMMA PlanOf ==
  ASSUME NEW scored, Plannable(scored), NEW required \in Nat \ {0},
         NEW key, Complete(scored, key, required),
         NEW o, o = CheapestFirst(OfConfiguration(scored, key)), NEW d, d = PlanFrom(o, required)
  PROVE  \E q : \E k : Takes(q, Stock(o), Len(o), k, required) /\ Plan(d, o, q, k, key)
  <1> DEFINE g == OfConfiguration(scored, key)
             N == Len(o)
             q == Quantities(o, required)
             used == {n \in DOMAIN o : q[n] > 0}
  <1>1. /\ IsList(o) /\ N = Len(g)
        /\ \A n \in DOMAIN o : \E i \in Members(scored, key) : o[n] = scored[i]
        /\ \A n \in DOMAIN o : /\ Stock(o)[n] = o[n].listing.stock
                               /\ o[n].listing.stock \in Nat \ {0} /\ o[n].listing.price \in Nat
        /\ SumTo(Stock(o), N) = SumTo(Stock(g), N)
    BY CheapestOf
  <1>2. SumTo(Stock(o), N) >= required
    BY <1>1 DEF Complete, Stock
  <1>3. /\ d.configuration = configuration_key(o[1].listing)
        /\ d.allocations = [n \in 1 .. Cardinality(used) |-> [listing |-> o[n].listing, quantity |-> q[n]]]
        /\ d.hardware_cost = SumTo([n \in DOMAIN o |-> o[n].listing.price * q[n]], N)
        /\ d.upgrade_cost = SumTo([n \in DOMAIN o |-> o[n].upgrade * q[n]], N)
        /\ d.score = (SumTo([n \in DOMAIN o |-> o[n].score * q[n]], N) + required \div 2) \div required
    BY DEF PlanFrom
  <1> HIDE DEF g, q
  <1>4. N \in Nat /\ DOMAIN o = 1 .. N
    BY <1>1, ListIs
  <1>5. \E k : Takes(q, Stock(o), N, k, required)
    BY <1>1, <1>2, QuantitiesOf DEF q
  <1>6. PICK k : Takes(q, Stock(o), N, k, required)
    BY <1>5
  <1>7. /\ k \in 1 .. N /\ k \in Nat /\ SumTo(q, N) = required
        /\ \A n \in 1 .. N : q[n] \in Nat /\ (q[n] > 0 <=> n <= k)
    BY <1>4, <1>6 DEF Takes
  <1>8. Cardinality(used) = k
    <2>1. used = 1 .. k
      BY <1>4, <1>7
    <2> QED
      BY <1>7, <2>1, UpTo
  <1>9. d.configuration = key
    <2>1. 1 \in DOMAIN o
      BY <1>4, <1>7
    <2>2. PICK i \in Members(scored, key) : o[1] = scored[i]
      BY <1>1, <2>1
    <2> QED
      BY <1>3, <2>2 DEF Members
  <1>10. \A n \in 1 .. N : /\ o[n].listing.price \in Nat /\ o[n].upgrade \in Int
                           /\ o[n].score \in Nat /\ o[n].score <= 10000
    <2> TAKE n \in 1 .. N
    <2>1. PICK i \in Members(scored, key) : o[n] = scored[i]
      BY <1>1, <1>4
    <2>2. i \in DOMAIN scored
      BY <2>1 DEF Members, InStock
    <2> QED
      BY <1>1, <1>4, <2>1, <2>2 DEF Plannable, TotalRange
  <1>11. (\A x, y \in Nat : x * y \in Nat) /\ \A x \in Int : \A y \in Nat : x * y \in Int
    OBVIOUS
  <1>12. d.hardware_cost \in Int /\ d.upgrade_cost \in Int
    <2> DEFINE prices == [n \in DOMAIN o |-> o[n].listing.price * q[n]]
               upgrades == [n \in DOMAIN o |-> o[n].upgrade * q[n]]
    <2>1. \A n \in 1 .. N : prices[n] \in Int /\ upgrades[n] \in Int
      BY <1>4, <1>7, <1>10, <1>11
    <2>2. d.hardware_cost = SumTo(prices, N) /\ d.upgrade_cost = SumTo(upgrades, N)
      BY <1>3
    <2> HIDE DEF prices, upgrades
    <2> QED
      BY <1>4, <2>1, <2>2, SumRange
  <1>13. TotalRange(d.score)
    <2> DEFINE scores == [n \in DOMAIN o |-> o[n].score * q[n]]
               best == [n \in DOMAIN o |-> 10000 * q[n]]
    <2>1. ASSUME NEW n \in 1 .. N
          PROVE  /\ scores[n] \in Int /\ scores[n] >= 0 /\ best[n] \in Int
                 /\ scores[n] <= best[n] /\ q[n] \in Int /\ best[n] = 10000 * q[n]
      <3>1. scores[n] = o[n].score * q[n] /\ best[n] = 10000 * q[n]
        BY <1>4
      <3>2. o[n].score \in Nat /\ o[n].score <= 10000 /\ q[n] \in Nat
        BY <1>7, <1>10
      <3>3. o[n].score * q[n] <= 10000 * q[n]
        BY <3>2, TimesLess
      <3>4. o[n].score * q[n] \in Nat /\ 10000 * q[n] \in Nat
        BY <1>11, <3>2
      <3> HIDE DEF scores, best
      <3> QED
        BY <3>1, <3>2, <3>3, <3>4
    <2>2. d.score = (SumTo(scores, N) + required \div 2) \div required
      BY <1>3
    <2> HIDE DEF scores, best
    <2>3. SumTo(scores, N) \in Nat /\ SumTo(scores, N) <= SumTo(best, N)
      BY <1>4, <2>1, SumRange, SumMonotone
    <2>4. SumTo(best, N) = 10000 * SumTo(q, N)
      <3>1. PICK c \in Int : c = 10000
        OBVIOUS
      <3>2. \A n \in 1 .. N : q[n] \in Int /\ best[n] = c * q[n]
        BY <2>1, <3>1
      <3>3. SumTo(best, N) = c * SumTo(q, N)
        BY <1>4, <3>2, SumTimes
      <3> QED
        BY <3>1, <3>3
    <2>5. SumTo(scores, N) <= 10000 * required
      BY <1>7, <2>3, <2>4
    <2> DEFINE sum == SumTo(scores, N)
    <2>6. /\ sum \in Nat /\ sum <= 10000 * required
          /\ d.score = (sum + required \div 2) \div required
      BY <2>2, <2>3, <2>5
    <2> HIDE DEF sum
    <2> QED
      BY <2>6, AverageRange
  <1>14. d.allocations = [n \in 1 .. k |-> [listing |-> o[n].listing, quantity |-> q[n]]]
    BY <1>3, <1>8
  <1>15. Plan(d, o, q, k, key)
    BY <1>3, <1>9, <1>12, <1>13, <1>14 DEF Plan
  <1> QED
    BY <1>6, <1>15

\* The configurations that a plan may be made of, each mentioned.
LEMMA ConfigurationsOf ==
  ASSUME NEW scored, Plannable(scored), NEW all, all = Configurations(scored)
  PROVE  /\ IsList(all)
         /\ \A n \in DOMAIN all : \E i \in InStock(scored) : all[n] = configuration_key(scored[i].listing)
         /\ \A i \in InStock(scored) : \E n \in DOMAIN all : all[n] = configuration_key(scored[i].listing)
  <1> DEFINE key == [n \in DOMAIN scored |-> configuration_key(scored[n].listing)]
             first == {n \in InStock(scored) : \A m \in InStock(scored) : m < n => key[m] # key[n]}
  <1>1. all = Filtered(key, first)
    BY DEF Configurations
  <1>2. InStock(scored) \subseteq DOMAIN scored /\ DOMAIN scored \subseteq Nat
    BY ListIs DEF InStock, Plannable
  <1>3. IsList(key) /\ DOMAIN key = DOMAIN scored
    <2>1. key = [n \in DOMAIN scored |-> key[n]]
      OBVIOUS
    <2> HIDE DEF key
    <2> QED
      BY <2>1, MappedList DEF Plannable
  <1>4. first \in SUBSET (DOMAIN key) /\ first \subseteq InStock(scored)
    BY <1>2, <1>3
  <1>5. \A n \in InStock(scored) : key[n] = configuration_key(scored[n].listing)
    BY <1>2
  <1>6. ASSUME NEW i \in InStock(scored) PROVE \E n \in first : key[n] = key[i]
    <2> DEFINE like == {n \in InStock(scored) : key[n] = key[i]}
    <2>1. like \in SUBSET Nat /\ like # {}
      BY <1>2
    <2>2. PICK n \in like : \A m \in like : n <= m
      <3> HIDE DEF like
      <3> QED
        BY <2>1, Least
    <2>3. ASSUME NEW m \in InStock(scored), m < n PROVE key[m] # key[n]
      <3>1. m \notin like
        BY <1>2, <2>1, <2>2, <2>3
      <3> QED
        BY <2>2, <3>1
    <2> QED
      BY <2>2, <2>3
  <1> HIDE DEF key, first
  <1>7. /\ IsList(all)
        /\ \A n \in DOMAIN all : \E i \in first : all[n] = key[i]
        /\ \A i \in first : \E n \in DOMAIN all : all[n] = key[i]
    BY <1>1, <1>3, <1>4, FilteredFrom
  <1>8. ASSUME NEW i \in InStock(scored)
        PROVE  \E n \in DOMAIN all : all[n] = configuration_key(scored[i].listing)
    <2>1. PICK j \in first : key[j] = key[i]
      BY <1>6
    <2>2. PICK n \in DOMAIN all : all[n] = key[j]
      BY <1>7
    <2> QED
      BY <1>5, <2>1, <2>2
  <1>9. \A n \in DOMAIN all : \E i \in InStock(scored) : all[n] = configuration_key(scored[i].listing)
    BY <1>4, <1>5, <1>7
  <1> QED
    BY <1>7, <1>8, <1>9

\* The plan of a configuration.
PlanFor(scored, key, required) == PlanFrom(CheapestFirst(OfConfiguration(scored, key)), required)

\* There is a plan for each configuration with enough in stock, and no other.
LEMMA DealsOf ==
  ASSUME NEW scored, Plannable(scored), NEW required \in Nat \ {0},
         NEW plans, plans = build_cluster_deals(scored, required)
  PROVE  /\ IsList(plans)
         /\ \A d \in DOMAIN plans : \E i \in InStock(scored) : \E key :
              /\ key = configuration_key(scored[i].listing) /\ Complete(scored, key, required)
              /\ plans[d] = PlanFor(scored, key, required)
         /\ \A i \in InStock(scored) : \A key :
              key = configuration_key(scored[i].listing) /\ Complete(scored, key, required) =>
                \E d \in DOMAIN plans : plans[d] = PlanFor(scored, key, required)
  <1> DEFINE all == Configurations(scored)
             complete == {n \in DOMAIN all : Complete(scored, all[n], required)}
             keys == Filtered(all, complete)
             deals == [n \in DOMAIN keys |-> PlanFrom(CheapestFirst(OfConfiguration(scored, keys[n])), required)]
             less == {p \in PlacePairs(deals) : Better(deals[p[1]], deals[p[2]])}
  <1>1. plans = Sorted(deals, less)
    BY DEF build_cluster_deals
  <1>2. DOMAIN deals = DOMAIN keys /\ \A n \in DOMAIN keys : deals[n] = PlanFor(scored, keys[n], required)
    BY DEF PlanFor
  <1>3. \A m, n \in DOMAIN deals : <<m, n>> \in less <=> Better(deals[m], deals[n])
    <2> HIDE DEF deals
    <2> QED
      BY DEF PlacePairs
  <1>4. deals = [n \in DOMAIN keys |-> deals[n]]
    BY <1>2
  <1> HIDE DEF deals, less
  <1>5. /\ IsList(all)
        /\ \A n \in DOMAIN all : \E i \in InStock(scored) : all[n] = configuration_key(scored[i].listing)
        /\ \A i \in InStock(scored) : \E n \in DOMAIN all : all[n] = configuration_key(scored[i].listing)
    BY ConfigurationsOf
  <1> HIDE DEF all
  <1>6. complete \in SUBSET (DOMAIN all) /\ \A n \in DOMAIN all : n \in complete <=> Complete(scored, all[n], required)
    OBVIOUS
  <1> HIDE DEF complete
  <1>7. /\ IsList(keys)
        /\ \A n \in DOMAIN keys : \E i \in complete : keys[n] = all[i]
        /\ \A i \in complete : \E n \in DOMAIN keys : keys[n] = all[i]
    BY <1>5, <1>6, FilteredFrom
  <1> HIDE DEF keys
  <1>8. ASSUME NEW n \in DOMAIN keys
        PROVE  /\ Complete(scored, keys[n], required)
               /\ \E i \in InStock(scored) : keys[n] = configuration_key(scored[i].listing)
    <2>1. PICK i \in complete : keys[n] = all[i]
      BY <1>7
    <2> QED
      BY <1>5, <1>6, <2>1
  <1>9. IsList(deals)
    BY <1>4, <1>7, MappedList
  <1>10. ASSUME NEW n \in DOMAIN deals
         PROVE  deals[n].score \in Int /\ deals[n].hardware_cost \in Int /\ deals[n].upgrade_cost \in Int
    <2>1. \E q : \E k : Plan(deals[n], CheapestFirst(OfConfiguration(scored, keys[n])), q, k, keys[n])
      BY <1>2, <1>8, PlanOf DEF PlanFor
    <2> QED
      BY <2>1 DEF Plan, TotalRange
  <1>11. Ranks(less, DOMAIN deals)
    <2>1. \A m, n \in DOMAIN deals : Better(deals[m], deals[n]) => ~Better(deals[n], deals[m])
      BY <1>10 DEF Better
    <2>2. \A l, m, n \in DOMAIN deals : Better(deals[l], deals[m]) =>
            Better(deals[l], deals[n]) \/ Better(deals[n], deals[m])
      BY <1>10 DEF Better
    <2> QED
      BY <1>3, <2>1, <2>2 DEF Ranks
  <1>12. /\ IsList(plans) /\ DOMAIN plans = DOMAIN deals
         /\ \E at : Rearranges(at, plans, deals, less)
    BY <1>1, <1>9, <1>11, SortedOf
  <1>13. PICK at : Rearranges(at, plans, deals, less)
    BY <1>12
  <1>14. /\ \A d \in DOMAIN deals : at[d] \in DOMAIN deals /\ plans[d] = deals[at[d]]
         /\ \A n \in DOMAIN deals : \E d \in DOMAIN deals : at[d] = n
    BY <1>13 DEF Rearranges
  <1>15. ASSUME NEW d \in DOMAIN plans
         PROVE  \E i \in InStock(scored) : \E key :
                  /\ key = configuration_key(scored[i].listing) /\ Complete(scored, key, required)
                  /\ plans[d] = PlanFor(scored, key, required)
    <2>1. at[d] \in DOMAIN keys /\ plans[d] = PlanFor(scored, keys[at[d]], required)
      BY <1>2, <1>12, <1>14
    <2>2. PICK i \in InStock(scored) : keys[at[d]] = configuration_key(scored[i].listing)
      BY <1>8, <2>1
    <2> QED
      BY <1>8, <2>1, <2>2
  <1>16. ASSUME NEW i \in InStock(scored), NEW key, key = configuration_key(scored[i].listing),
                Complete(scored, key, required)
         PROVE  \E d \in DOMAIN plans : plans[d] = PlanFor(scored, key, required)
    <2>1. PICK j \in DOMAIN all : all[j] = key
      BY <1>5, <1>16
    <2>2. PICK n \in DOMAIN keys : keys[n] = key
      BY <1>6, <1>7, <1>16, <2>1
    <2>3. PICK d \in DOMAIN deals : at[d] = n
      BY <1>2, <1>14, <2>2
    <2> QED
      BY <1>2, <1>12, <1>14, <2>2, <2>3
  <1> QED
    BY <1>12, <1>15, <1>16

-----------------------------------------------------------------------------
(* Theorems: what was asked for is what is answered.                       *)

LEMMA RequestOf ==
  ASSUME Prepared
  PROVE  /\ criteria.max_per_unit = Or(args.max_price, Config.max_per_unit)
         /\ criteria.quantity_required = Or(args.quantity, Config.quantity_required)
         /\ criteria.quantity_required \in Nat \ {0}
  <1>1. Config \in Criteria /\ args \in Invocations /\ {args.max_price, args.quantity} \subseteq Int \cup {Null}
    BY ServiceAssumption DEF Prepared
  <1>2. /\ DOMAIN Config = {"max_per_unit", "preferred_max", "quantity_required", "preferred_models",
                           "desired_memory", "upgradeable_to", "desired_storage", "nvme_preferred",
                           "preferred_speed", "minimum", "allowed", "excluded"}
        /\ Config.quantity_required \in Nat \ {0}
    BY <1>1 DEF Criteria, Positive
  <1> DEFINE capped == IF args.max_price = Null THEN Config
                       ELSE [Config EXCEPT !.max_per_unit = args.max_price,
                                           !.preferred_max = IF @ < args.max_price
                                                               THEN @ ELSE args.max_price]
             quantity == Or(args.quantity, capped.quantity_required)
             models == IF args.cpu = Null THEN capped.preferred_models ELSE {args.cpu}
  <1>3. /\ DOMAIN capped = DOMAIN Config
        /\ capped.max_per_unit = Or(args.max_price, Config.max_per_unit)
        /\ capped.quantity_required = Config.quantity_required
    BY <1>2 DEF Or
  <1>4. criteria = [capped EXCEPT !.quantity_required = quantity, !.preferred_models = models]
    BY DEF Prepared, apply_overrides
  <1> HIDE DEF capped, models
  <1>5. /\ criteria.max_per_unit = capped.max_per_unit
        /\ criteria.quantity_required = Or(args.quantity, capped.quantity_required)
    BY <1>2, <1>3, <1>4
  <1>6. Or(args.quantity, Config.quantity_required) \in Nat \ {0}
    <2>1. args.quantity # Null => args.quantity >= 1 /\ args.quantity \in Int
      BY <1>1 DEF Prepared
    <2> QED
      BY <1>2, <2>1 DEF Or
  <1> QED
    BY <1>3, <1>5, <1>6

\* What is observed can be planned with.
LEMMA ObservedPlannable ==
  ASSUME Ready
  PROVE  Plannable(Observed) /\ criteria.quantity_required \in Nat \ {0}
  <1>1. IsList(Observed)
    BY ObservedOf DEF Ready
  <1>2. ASSUME NEW n \in DOMAIN Observed
        PROVE  /\ IsListing(Observed[n].listing) /\ TotalRange(Observed[n].score)
               /\ Observed[n].upgrade \in Int
    BY ObservedScored, UpgradeInt
  <1>3. criteria.quantity_required \in Nat \ {0}
    BY RequestOf DEF Ready
  <1> QED
    BY <1>1, <1>2, <1>3 DEF Plannable

LEMMA RunPlannable ==
  ASSUME SearchInv, Done
  PROVE  /\ Plannable(run.observed)
         /\ run.cluster_deals = build_cluster_deals(run.observed, criteria.quantity_required)
         /\ criteria.quantity_required \in Nat \ {0}
  BY RunHolds, ObservedPlannable

\* A deal takes from the cheapest of its configuration, exactly as many as required.
LEMMA DealOf ==
  ASSUME NEW scored, Plannable(scored), NEW required \in Nat \ {0},
         NEW deals, deals = build_cluster_deals(scored, required),
         NEW d \in DOMAIN deals, NEW deal, deal = deals[d]
  PROVE  \E i \in InStock(scored) : \E key :
           /\ key = configuration_key(scored[i].listing) /\ Complete(scored, key, required)
           /\ \E q : \E k : LET o == CheapestFirst(OfConfiguration(scored, key))
                            IN  Takes(q, Stock(o), Len(o), k, required) /\ Plan(deal, o, q, k, key)
  <1>1. PICK i \in InStock(scored) : \E key :
          /\ key = configuration_key(scored[i].listing) /\ Complete(scored, key, required)
          /\ deal = PlanFor(scored, key, required)
    BY DealsOf
  <1>2. PICK key : /\ key = configuration_key(scored[i].listing) /\ Complete(scored, key, required)
                   /\ deal = PlanFor(scored, key, required)
    BY <1>1
  <1> DEFINE o == CheapestFirst(OfConfiguration(scored, key))
  <1>3. \E q : \E k : Takes(q, Stock(o), Len(o), k, required) /\ Plan(deal, o, q, k, key)
    BY <1>2, PlanOf DEF PlanFor
  <1> QED
    BY <1>2, <1>3

\* For any overrides, providers and stocks: what is ranked and planned is what was asked
\* for.
THEOREM RequestMet == ServiceSpec => []RankedMeetsRequest
  <1>1. SearchInv => RankedMeetsRequest
    <2> SUFFICES ASSUME SearchInv, Done PROVE RankedMeetsRequest
      BY DEF RankedMeetsRequest
    <2> DEFINE quantity == Or(args.quantity, Config.quantity_required)
    <2>1. /\ Answered /\ Prepared /\ ~Mislabelled
          /\ criteria.max_per_unit = Or(args.max_price, Config.max_per_unit)
          /\ criteria.quantity_required = quantity /\ quantity \in Nat \ {0}
      BY RunHolds, RequestOf
    <2>2. ASSUME NEW n \in DOMAIN run.ranked, NEW l, l = run.ranked[n].listing
          PROVE  /\ args.provider # {} => l.provider \in args.provider
                 /\ l.price <= Or(args.max_price, Config.max_per_unit)
                 /\ l.stock = Null \/ l.stock >= quantity
      <3>1. PICK m \in DOMAIN Accepted : run.ranked[n] = ScoredAgain(Accepted[m])
        BY RankedLists
      <3>2. l = Accepted[m]
        BY <2>2, <3>1 DEF ScoredAgain, Scored
      <3>3. PICK c \in DOMAIN Candidates : l = Candidates[c] /\ evaluate(criteria, l, TRUE)
        BY <2>1, <3>2, AcceptedLists
      <3>4. l.price <= criteria.max_per_unit /\ Meets(l.stock, criteria.quantity_required)
        BY <3>3 DEF evaluate
      <3>5. l.stock = Null \/ l.stock >= quantity
        BY <2>1, <3>4, NullIsNone DEF Meets
      <3>6. l.provider \in Names
        BY <2>1, <3>3 DEF Mislabelled
      <3>7. PICK s \in DOMAIN Sites : Asked(args.provider, Sites[s]) /\ Sites[s].name = l.provider
        BY <2>1, <3>6, ProviderOf DEF Answered
      <3>8. args.provider # {} => l.provider \in args.provider
        BY <3>7 DEF Asked
      <3> QED
        BY <2>1, <3>4, <3>5, <3>8
    <2>3. ASSUME NEW d \in DOMAIN run.cluster_deals, NEW a, a = run.cluster_deals[d].allocations
          PROVE  SumTo([n \in DOMAIN a |-> a[n].quantity], Len(a)) = quantity
      <3>1. PICK key : \E q : \E k : LET o == CheapestFirst(OfConfiguration(run.observed, key))
              IN  Takes(q, Stock(o), Len(o), k, quantity) /\ Plan(run.cluster_deals[d], o, q, k, key)
        BY <2>1, RunPlannable, DealOf
      <3> DEFINE o == CheapestFirst(OfConfiguration(run.observed, key))
      <3>2. PICK q, k : Takes(q, Stock(o), Len(o), k, quantity) /\ Plan(run.cluster_deals[d], o, q, k, key)
        BY <3>1
      <3> DEFINE taken == [n \in DOMAIN a |-> a[n].quantity]
      <3>3. Len(o) \in Nat
        BY RunPlannable, CheapestOf, ListIs
      <3> HIDE DEF o
      <3>4. k \in Nat /\ SumTo(q, k) = quantity
        BY <3>2, <3>3 DEF Takes
      <3>5. a = [n \in 1 .. k |-> [listing |-> o[n].listing, quantity |-> q[n]]]
        BY <2>3, <3>2 DEF Plan
      <3>6. Len(a) = k /\ DOMAIN a = 1 .. k
        <4>1. a = [n \in 1 .. k |-> a[n]]
          BY <3>5
        <4> HIDE <3>5
        <4> QED
          BY <3>4, <4>1, ListOf
      <3>7. \A n \in 1 .. k : taken[n] = q[n]
        BY <3>5, <3>6
      <3> HIDE DEF taken
      <3>8. SumTo(taken, k) = SumTo(q, k)
        BY <3>4, <3>7, SumSame
      <3> QED
        BY <3>4, <3>6, <3>8 DEF taken
    <2> HIDE DEF quantity, Done
    <2>4. \A l \in ListingsOf(run.ranked) :
            /\ args.provider # {} => l.provider \in args.provider
            /\ l.price <= Or(args.max_price, Config.max_per_unit)
            /\ l.stock = Null \/ l.stock >= quantity
      BY <2>2 DEF ListingsOf
    <2> QED
      BY <2>3, <2>4 DEF RankedMeetsRequest, quantity
  <1> QED
    BY <1>1, SearchInvariant, PTL

-----------------------------------------------------------------------------
(* Theorem: no cheaper plan.                                               *)

\* Prices in rising order; what is taken of each, as many as are required; what that costs.
Rising(w, N) == /\ \A n \in 1 .. N : w[n] \in Int
                /\ \A m, n \in 1 .. N : m < n => w[m] <= w[n]
Fills(h, stock, N, required) == /\ \A n \in 1 .. N : h[n] \in Nat /\ h[n] <= stock[n]
                                /\ SumTo(h, N) = required
Costs(c, h, w, N) == \A n \in 1 .. N : c[n] = h[n] * w[n]

\* Taking from the cheapest first costs no more than any other way to take as many.
LEMMA GreedyCheapest ==
  ASSUME NEW N \in Nat, NEW w, Rising(w, N),
         NEW stock, NEW q, NEW k, NEW required \in Nat, Takes(q, stock, N, k, required),
         NEW h, Fills(h, stock, N, required), NEW a, Costs(a, q, w, N), NEW b, Costs(b, h, w, N)
  PROVE  SumTo(a, N) <= SumTo(b, N)
  <1>1. /\ k \in 1 .. N
        /\ \A n \in 1 .. N : /\ q[n] \in Nat /\ (q[n] > 0 <=> n <= k)
                             /\ n < k => q[n] = stock[n]
        /\ \A n \in 1 .. N : w[n] \in Int
        /\ \A m, n \in 1 .. N : m < n => w[m] <= w[n]
        /\ \A n \in 1 .. N : h[n] \in Nat /\ h[n] <= stock[n]
        /\ \A n \in 1 .. N : a[n] = q[n] * w[n] /\ b[n] = h[n] * w[n]
    BY DEF Takes, Rising, Fills, Costs
  <1> DEFINE P == w[k]
             c == [n \in 1 .. N |-> a[n] + P * h[n]]
             e == [n \in 1 .. N |-> b[n] + P * q[n]]
  <1>2. P \in Int
    BY <1>1
  <1>3. \A x \in Nat : \A y \in Int : x * y \in Int /\ y * x \in Int /\ x * y = y * x
    OBVIOUS
  <1>4. ASSUME NEW x \in Nat, NEW y \in Nat, NEW v \in Int, x <= y, v <= P
        PROVE  y * v + P * x <= x * v + P * y
    <2>1. PICK r \in Nat : y = x + r
      <3>1. y - x \in Nat /\ y = x + (y - x)
        BY <1>4
      <3> QED
        BY <3>1
    <2>2. r * v <= r * P
      <3>1. v * r <= P * r
        BY <1>2, <1>4, TimesLess
      <3> QED
        BY <1>2, <1>3, <3>1
    <2>3. y * v = x * v + r * v /\ P * y = P * x + P * r /\ P * r = r * P
      BY <1>2, <2>1
    <2>4. /\ x * v \in Int /\ r * v \in Int /\ P * x \in Int /\ r * P \in Int
      BY <1>2, <1>3
    <2> QED
      BY <2>2, <2>3, <2>4
  <1>6. \A n \in 1 .. N : c[n] = a[n] + P * h[n] /\ e[n] = b[n] + P * q[n]
    OBVIOUS
  <1> HIDE DEF P, c, e
  <1>5. ASSUME NEW n \in 1 .. N
        PROVE  /\ a[n] \in Int /\ b[n] \in Int /\ h[n] \in Int /\ q[n] \in Int
               /\ a[n] + P * h[n] \in Int /\ b[n] + P * q[n] \in Int
               /\ a[n] + P * h[n] <= b[n] + P * q[n]
    <2>1. q[n] \in Nat /\ h[n] \in Nat /\ w[n] \in Int /\ a[n] = q[n] * w[n] /\ b[n] = h[n] * w[n]
      BY <1>1
    <2>2. a[n] \in Int /\ b[n] \in Int /\ P * h[n] \in Int /\ P * q[n] \in Int
      BY <1>2, <1>3, <2>1
    <2>3. CASE n < k
      <3>1. h[n] <= q[n]
        BY <1>1, <2>3
      <3>2. w[n] <= P
        BY <1>1, <2>3 DEF P
      <3>3. q[n] * w[n] + P * h[n] <= h[n] * w[n] + P * q[n]
        BY <1>4, <2>1, <3>1, <3>2
      <3> QED
        BY <2>1, <2>2, <3>3
    <2>4. CASE n = k
      <3>1. a[n] = P * q[n] /\ b[n] = P * h[n]
        BY <1>2, <1>3, <2>1, <2>4 DEF P
      <3> QED
        BY <2>1, <2>2, <3>1
    <2>5. CASE k < n
      <3>1. q[n] = 0
        <4>1. ~(n <= k)
          BY <1>1, <2>5
        <4> QED
          BY <1>1, <2>1, <4>1
      <3>2. P <= w[n]
        BY <1>1, <2>5 DEF P
      <3>3. P * h[n] <= w[n] * h[n]
        BY <1>2, <2>1, <3>2, TimesLess
      <3>4. a[n] = 0 /\ P * q[n] = 0 /\ b[n] = w[n] * h[n]
        BY <1>2, <1>3, <2>1, <3>1
      <3> QED
        BY <2>1, <2>2, <3>3, <3>4
    <2> QED
      BY <1>1, <2>1, <2>2, <2>3, <2>4, <2>5
  <1>7. SumTo(c, N) <= SumTo(e, N)
    BY <1>5, <1>6, SumMonotone
  <1>8. SumTo(c, N) = SumTo(a, N) + P * SumTo(h, N)
    <2>1. \A n \in 1 .. N : a[n] \in Int /\ h[n] \in Int /\ c[n] = a[n] + P * h[n]
      BY <1>5, <1>6
    <2> QED
      BY <1>2, <2>1, SumLinear
  <1>9. SumTo(e, N) = SumTo(b, N) + P * SumTo(q, N)
    BY <1>2, <1>5, <1>6, SumLinear
  <1>10. SumTo(a, N) \in Int /\ SumTo(b, N) \in Int /\ P * required \in Int
    BY <1>2, <1>3, <1>5, SumRange
  <1>11. SumTo(q, N) = required /\ SumTo(h, N) = required
    BY DEF Takes, Fills
  <1> QED
    BY <1>7, <1>8, <1>9, <1>10, <1>11

\* What one unit of an observed listing costs.
UnitCost(n) == run.observed[n].listing.price + _upgrade_cost(criteria, run.observed[n].listing)

\* Within a configuration the upgrade costs the same.
LEMMA SameUpgrade ==
  ASSUME NEW l, NEW k, configuration_key(l) = configuration_key(k)
  PROVE  _upgrade_cost(criteria, l) = _upgrade_cost(criteria, k)
  <1>1. l.attrs["memory_gb"] = k.attrs["memory_gb"] /\ l.attrs["storage_gb"] = k.attrs["storage_gb"]
    BY DEF configuration_key
  <1> QED
    BY <1>1 DEF _upgrade_cost, Value

\* A way to fill the plan, in the order of the places that at numbers.
LEMMA PlanListed ==
  ASSUME NEW members, NEW N \in Nat, NEW at, Numbers(at, N, members), NEW f \in Plans(members),
         criteria.quantity_required \in Nat,
         \A n \in members : UnitCost(n) \in Int
  PROVE  /\ \A n \in 1 .. N : /\ Through(f, at)[n] = f[at[n]] /\ f[at[n]] \in Nat
                              /\ f[at[n]] <= run.observed[at[n]].listing.stock
         /\ SumTo(Through(f, at), N) = criteria.quantity_required
         /\ CostOf(f) = SumTo([n \in 1 .. N |-> f[at[n]] * UnitCost(at[n])], N)
  <1>1. /\ f \in [members -> 0 .. criteria.quantity_required]
        /\ \A n \in members : f[n] <= run.observed[n].listing.stock
        /\ SumFunction(f) = criteria.quantity_required
    BY DEF Plans
  <1>2. \A n \in 1 .. N : at[n] \in members /\ Through(f, at)[n] = f[at[n]]
    BY DEF Numbers, Through
  <1>3. DOMAIN f = members /\ \A n \in members : f[n] \in Nat /\ f[n] \in Int
    BY <1>1
  <1>4. SumTo(Through(f, at), N) = criteria.quantity_required
    BY <1>1, <1>3, SumNumbered
  <1> DEFINE cost == [n \in DOMAIN f |-> f[n] * UnitCost(n)]
             listed == [n \in 1 .. N |-> f[at[n]] * UnitCost(at[n])]
  <1>5. CostOf(f) = SumFunction(cost)
    BY DEF CostOf, UnitCost
  <1>6. DOMAIN cost = members /\ \A n \in members : cost[n] = f[n] * UnitCost(n) /\ cost[n] \in Int
    <2>1. \A x, y \in Int : x * y \in Int
      OBVIOUS
    <2> HIDE DEF UnitCost
    <2> QED
      BY <1>3, <2>1
  <1>7. \A n \in 1 .. N : listed[n] = f[at[n]] * UnitCost(at[n])
    OBVIOUS
  <1> HIDE DEF cost, listed
  <1>8. SumFunction(cost) = SumTo(Through(cost, at), N)
    BY <1>6, SumNumbered
  <1>9. \A n \in 1 .. N : Through(cost, at)[n] = listed[n]
    BY <1>2, <1>6, <1>7 DEF Numbers, Through
  <1>10. SumTo(Through(cost, at), N) = SumTo(listed, N)
    BY <1>9, SumSame
  <1>11. CostOf(f) = SumTo(listed, N)
    BY <1>5, <1>8, <1>10
  <1> QED
    BY <1>1, <1>2, <1>3, <1>4, <1>11 DEF listed

LEMMA EnumeratesNumbers ==
  ASSUME NEW at, NEW o, IsList(o), NEW s, NEW members, Enumerates(at, o, s, members)
  PROVE  Numbers(at, Len(o), members)
  BY ListIs DEF Enumerates, Numbers

\* Where the stock can fill a plan, it is enough.
LEMMA FillableComplete ==
  ASSUME SearchInv, Done, NEW key, Plans(Members(run.observed, key)) # {}
  PROVE  Complete(run.observed, key, criteria.quantity_required)
  <1> DEFINE members == Members(run.observed, key)
             g == OfConfiguration(run.observed, key)
             N == Len(g)
             required == criteria.quantity_required
  <1>1. Plannable(run.observed) /\ required \in Nat /\ required \in Nat \ {0}
    BY RunPlannable
  <1>2. PICK f : f \in Plans(members)
    OBVIOUS
  <1>3. /\ IsList(g) /\ \E at : Enumerates(at, g, run.observed, members)
        /\ \A n \in DOMAIN g : /\ Stock(g)[n] = g[n].listing.stock
                               /\ g[n].listing.stock \in Nat \ {0} /\ g[n].listing.price \in Nat
    BY <1>1, GroupOf
  <1>4. PICK at : Enumerates(at, g, run.observed, members)
    BY <1>3
  <1>5. N \in Nat /\ DOMAIN g = 1 .. N
    BY <1>3, ListIs
  <1>6. /\ f \in [members -> 0 .. required] /\ SumFunction(f) = required
        /\ \A n \in members : f[n] <= run.observed[n].listing.stock
    BY <1>2 DEF Plans
  <1>7. Numbers(at, N, members)
    BY <1>3, <1>4, EnumeratesNumbers
  <1>8. Complete(run.observed, key, required) <=> SumTo(Stock(g), N) >= required
    BY DEF Complete, Stock
  <1> HIDE DEF members, g, required
  <1>9. SumTo(Through(f, at), N) = required
    <2>1. DOMAIN f = members /\ \A n \in members : f[n] \in Int
      BY <1>1, <1>6
    <2> QED
      BY <1>5, <1>6, <1>7, <2>1, SumNumbered
  <1>10. ASSUME NEW n \in 1 .. N
         PROVE  Through(f, at)[n] \in Int /\ Stock(g)[n] \in Int /\ Through(f, at)[n] <= Stock(g)[n]
    <2>1. at[n] \in members /\ g[n] = run.observed[at[n]] /\ n \in DOMAIN at
      BY <1>4, <1>5 DEF Enumerates
    <2>2. Through(f, at)[n] = f[at[n]]
      BY <2>1 DEF Through
    <2>3. f[at[n]] \in Int /\ f[at[n]] <= run.observed[at[n]].listing.stock
      BY <1>1, <1>6, <2>1
    <2> QED
      BY <1>3, <1>5, <2>1, <2>2, <2>3
  <1>11. SumTo(Through(f, at), N) <= SumTo(Stock(g), N) /\ SumTo(Stock(g), N) \in Int
    BY <1>5, <1>10, SumMonotone, SumRange
  <1> QED
    BY <1>1, <1>8, <1>9, <1>11 DEF required

\* The deal is one of the plans of its configuration, and none costs less.
Cheapest(deal, members) ==
  \E taken \in Plans(members) :
    /\ Allocates(deal.allocations, taken)
    /\ deal.hardware_cost + deal.upgrade_cost = CostOf(taken)
    /\ \A f \in Plans(members) : CostOf(taken) <= CostOf(f)

LEMMA DealCheapest ==
  ASSUME SearchInv, Done, NEW key, NEW o, o = CheapestFirst(OfConfiguration(run.observed, key)),
         NEW deal, NEW q, NEW k, Takes(q, Stock(o), Len(o), k, criteria.quantity_required),
         Plan(deal, o, q, k, key)
  PROVE  Cheapest(deal, Members(run.observed, key))
  <1> DEFINE members == Members(run.observed, key)
             N == Len(o)
             required == criteria.quantity_required
  <1>1. Plannable(run.observed) /\ required \in Nat /\ required \in Nat \ {0}
    BY RunPlannable
  <1>2. /\ IsList(o)
        /\ \E at : Enumerates(at, o, run.observed, members)
        /\ \A n \in DOMAIN o : /\ Stock(o)[n] = o[n].listing.stock
                               /\ o[n].listing.stock \in Nat \ {0} /\ o[n].listing.price \in Nat
        /\ \A m, n \in DOMAIN o : m < n => o[m].listing.price <= o[n].listing.price
    BY <1>1, CheapestOf
  <1>3. N \in Nat /\ DOMAIN o = 1 .. N
    BY <1>2, ListIs
  <1>4. PICK at : Enumerates(at, o, run.observed, members)
    BY <1>2
  <1>5. /\ \A n \in 1 .. N : at[n] \in members /\ o[n] = run.observed[at[n]]
        /\ \A i \in members : \E n \in 1 .. N : at[n] = i
        /\ \A m, n \in 1 .. N : at[m] = at[n] => m = n
        /\ DOMAIN at = 1 .. N
    <2> HIDE DEF members, N
    <2> QED
      BY <1>3, <1>4 DEF Enumerates
  <1>19. Numbers(at, N, members)
    BY <1>2, <1>4, EnumeratesNumbers
  <1>6. /\ k \in 1 .. N /\ SumTo(q, N) = required
        /\ \A n \in 1 .. N : /\ q[n] \in Nat /\ q[n] <= Stock(o)[n]
                             /\ q[n] > 0 <=> n <= k
    BY DEF Takes
  <1>7. \A i \in members : /\ i \in DOMAIN run.observed
                           /\ configuration_key(run.observed[i].listing) = key
    BY DEF Members, InStock
  <1>20. \A n \in 1 .. N : /\ Stock(o)[n] = run.observed[at[n]].listing.stock
                           /\ q[n] <= run.observed[at[n]].listing.stock
    <2> SUFFICES ASSUME NEW n \in 1 .. N
                 PROVE  /\ Stock(o)[n] = run.observed[at[n]].listing.stock
                        /\ q[n] <= run.observed[at[n]].listing.stock
      OBVIOUS
    <2>1. Stock(o)[n] = o[n].listing.stock
      BY <1>2, <1>3
    <2>2. o[n] = run.observed[at[n]] /\ q[n] <= Stock(o)[n]
      BY <1>5, <1>6
    <2> QED
      BY <2>1, <2>2
  <1> HIDE DEF members, required, N
  <1>8. \A i \in members : /\ run.observed[i].upgrade = _upgrade_cost(criteria, run.observed[i].listing)
                           /\ run.observed[i].upgrade \in Int /\ run.observed[i].listing.price \in Nat
                           /\ UnitCost(i) = run.observed[i].listing.price + run.observed[i].upgrade
                           /\ UnitCost(i) \in Int
    <2> SUFFICES ASSUME NEW i \in members
                 PROVE  /\ run.observed[i].upgrade = _upgrade_cost(criteria, run.observed[i].listing)
                        /\ run.observed[i].upgrade \in Int /\ run.observed[i].listing.price \in Nat
                        /\ UnitCost(i) = run.observed[i].listing.price + run.observed[i].upgrade
                        /\ UnitCost(i) \in Int
      OBVIOUS
    <2>1. i \in DOMAIN run.observed
      BY <1>7
    <2>2. /\ run.observed[i].upgrade = _upgrade_cost(criteria, run.observed[i].listing)
          /\ IsListing(run.observed[i].listing)
      BY <2>1, RunHolds, ObservedScored
    <2>3. run.observed[i].upgrade \in Int
      BY <1>1, <2>1 DEF Plannable
    <2> QED
      BY <2>2, <2>3 DEF IsListing, UnitCost
  <1> DEFINE w == [n \in 1 .. N |-> UnitCost(at[n])]
             a == [n \in 1 .. N |-> q[n] * w[n]]
             prices == [n \in DOMAIN o |-> o[n].listing.price * q[n]]
             upgrades == [n \in DOMAIN o |-> o[n].upgrade * q[n]]
  <1>9. \A n \in 1 .. N : /\ w[n] = UnitCost(at[n]) /\ w[n] \in Int
                          /\ w[n] = o[n].listing.price + o[n].upgrade
                          /\ o[n].upgrade \in Int /\ o[n].listing.price \in Nat
    BY <1>5, <1>8
  <1>10. ASSUME NEW m \in 1 .. N, NEW n \in 1 .. N, m < n PROVE w[m] <= w[n]
    <2>1. o[m].upgrade = o[n].upgrade
      BY <1>5, <1>7, <1>8, SameUpgrade
    <2>2. o[m].listing.price <= o[n].listing.price
      BY <1>2, <1>3, <1>10
    <2> QED
      BY <1>9, <2>1, <2>2
  <1>11. /\ \A n \in 1 .. N : a[n] = q[n] * w[n]
         /\ \A n \in 1 .. N : prices[n] = o[n].listing.price * q[n] /\ upgrades[n] = o[n].upgrade * q[n]
    BY <1>3
  <1>12. deal.hardware_cost = SumTo(prices, N) /\ deal.upgrade_cost = SumTo(upgrades, N)
    <2>1. /\ deal.hardware_cost = SumTo([n \in DOMAIN o |-> o[n].listing.price * q[n]], Len(o))
          /\ deal.upgrade_cost = SumTo([n \in DOMAIN o |-> o[n].upgrade * q[n]], Len(o))
      BY DEF Plan
    <2> QED
      BY <2>1 DEF N
  <1> HIDE DEF w, a, prices, upgrades
  <1>13. deal.hardware_cost + deal.upgrade_cost = SumTo(a, N)
    <2>1. ASSUME NEW n \in 1 .. N
          PROVE  prices[n] \in Int /\ upgrades[n] \in Int /\ a[n] = prices[n] + 1 * upgrades[n]
      <3>1. \A x, y, z \in Int : /\ x * z \in Int /\ y * z \in Int
                                 /\ z * (x + y) = x * z + 1 * (y * z)
        OBVIOUS
      <3>2. o[n].listing.price \in Int /\ o[n].upgrade \in Int /\ q[n] \in Int
        BY <1>6, <1>9
      <3>3. /\ o[n].listing.price * q[n] \in Int /\ o[n].upgrade * q[n] \in Int
            /\ q[n] * (o[n].listing.price + o[n].upgrade)
                 = o[n].listing.price * q[n] + 1 * (o[n].upgrade * q[n])
        BY <3>1, <3>2
      <3>4. /\ prices[n] = o[n].listing.price * q[n] /\ upgrades[n] = o[n].upgrade * q[n]
            /\ a[n] = q[n] * (o[n].listing.price + o[n].upgrade)
        BY <1>9, <1>11
      <3> QED
        BY <3>3, <3>4
    <2>2. PICK one \in Int : one = 1
      OBVIOUS
    <2>3. \A n \in 1 .. N : prices[n] \in Int /\ upgrades[n] \in Int /\ a[n] = prices[n] + one * upgrades[n]
      BY <2>1, <2>2
    <2>4. SumTo(a, N) = SumTo(prices, N) + one * SumTo(upgrades, N)
      BY <1>3, <2>3, SumLinear
    <2>5. SumTo(prices, N) \in Int /\ SumTo(upgrades, N) \in Int
      BY <1>3, <2>1, SumRange
    <2> QED
      BY <1>12, <2>2, <2>4, <2>5
  <1> DEFINE taken == [i \in members |-> q[CHOOSE n \in 1 .. N : at[n] = i]]
  <1>14. /\ DOMAIN taken = members /\ taken = [i \in members |-> taken[i]]
         /\ \A n \in 1 .. N : taken[at[n]] = q[n]
    BY <1>5
  <1> HIDE DEF taken
  <1>15. taken \in Plans(members)
    <2>1. ASSUME NEW i \in members
          PROVE  /\ taken[i] \in 0 .. required /\ taken[i] \in Int
                 /\ taken[i] <= run.observed[i].listing.stock
      <3>1. PICK n \in 1 .. N : at[n] = i
        BY <1>5
      <3>2. taken[i] = q[n] /\ q[n] \in Nat /\ q[n] <= run.observed[i].listing.stock
        BY <1>6, <1>14, <1>20, <3>1
      <3>3. q[n] <= required
        BY <1>1, <1>3, <1>6, SumTerm
      <3> QED
        BY <1>1, <3>2, <3>3
    <2>2. SumFunction(taken) = SumTo(Through(taken, at), N)
      BY <1>3, <1>14, <1>19, <2>1, SumNumbered
    <2>3. \A n \in 1 .. N : Through(taken, at)[n] = q[n]
      BY <1>5, <1>14 DEF Through
    <2>4. SumFunction(taken) = required
      BY <1>3, <1>6, <2>2, <2>3, SumSame
    <2>5. taken \in [members -> 0 .. required]
      BY <1>14, <2>1
    <2> QED
      BY <2>1, <2>4, <2>5 DEF Plans, required
  <1>16. CostOf(taken) = SumTo(a, N)
    <2> DEFINE listed == [n \in 1 .. N |-> taken[at[n]] * UnitCost(at[n])]
    <2>1. CostOf(taken) = SumTo(listed, N)
      BY <1>1, <1>3, <1>8, <1>15, <1>19, PlanListed DEF required
    <2>2. \A n \in 1 .. N : listed[n] = a[n]
      BY <1>9, <1>11, <1>14
    <2> HIDE DEF listed
    <2> QED
      BY <1>3, <2>1, <2>2, SumSame
  <1>17. ASSUME NEW f \in Plans(members) PROVE CostOf(taken) <= CostOf(f)
    <2> DEFINE h == Through(f, at)
               listed == [n \in 1 .. N |-> f[at[n]] * UnitCost(at[n])]
    <2>1. \A n \in 1 .. N : /\ h[n] = f[at[n]] /\ f[at[n]] \in Nat
                            /\ f[at[n]] <= run.observed[at[n]].listing.stock
      BY <1>1, <1>3, <1>8, <1>19, PlanListed DEF required
    <2>6. SumTo(h, N) = required
      <3>1. f \in [members -> 0 .. required] /\ SumFunction(f) = required
        BY DEF Plans, required
      <3>2. DOMAIN f = members /\ \A i \in members : f[i] \in Int
        BY <1>1, <3>1
      <3>3. SumFunction(f) = SumTo(Through(f, at), N)
        BY <1>3, <1>19, <3>2, SumNumbered
      <3> QED
        BY <3>1, <3>3 DEF h
    <2>7. CostOf(f) = SumTo(listed, N)
      BY <1>1, <1>3, <1>8, <1>19, PlanListed DEF required
    <2>2. \A n \in 1 .. N : listed[n] = f[at[n]] * UnitCost(at[n])
      OBVIOUS
    <2> HIDE DEF listed
    <2> HIDE DEF h
    <2>3. \A n \in 1 .. N : h[n] \in Nat /\ h[n] <= Stock(o)[n]
      BY <1>20, <2>1
    <2>8. \A n \in 1 .. N : listed[n] = h[n] * w[n]
      BY <1>9, <2>1, <2>2
    <2>4. Takes(q, Stock(o), N, k, required)
      BY DEF required, N
    <2>9. /\ Rising(w, N) /\ Costs(a, q, w, N) /\ Costs(listed, h, w, N)
          /\ Fills(h, Stock(o), N, required)
      BY <1>9, <1>10, <1>11, <2>3, <2>6, <2>8 DEF Rising, Costs, Fills
    <2>5. SumTo(a, N) <= SumTo(listed, N)
      BY <1>1, <1>3, <2>4, <2>9, GreedyCheapest
    <2> QED
      BY <1>16, <2>5, <2>7
  <1>18. Allocates(deal.allocations, taken)
    <2> DEFINE place == [n \in 1 .. k |-> at[n]]
    <2>1. deal.allocations = [n \in 1 .. k |-> [listing |-> o[n].listing, quantity |-> q[n]]]
      BY DEF Plan
    <2>2. \A n \in 1 .. k : n \in 1 .. N
      BY <1>3, <1>6
    <2>3. /\ place \in [1 .. k -> members] /\ \A n \in 1 .. k : place[n] = at[n]
      BY <1>5, <2>2
    <2>4. DOMAIN deal.allocations = 1 .. k
      BY <2>1
    <2>5. \A n \in 1 .. k : deal.allocations[n].listing = o[n].listing /\ deal.allocations[n].quantity = q[n]
      BY <2>1
    <2> HIDE DEF place
    <2>6. place \in Injection(DOMAIN deal.allocations, DOMAIN taken)
      BY <1>5, <1>14, <2>2, <2>3, <2>4 DEF Injection, IsInjective
    <2>7. ASSUME NEW n \in DOMAIN deal.allocations
          PROVE  /\ deal.allocations[n].listing = run.observed[place[n]].listing
                 /\ deal.allocations[n].quantity = taken[place[n]]
      <3>1. n \in 1 .. k /\ n \in 1 .. N /\ place[n] = at[n]
        BY <2>2, <2>3, <2>4
      <3>2. o[n] = run.observed[at[n]] /\ taken[at[n]] = q[n]
        BY <1>5, <1>14, <3>1
      <3> QED
        BY <2>5, <3>1, <3>2
    <2>8. ASSUME NEW i \in DOMAIN taken, taken[i] > 0
          PROVE  \E n \in DOMAIN deal.allocations : place[n] = i
      <3>1. PICK n \in 1 .. N : at[n] = i
        BY <1>5, <1>14
      <3>2. n <= k
        BY <1>6, <1>14, <2>8, <3>1
      <3>3. n \in 1 .. k
        BY <1>3, <1>6, <3>2
      <3> QED
        BY <2>3, <2>4, <3>1, <3>3
    <2> QED
      BY <2>6, <2>7, <2>8 DEF Allocates
  <1> QED
    BY <1>13, <1>15, <1>16, <1>17, <1>18 DEF Cheapest, members

\* For any listings, stocks, prices and number of nodes: there is a plan wherever the
\* known stock can fill one, and no other way to fill it from its configuration costs less.
THEOREM PlansCheapest == ServiceSpec => []ClusterPlansCheapest
  <1>1. SearchInv => ClusterPlansCheapest
    <2> SUFFICES ASSUME SearchInv, Done PROVE ClusterPlansCheapest
      BY DEF ClusterPlansCheapest
    <2> DEFINE stocked == {n \in DOMAIN run.observed : run.observed[n].listing.stock \notin {Null, 0}}
               key == [n \in stocked |-> configuration_key(run.observed[n].listing)]
               group(c) == {n \in stocked : key[n] = c}
               planned == {run.cluster_deals[d].configuration : d \in DOMAIN run.cluster_deals}
               required == criteria.quantity_required
    <2>1. /\ stocked = InStock(run.observed) /\ \A c : group(c) = Members(run.observed, c)
          /\ \A n \in stocked : key[n] = configuration_key(run.observed[n].listing)
      BY DEF InStock, Members
    <2> HIDE DEF stocked, key, group, required
    <2>2. /\ Plannable(run.observed) /\ required \in Nat \ {0}
          /\ run.cluster_deals = build_cluster_deals(run.observed, required)
      BY RunPlannable DEF required
    <2>3. ASSUME NEW d \in DOMAIN run.cluster_deals, NEW deal, deal = run.cluster_deals[d]
          PROVE  /\ \E n \in stocked : deal.configuration = key[n]
                 /\ Cheapest(deal, group(deal.configuration))
      <3>1. PICK i \in InStock(run.observed) : \E c :
              /\ c = configuration_key(run.observed[i].listing) /\ Complete(run.observed, c, required)
              /\ \E q : \E k : LET o == CheapestFirst(OfConfiguration(run.observed, c))
                               IN  Takes(q, Stock(o), Len(o), k, required) /\ Plan(deal, o, q, k, c)
        BY <2>2, <2>3, DealOf
      <3>2. PICK c : /\ c = configuration_key(run.observed[i].listing)
                     /\ \E q : \E k : LET o == CheapestFirst(OfConfiguration(run.observed, c))
                               IN  Takes(q, Stock(o), Len(o), k, required) /\ Plan(deal, o, q, k, c)
        BY <3>1
      <3> DEFINE o == CheapestFirst(OfConfiguration(run.observed, c))
      <3>3. PICK q, k : Takes(q, Stock(o), Len(o), k, required) /\ Plan(deal, o, q, k, c)
        BY <3>2
      <3>4. deal.configuration = c
        BY <3>3 DEF Plan
      <3>5. Cheapest(deal, Members(run.observed, c))
        BY <3>3, DealCheapest DEF required
      <3> QED
        BY <2>1, <3>1, <3>2, <3>4, <3>5
    <2>4. ASSUME NEW n \in stocked, Plans(group(key[n])) # {}
          PROVE  key[n] \in planned
      <3>1. /\ n \in InStock(run.observed) /\ key[n] = configuration_key(run.observed[n].listing)
            /\ Complete(run.observed, key[n], required)
        BY <2>1, <2>4, FillableComplete DEF required
      <3>2. PICK d \in DOMAIN run.cluster_deals : run.cluster_deals[d] = PlanFor(run.observed, key[n], required)
        BY <2>2, <3>1, DealsOf
      <3>3. \E q : \E k :
              Plan(run.cluster_deals[d], CheapestFirst(OfConfiguration(run.observed, key[n])), q, k, key[n])
        BY <2>2, <3>1, <3>2, PlanOf DEF PlanFor
      <3>4. run.cluster_deals[d].configuration = key[n]
        BY <3>3 DEF Plan
      <3> QED
        BY <3>4
    <2>5. \A d \in DOMAIN run.cluster_deals : Plans(group(run.cluster_deals[d].configuration)) # {}
      BY <2>3 DEF Cheapest
    <2>6. planned = {c \in {key[n] : n \in stocked} : Plans(group(c)) # {}}
      <3>1. ASSUME NEW c \in planned PROVE c \in {key[n] : n \in stocked} /\ Plans(group(c)) # {}
        <4>1. PICK d \in DOMAIN run.cluster_deals : c = run.cluster_deals[d].configuration
          OBVIOUS
        <4> QED
          BY <2>3, <2>5, <4>1
      <3>2. \A c \in {key[n] : n \in stocked} : Plans(group(c)) # {} => c \in planned
        BY <2>4
      <3> HIDE DEF planned
      <3> QED
        BY <3>1, <3>2
    <2>7. \A d \in DOMAIN run.cluster_deals :
            LET deal == run.cluster_deals[d]
                plans == Plans(group(deal.configuration))
            IN  \E taken \in plans :
                  /\ Allocates(deal.allocations, taken)
                  /\ deal.hardware_cost + deal.upgrade_cost = CostOf(taken)
                  /\ \A f \in plans : CostOf(taken) <= CostOf(f)
      BY <2>3 DEF Cheapest
    <2> QED
      BY <2>6, <2>7 DEF ClusterPlansCheapest, stocked, key, group
  <1> QED
    BY <1>1, SearchInvariant, PTL

-----------------------------------------------------------------------------
(* Theorem: only a plugin makes a search fail.                              *)

\* A listing of somebody else's, or of a machine without cores, threads or memory, came
\* from a plugin.
LEMMA OddListing ==
  ASSUME Answered, NEW i \in DOMAIN Listings,
         Listings[i].provider \notin Names \/ ~IsNode(Listings[i].attrs)
  PROVE  \E p \in Names : Faulty(p)
  <1>1. PICK p \in Names : \E j \in DOMAIN answer[p].found : Listings[i] = answer[p].found[j]
    BY ListingsAnswered
  <1>2. PICK j \in DOMAIN answer[p].found : Listings[i] = answer[p].found[j]
    BY <1>1
  <1>3. IsAnswer(Provider(p), answer[p]) /\ Provider(p).name = p
    BY ProviderOf DEF Answered, Answers
  <1>4. ASSUME Provider(p).kind # "plugin" PROVE FALSE
    <2>1. PICK payload, held : /\ Readable(payload)
                               /\ answer[p].found[j] = normalize_listing(Provider(p).name, payload, held)
      BY <1>3, <1>4 DEF IsAnswer
    <2>2. Listings[i].provider = p /\ IsNode(Listings[i].attrs)
      BY <1>2, <1>3, <2>1, NormalizedTyped
    <2> QED
      BY <2>2
  <1> QED
    BY <1>2, <1>4 DEF Faulty

LEMMA OddCandidate ==
  ASSUME Answered, NEW n \in DOMAIN Candidates,
         Candidates[n].provider \notin Names \/ ~IsNode(Candidates[n].attrs)
  PROVE  \E p \in Names : Faulty(p)
  <1>1. PICK i \in Kept : Candidates[n] = enrich(Listings[i])
    BY CandidatesLists
  <1>2. i \in DOMAIN Listings /\ IsListing(Listings[i]) /\ Described(Listings[i])
    BY ListingsAnswered DEF Kept
  <1>3. "provider" \in Fields \ {"maker", "attrs", "features", "provenance"}
    BY DEF Fields
  <1>4. /\ Candidates[n].provider = Listings[i].provider
        /\ IsNode(Listings[i].attrs) => IsNode(Candidates[n].attrs)
    BY <1>1, <1>2, <1>3, Completed
  <1> QED
    BY <1>2, <1>4, OddListing

\* With weights and costs that are not negative, all plans are accepted but those of
\* machines that only a plugin describes.
LEMMA RefusedDeal ==
  ASSUME NonNegative, Ready, NEW d \in DOMAIN ClusterDeals, Refuses(ClusterDeals[d])
  PROVE  \E p \in Names : Faulty(p)
  <1> DEFINE deal == ClusterDeals[d]
             required == criteria.quantity_required
  <1>1. /\ Plannable(Observed) /\ required \in Nat \ {0}
        /\ ClusterDeals = build_cluster_deals(Observed, required)
    BY ObservedPlannable DEF ClusterDeals
  <1> HIDE DEF required
  <1>2. PICK key : \E q : \E k :
          LET o == CheapestFirst(OfConfiguration(Observed, key))
          IN  Takes(q, Stock(o), Len(o), k, required) /\ Plan(deal, o, q, k, key)
    BY <1>1, DealOf
  <1> DEFINE o == CheapestFirst(OfConfiguration(Observed, key))
             N == Len(o)
  <1>3. PICK q, k : Takes(q, Stock(o), N, k, required) /\ Plan(deal, o, q, k, key)
    BY <1>2
  <1>4. /\ IsList(o)
        /\ \A n \in DOMAIN o : \E i \in Members(Observed, key) : o[n] = Observed[i]
    BY <1>1, CheapestOf
  <1> HIDE DEF o, N
  <1>5. N \in Nat /\ DOMAIN o = 1 .. N
    BY <1>4, ListIs DEF N
  <1>6. \A n \in 1 .. N : \E i \in DOMAIN Candidates :
          /\ i \in DOMAIN Observed /\ o[n] = Observed[i] /\ o[n].listing = Candidates[i]
    <2> TAKE n \in 1 .. N
    <2>1. PICK i \in Members(Observed, key) : o[n] = Observed[i]
      BY <1>4, <1>5
    <2>2. i \in DOMAIN Observed
      BY <2>1 DEF Members, InStock
    <2> QED
      BY <2>1, <2>2, ObservedOf DEF Ready
  <1>7. k \in 1 .. N /\ \A n \in 1 .. N : q[n] \in Nat
    BY <1>3 DEF Takes
  <1>8. /\ deal.allocations = [n \in 1 .. k |-> [listing |-> o[n].listing, quantity |-> q[n]]]
        /\ deal.upgrade_cost = SumTo([n \in DOMAIN o |-> o[n].upgrade * q[n]], N)
        /\ TotalRange(deal.score)
    BY <1>3 DEF Plan, N
  <1>9. deal.allocations[1].listing = o[1].listing /\ 1 \in 1 .. N
    <2>1. 1 \in 1 .. k /\ 1 \in 1 .. N
      BY <1>5, <1>7
    <2> QED
      BY <1>8, <2>1
  <1>10. OnScale(deal.score)
    BY <1>8 DEF OnScale, TotalRange
  <1>11. ~(deal.upgrade_cost < 0)
    <2> DEFINE upgrades == [n \in DOMAIN o |-> o[n].upgrade * q[n]]
    <2>1. ASSUME NEW n \in 1 .. N PROVE upgrades[n] \in Int /\ upgrades[n] >= 0
      <3>1. PICK i \in DOMAIN Observed : o[n] = Observed[i]
        BY <1>6
      <3>2. o[n].upgrade \in Nat
        BY <3>1, ObservedScored, UpgradeNat
      <3>3. q[n] \in Nat /\ upgrades[n] = o[n].upgrade * q[n]
        BY <1>5, <1>7
      <3>4. \A x, y \in Nat : x * y \in Nat
        OBVIOUS
      <3> HIDE DEF upgrades
      <3> QED
        BY <3>2, <3>3, <3>4
    <2>2. deal.upgrade_cost = SumTo(upgrades, N)
      BY <1>8
    <2> HIDE DEF upgrades
    <2>3. SumTo(upgrades, N) \in Nat
      BY <1>5, <2>1, SumRange
    <2> QED
      BY <2>2, <2>3
  <1>12. ~IsNode(o[1].listing.attrs)
    BY <1>9, <1>10, <1>11 DEF Refuses
  <1> QED
    BY <1>6, <1>9, <1>12, OddCandidate DEF Ready

\* With weights and costs that are not negative, which config.py does not check: whatever
\* the marketplaces answer, only a plugin that breaks the provider contract makes a search
\* fail.
THEOREM OnlyFaultyPluginsFail ==
  ASSUME NonNegative
  PROVE  ServiceSpec => []OnlyPluginsFailSearch
  <1>1. SearchInv => OnlyPluginsFailSearch
    <2> SUFFICES ASSUME SearchInv, phase = "raised" PROVE \E p \in Names : Faulty(p)
      BY DEF OnlyPluginsFailSearch
    <2>1. /\ Prepared /\ Served /\ Answers
          /\ \/ (\A p \in Names : answer[p] # Null) /\ Fails
             \/ \E p \in Names : Provider(p).kind = "plugin" /\ answer[p] = Null
      BY DEF SearchInv
    <2>2. CASE \E p \in Names : Provider(p).kind = "plugin" /\ answer[p] = Null
      BY <2>2 DEF Faulty
    <2>3. CASE (\A p \in Names : answer[p] # Null) /\ Fails
      <3>1. Answered
        BY <2>1, <2>3 DEF Answered
      <3>2. CASE Mislabelled
        BY <3>1, <3>2, OddCandidate DEF Mislabelled
      <3>3. ~OffScale
        <4>1. Usable(criteria)
          BY <2>1, OverridesUsable DEF Prepared
        <4>2. \A n \in DOMAIN Candidates : Scorable(Candidates[n])
          BY <3>1, CandidatesLists, ListingScorable
        <4>3. \A n \in DOMAIN Candidates : OnScale(score(criteria, Candidates[n]))
          BY <4>1, <4>2, ScoreRange DEF OnScale, TotalRange
        <4> QED
          BY <4>3 DEF OffScale
      <3>4. CASE ~Mislabelled
        <4>1. Ready
          BY <2>1, <3>1, <3>3, <3>4 DEF Ready
        <4>2. PICK d \in DOMAIN ClusterDeals : Refuses(ClusterDeals[d])
          BY <2>3, <3>3, <3>4 DEF Fails
        <4> QED
          BY <4>1, <4>2, RefusedDeal
      <3> QED
        BY <3>2, <3>4
    <2> QED
      BY <2>1, <2>2, <2>3
  <1> QED
    BY <1>1, SearchInvariant, PTL
=============================================================================

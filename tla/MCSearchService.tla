--------------------------- MODULE MCSearchService ---------------------------
(* The shipped search.yaml, for two nodes and without its minimum of threads, *)
(* and four sites.  Prices are dollars, speeds tenths of a Gbit/s.           *)
EXTENDS SearchService, TLC

MCConfig ==
  [max_per_unit |-> 350, preferred_max |-> 275, preferred_models |-> {"core i5-10500t"},
   desired_memory |-> 32, upgradeable_to |-> 64, desired_storage |-> 1000, nvme_preferred |-> TRUE,
   preferred_speed |-> 25,
   minimum |-> [Unknown EXCEPT !["physical_cores"] = 6, !["memory_gb"] = 16,
                               !["storage_gb"] = 256, !["ethernet_speed_gbps"] = 10,
                               !["tpm_2"] = 1, !["secure_boot"] = 1, !["virtualization"] = 1,
                               !["seller_rating_percent"] = 98, !["seller_feedback_count"] = 100],
   allowed |-> {"used", "new", "certified_refurbished"},
   excluded |-> {"motherboard only"},
   quantity_required |-> 2]

MCWeights == [price |-> 30, cpu |-> 20, memory |-> 15, storage |-> 10,
              security |-> 10, networking |-> 5, seller |-> 5, warranty |-> 5]
MCRamCost == (32 :> 45) @@ (64 :> 95)
MCNvmeCost == (1000 :> 65) @@ (2000 :> 110)

-----------------------------------------------------------------------------
(* Titles.  Two name their storage first; one machine is short of memory.    *)

Memory_(amount) == [amount |-> amount, unit |-> "GB", of |-> "memory"]
Storage_(amount, unit) == [amount |-> amount, unit |-> unit, of |-> "storage"]
Title(sizes, cpu, nvme) == [sizes |-> sizes, cpu |-> cpu, nvme |-> nvme]

MCTitles ==
  ("optiplex 16/512" :> Title(<<Memory_(16), Storage_(512, "GB")>>, "core i5-10500t", FALSE)) @@
  ("optiplex 512/16" :> Title(<<Storage_(512, "GB"), Memory_(16)>>, "core i5-10500t", FALSE)) @@
  ("optiplex nvme 1tb/32" :> Title(<<Storage_(1, "TB"), Memory_(32)>>, "core i5-10500t", TRUE)) @@
  ("mini pc" :> Title(<<>>, Null, FALSE)) @@
  ("optiplex 8/256" :> Title(<<Memory_(8), Storage_(256, "GB")>>, "core i5-10500t", FALSE)) @@
  ("motherboard only" :> Title(<<>>, "core i5-10500t", FALSE))

MCPhrases == ("Used" :> {"used"}) @@ ("Like New" :> {"new"}) @@ ("For parts" :> {}) @@
             ("Certified - Refurbished" :> {"certified"}) @@ (Null :> {})

\* Enrichment knows the OptiPlex and one CPU; the other titles tell nothing.
MCMachineFacts ==
  [t \in DOMAIN MCTitles |->
     IF t \in {"mini pc", "motherboard only"} THEN Null
     ELSE [maker |-> "Dell",
           attrs |-> [Unknown EXCEPT !["max_memory_gb"] = 64, !["tpm_2"] = 1, !["secure_boot"] = 1]]]
MCCpuFacts ==
  ("core i5-10500t" :> [attrs |-> [Unknown EXCEPT !["physical_cores"] = 6, !["threads"] = 12,
                                                  !["virtualization"] = 1],
                        features |-> {"Intel_vPro", "Intel_AMT"}]) @@
  (Null :> Null)

-----------------------------------------------------------------------------
(* Sites and plugins.                                                        *)

Site(name, provider, enabled, trust, max) ==
  [name |-> name, provider |-> provider, enabled |-> enabled, trust |-> trust, max_listings |-> max]

MCSites == << Site("ebay", Null, TRUE, 100, 50),
              Site("catalog", "generic", TRUE, 90, 2),
              Site("amazon", Null, FALSE, 90, 50),
              Site("shop", Null, FALSE, 100, 50) >>

MCBuiltIn == [name \in {"ebay", "generic", "amazon"} |-> IF name = "amazon" THEN "restricted" ELSE name]

Plugin(name, loads) == [name |-> name, loads |-> loads]
NoPlugins == {<<>>}
MCPlugins == {<<>>, <<Plugin("ebay", TRUE), Plugin("shop", TRUE)>>, <<Plugin("shop", FALSE)>>}
ShopPlugin == {<<Plugin("shop", TRUE)>>}

Options(provider, max_price, quantity, cpu) ==
  [provider |-> provider, max_price |-> max_price, quantity |-> quantity, cpu |-> cpu]

Plain == Options({}, Null, Null, Null)
PlainOnly == {Plain}
ShopOnly == {Options({"ebay", "shop"}, Null, Null, Null)}

\* All options; two sites that are not enabled; a site and a number that are refused.
MCInvocations == {Plain, Options({"ebay"}, 310, 3, "ryzen 5 pro 5650ge"),
                  Options({"amazon", "ebay", "shop"}, Null, Null, Null),
                  Options({"catalog"}, 0, Null, Null),
                  Options({"newegg"}, Null, Null, Null), Options({}, Null, 0, Null)}

-----------------------------------------------------------------------------
(* What the marketplaces answer.                                             *)

Payload(id, title, condition, seller, price, quantity) ==
  [id |-> id, title |-> title, maker |-> Null, condition |-> condition, seller |-> seller,
   price |-> price, shipping |-> 10, quantity |-> quantity, rating |-> 99, feedback |-> 500, cover |-> 0]

cheap    == Payload(1, "optiplex 16/512", "Used", "x", 250, 1)
plenty   == Payload(2, "optiplex 16/512", "Used", "y", 300, 2)
vague    == [Payload(3, "mini pc", Null, Null, 200, Null) EXCEPT !.rating = Null, !.feedback = Null]
small    == Payload(4, "optiplex 8/256", "Used", "x", 180, 5)
mirrored == [Payload(1, "optiplex 16/512", "Used", "x", 260, 3) EXCEPT !.shipping = 0]
single   == Payload(2, "optiplex 512/16", "Used", "z", 270, 1)
soldOut  == Payload(3, "optiplex nvme 1tb/32", "Like New", "z", 320, 0)
covered  == [Payload(4, "optiplex nvme 1tb/32", "Certified - Refurbished", "z", 320, 2)
               EXCEPT !.maker = "Dell", !.cover = 2]
unpriced == [cheap EXCEPT !.shipping = Null]
free     == [cheap EXCEPT !.id = 7, !.shipping = Null, !.seller = "v"]
overrated == [cheap EXCEPT !.rating = 101]
board    == Payload(6, "motherboard only", "Used", "x", 60, 5)

\* A plugin's own listings, with attributes that no title tells; a copy of one, by another
\* seller and with more known of it, which shares its raw_attributes; one above every
\* preference; one of no threads; and one that it labels with another name.
fast == [normalize_listing("shop", plenty, <<"shop", 7>>) EXCEPT
           !.id = 7, !.maker = "Dell", !.attrs["ethernet_speed_gbps"] = 25, !.attrs["tpm_2"] = 0,
           !.provenance = {[field |-> "tpm_2", source |-> "listing"]}]
fair == [fast EXCEPT !.id = 8, !.title = "mini pc", !.attrs["tpm_2"] = 1, !.attrs["threads"] = 16,
                     !.price = 345, !.raw = <<"shop", 8>>]
roomy == [fair EXCEPT !.id = 9, !.seller = "w", !.attrs["max_memory_gb"] = 128,
                      !.attrs["secure_boot"] = 1]
large == [fair EXCEPT !.id = 10, !.raw = <<"shop", 10>>, !.cpu = Null, !.attrs["physical_cores"] = 12, !.price = 275,
                      !.attrs["storage_gb"] = 2000, !.attrs["ethernet_speed_gbps"] = 100]
hollow == [large EXCEPT !.id = 11, !.raw = <<"shop", 11>>, !.attrs["threads"] = 0]
foreign == [fast EXCEPT !.provider = "dell", !.attrs["tpm_2"] = 1]

\* The same offer with the maker stated; one in a refused condition that looks like a
\* good one.
stated  == [cheap EXCEPT !.maker = "Dell"]
wornOut == Payload(5, "optiplex 16/512", "For parts", "z", 270, 1)

Reply(items) == [status |-> "response", items |-> items]
Refusal(status) == [status |-> status, items |-> <<>>]
NoList == Reply(Null)

\* Up to n of the payloads, in any order.
Some(pool, n) ==
  {Reply(s) : s \in UNION {{s \in [1 .. k -> pool] : \A i, j \in 1 .. k : s[i] = s[j] => i = j} :
                             k \in 0 .. n}}

MCResponses ==
  [name \in {"ebay", "catalog", "amazon", "shop"} |->
     CASE name = "ebay" -> Some({cheap, plenty, vague, small, board}, 3)
                             \cup {Reply(<<cheap, overrated>>), Reply(<<free, cheap>>),
                                   Refusal("rate_limited"), Refusal("unavailable")}
       [] name = "catalog" -> Some({mirrored, single, soldOut, covered}, 2)
                             \cup {Reply(<<covered, soldOut, unpriced>>), Reply(<<unpriced>>),
                                   Reply(<<overrated>>), Refusal("error")}
       [] name = "amazon" -> {Refusal("unsupported")}
       [] name = "shop" -> Some({fast, fair, roomy, large}, 2)
                             \cup {Reply(<<hollow>>), Reply(<<foreign>>), NoList, Refusal("error")}]

Only(ebay, catalog, shop) ==
  [name \in {"ebay", "catalog", "amazon", "shop"} |-> CASE name = "ebay" -> ebay
                                                        [] name = "catalog" -> catalog
                                                        [] name = "amazon" -> {Refusal("unsupported")}
                                                        [] name = "shop" -> shop]
StatedResponses  == Only(Some({cheap}, 1), Some({stated}, 1), {})
WornResponses    == Only(Some({wornOut, plenty}, 2), Some({single}, 1), {})
ForeignResponses == Only(Some({cheap}, 1), {}, Some({foreign}, 1))
==============================================================================

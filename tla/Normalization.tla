---------------------------- MODULE Normalization ----------------------------
(***************************************************************************)
(* normalization.py: from an adapter's canonical payload to a listing.  What *)
(* the regular expressions find in a title is a constant: Titles[title] has  *)
(* the capacities it mentions, in their order, the CPU, and whether it says  *)
(* NVMe.  Phrases[condition] is the set of known tokens that it contains.    *)
(***************************************************************************)
EXTENDS HardwareListing

CONSTANTS Titles, Phrases

ASSUME TitlesAssumption ==
  \A t \in DOMAIN Titles :
    /\ IsList(Titles[t].sizes)
    /\ \A n \in DOMAIN Titles[t].sizes : Titles[t].sizes[n].amount \in Nat
    /\ Titles[t].nvme \in BOOLEAN

PayloadFields == {"id", "title", "maker", "condition", "seller", "price", "shipping", "quantity",
                  "rating", "feedback", "cover"}

\* What a canonical payload may hold, before it is validated.
IsPayload(payload) ==
  /\ payload = [f \in PayloadFields |-> payload[f]]
  /\ payload.title \in DOMAIN Titles
  /\ {payload.price, payload.shipping, payload.quantity, payload.rating, payload.feedback}
       \subseteq Int \cup {Null}
  /\ payload.cover \in 0 .. 2

-----------------------------------------------------------------------------

MemorySizes  == {4, 8, 16, 24, 32, 64, 128}
StorageSizes == {128, 256, 500, 512, 1000, 1024, 2000, 2048, 1, 2, 4}

\* Defect: any number of gigabytes is taken for memory.
FirstSize(sizes) ==
  LET hits == Filtered(sizes, {n \in DOMAIN sizes : sizes[n].unit = "GB"})
  IN  IF hits = <<>> THEN Null ELSE hits[1].amount

\* _MEMORY.search: the first match; the word RAM is optional.
Memory(sizes) ==
  LET hits == Filtered(sizes, {n \in DOMAIN sizes : /\ sizes[n].unit = "GB"
                                                    /\ sizes[n].amount \in MemorySizes})
  IN  IF hits = <<>> THEN Null ELSE hits[1].amount

\* _STORAGE.finditer: the last match, terabytes as thousands of gigabytes.
Storage(sizes) ==
  LET hits == Filtered(sizes, {n \in DOMAIN sizes : sizes[n].amount \in StorageSizes})
      last == hits[Len(hits)]
  IN  IF hits = <<>> THEN Null ELSE IF last.unit = "TB" THEN 1000 * last.amount ELSE last.amount

Conditions == << <<"manufacturer", "manufacturer_refurbished">>,
                 <<"certified", "certified_refurbished">>,
                 <<"seller refurbished", "certified_refurbished">>,
                 <<"excellent", "excellent_refurbished">>,
                 <<"new", "new">>,
                 <<"used", "used">> >>

\* The first token that the condition contains decides; without one it stays as it is.
normalize_condition(text) ==
  LET hits == {i \in DOMAIN Conditions : Conditions[i][1] \in Phrases[text]}
  IN  IF text = Null THEN Null
      ELSE IF hits = {} THEN text
      ELSE Conditions[CHOOSE i \in hits : \A j \in hits : i <= j][2]

\* A mapped price that is missing or no number: decimal.InvalidOperation (for eBay a
\* KeyError).  A feed whose mapping leaves the price out is an incompatible response.
Unreadable(payload) == Null \in {payload.price, payload.shipping}

AttributesOf(payload) ==
  [Unknown EXCEPT !["memory_gb"] = Memory(Titles[payload.title].sizes),
                  !["storage_gb"] = Storage(Titles[payload.title].sizes),
                  !["seller_rating_percent"] = payload.rating,
                  !["seller_feedback_count"] = payload.feedback]

\* pydantic's ValidationError, a ValueError.
Invalid(payload) ==
  ~Valid(payload.price, payload.shipping, AttributesOf(payload), payload.quantity)

\* raw_attributes is a dictionary of its own.
normalize_listing(provider, payload, raw) ==
  [provider   |-> provider,
   id         |-> payload.id,
   title      |-> payload.title,
   maker      |-> payload.maker,
   cpu        |-> Titles[payload.title].cpu,
   attrs      |-> AttributesOf(payload),
   nvme       |-> Titles[payload.title].nvme,
   features   |-> {},
   condition  |-> normalize_condition(payload.condition),
   price      |-> payload.price + payload.shipping,
   stock      |-> payload.quantity,
   seller     |-> payload.seller,
   cover      |-> payload.cover,
   provenance |-> {},
   raw        |-> raw]
==============================================================================

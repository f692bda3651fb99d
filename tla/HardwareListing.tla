--------------------------- MODULE HardwareListing ---------------------------
(***************************************************************************)
(* models.py: the listing that every provider returns and every step of the *)
(* pipeline reads.  A listing is a record                                   *)
(*                                                                         *)
(* [provider, id, title, maker, cpu, attrs, nvme, features, condition,      *)
(*  price, stock, seller, cover, provenance, raw]                           *)
(*                                                                         *)
(* maker      manufacturer and model together                              *)
(* attrs      the typed attributes; booleans are 0 and 1, speeds are tenths *)
(*            of a Gbit/s                                                   *)
(* nvme       storage_type is "NVMe"                                        *)
(* features   enterprise_features                                           *)
(* price      item price and shipping                                       *)
(* cover      how many of warranty and return policy it states              *)
(* provenance attribute_provenance: a set of [field, source]                *)
(* raw        which dictionary raw_attributes is; copies share it           *)
(*                                                                         *)
(* Names are normalized ones; Null is None, "unknown".                      *)
(***************************************************************************)
EXTENDS Lists

CONSTANT Null

Security == {"tpm_2", "secure_boot", "virtualization"}

Attributes ==
  Security \cup {"physical_cores", "threads", "memory_gb", "max_memory_gb", "storage_gb",
                 "ethernet_speed_gbps", "seller_rating_percent", "seller_feedback_count"}

Unknown == [a \in Attributes |-> Null]

Fields == {"provider", "id", "title", "maker", "cpu", "attrs", "nvme", "features", "condition",
           "price", "stock", "seller", "cover", "provenance", "raw"}

\* What attributes may say: of the numbers, only the seller's are checked.
IsAttributes(attrs) ==
  /\ attrs \in [Attributes -> Int \cup {Null}]
  /\ \A a \in Security : attrs[a] \in {0, 1, Null}
  /\ attrs["seller_rating_percent"] \in (0 .. 100) \cup {Null}
  /\ attrs["seller_feedback_count"] \in Nat \cup {Null}

PerNode == {"physical_cores", "threads", "memory_gb"}

\* What a node of a cluster plan must not lack; nobody but ClusterDeal checks it.
IsNode(attrs) == \A a \in PerNode : attrs[a] # Null => attrs[a] > 0

\* What building a HardwareListing leaves possible.
IsListing(l) ==
  /\ l = [f \in Fields |-> l[f]]
  /\ IsAttributes(l.attrs)
  /\ l.nvme \in BOOLEAN
  /\ l.price \in Nat
  /\ l.stock \in Nat \cup {Null}
  /\ l.cover \in 0 .. 2

\* The constraints that building a HardwareListing checks.
Valid(price, shipping, attrs, stock) ==
  /\ price >= 0 /\ shipping >= 0
  /\ attrs["seller_rating_percent"] \in (0 .. 100) \cup {Null}
  /\ attrs["seller_feedback_count"] \in Nat \cup {Null}
  /\ stock \in Nat \cup {Null}
==============================================================================

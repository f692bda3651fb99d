-------------------------- MODULE MCProviderSearch --------------------------
(* Both kinds of provider, searched up to twice.  Retry-After may ask for no*)
(* wait, for less or for more than the cap allows.                         *)
EXTENDS ProviderSearch

MCRetryAfters == {-5, 0, 9}
=============================================================================

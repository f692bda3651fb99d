--------------------------- MODULE MCResilientHttp ---------------------------
(* Two coroutines on one client.  A unit of time is a second; Retry-After may*)
(* ask for no wait, for less or for more than the cap allows.              *)
EXTENDS ResilientHttp

MCRetryAfters == {-5, 0, 9}
==============================================================================

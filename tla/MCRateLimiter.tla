--------------------------- MODULE MCRateLimiter ---------------------------
(* RateLimiter on small instances; the configurations give the constants.  *)
EXTENDS RateLimiter, TLC

Symmetry == Permutations(Clients)
=============================================================================

----------------------------- MODULE MCRateLimit -----------------------------
(***************************************************************************)
(* Instances of RateLimit: calls of two tenants around a few windows, a    *)
(* tick of half a second.                                                  *)
(***************************************************************************)
EXTENDS RateLimit, TLC

CONSTANTS c1, c2, c3, g1, g2, o1, o2

Symmetric == Permutations(Calls)
=============================================================================

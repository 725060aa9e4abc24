---------------------------- MODULE MCRateLimiter ----------------------------
(* The model checker's instances of RateLimiter.                            *)
EXTENDS RateLimiter, TLC

Symmetry == Permutations(Callers)
=============================================================================

----------------------------- MODULE MCRateLimiter -----------------------------
(***************************************************************************)
(* RateLimiter for TLC: the requests are interchangeable model values.     *)
(***************************************************************************)
EXTENDS RateLimiter, TLC

RequestSymmetry == Permutations(Requests)
=============================================================================

--------------------------- MODULE MCBreakerClients ---------------------------
(***************************************************************************)
(* BreakerClients for TLC: the calls are interchangeable model values.     *)
(***************************************************************************)
EXTENDS BreakerClients, TLC

CallSymmetry == Permutations(Calls)
=============================================================================

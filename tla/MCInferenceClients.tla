--------------------------- MODULE MCInferenceClients ---------------------------
(***************************************************************************)
(* InferenceClients for TLC: requests, and keys, are interchangeable model *)
(* values.                                                                 *)
(***************************************************************************)
EXTENDS InferenceClients, TLC

Symmetry == Permutations(Calls) \cup Permutations(Keys)
=============================================================================

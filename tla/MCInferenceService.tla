-------------------------- MODULE MCInferenceService --------------------------
(***************************************************************************)
(* InferenceService for TLC: requests, and keys, are interchangeable model *)
(* values.                                                                 *)
(***************************************************************************)
EXTENDS InferenceService, TLC

Symmetry == Permutations(Calls) \cup Permutations(Keys)
=============================================================================

-------------------------------- MODULE MCDemo --------------------------------
(***************************************************************************)
(* Demo for TLC.                                                           *)
(***************************************************************************)
EXTENDS Demo
=============================================================================

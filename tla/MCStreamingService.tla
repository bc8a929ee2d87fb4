-------------------------- MODULE MCStreamingService --------------------------
(***************************************************************************)
(* StreamingService for TLC.                                               *)
(***************************************************************************)
EXTENDS StreamingService, TLC
=============================================================================

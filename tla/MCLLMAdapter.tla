----------------------------- MODULE MCLLMAdapter -----------------------------
(***************************************************************************)
(* LLMAdapter for TLC.                                                     *)
(***************************************************************************)
EXTENDS LLMAdapter, TLC

\* No config, and one that has a field of its own and tries to set the adapter's.
MCConfigs == {None, [k \in ReservedKeys \cup {"temperature"} |-> [type |-> "theirs"]]}
=============================================================================

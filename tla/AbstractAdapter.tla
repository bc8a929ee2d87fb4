--------------------------- MODULE AbstractAdapter ---------------------------
(***************************************************************************)
(* What the services may expect of BaseLLMAdapter.stream, and of infer,    *)
(* which yields nothing: the adapter works, yields chunks one by one, and  *)
(* ends in one of five ways, without a connection to the provider then.    *)
(* It works only when asked to go on.  Dropped at a yield it keeps its     *)
(* connection until it is finalized.                                       *)
(***************************************************************************)
EXTENDS Naturals

CONSTANT Calls  \* calls of the adapter

VARIABLES
    gen,       \* where the generator stands
    yielded,   \* how many chunks it has yielded
    connected  \* the calls that hold a connection

adapterVars == <<gen, yielded, connected>>

Ends == {"exhausted", "timeout", "upstream_error", "error", "abandoned"}

AdapterInit ==
    /\ gen = [c \in Calls |-> "created"]
    /\ yielded = [c \in Calls |-> 0]
    /\ connected = {}

Become(c, from, to) == gen[c] = from /\ gen' = [gen EXCEPT ![c] = to]

\* Nothing is held before the first chunk is asked for.
Start(c) ==
    /\ Become(c, "created", "running")
    /\ connected' \in {connected, connected \cup {c}}
    /\ UNCHANGED yielded

Work(c) ==
    /\ gen[c] = "running"
    /\ connected' \in {connected \cup {c}, connected \ {c}}
    /\ UNCHANGED <<gen, yielded>>

Yield(c) ==
    /\ Become(c, "running", "suspended")
    /\ yielded' = [yielded EXCEPT ![c] = @ + 1]
    /\ UNCHANGED connected

Resume(c) ==
    /\ Become(c, "suspended", "running")
    /\ UNCHANGED <<yielded, connected>>

\* The consumer is gone; nobody has told the generator.
Drop(c) ==
    /\ Become(c, "suspended", "dropped")
    /\ UNCHANGED <<yielded, connected>>

\* It may end before it is ever suspended.
End(c) ==
    /\ \/ \E from \in {"created", "running"}, how \in Ends : Become(c, from, how)
       \/ Become(c, "dropped", "abandoned")
    /\ connected' = connected \ {c}
    /\ UNCHANGED yielded

\* The adapter is closed, when nobody uses it any more.
Shutdown ==
    /\ \A c \in Calls : gen[c] \notin {"running", "suspended"}
    /\ connected' = {}
    /\ UNCHANGED <<gen, yielded>>

AdapterNext ==
    \/ \E c \in Calls : Start(c) \/ Work(c) \/ Yield(c) \/ Resume(c) \/ Drop(c) \/ End(c)
    \/ Shutdown

Spec == AdapterInit /\ [][AdapterNext]_adapterVars
=============================================================================

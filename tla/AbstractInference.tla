--------------------------- MODULE AbstractInference ---------------------------
(***************************************************************************)
(* What POST /v1/infer promises about its answers, with no cache, lock,    *)
(* breaker or clock in it:                                                 *)
(*                                                                         *)
(*   a request ends once, and its end never changes; it costs at most one  *)
(*   adapter call; an answer is what an adapter call for the same key      *)
(*   returned, and the request's own call if that returned anything; a     *)
(*   request whose call returned an answer is not refused and does not     *)
(*   fail, whatever becomes of the cache and the lock afterwards.          *)
(*                                                                         *)
(* InferenceService implements it (property RefinesAbstractInference).     *)
(***************************************************************************)
CONSTANTS Requests, Keys, None

VARIABLES
    end,     \* how each request ended, if it did
    key,     \* what it asked for
    paid,    \* the requests whose adapter call has returned an answer
    source   \* the request whose call's answer it was given

abstractVars == <<end, key, paid, source>>

Init ==
    /\ end = [r \in Requests |-> "new"]
    /\ key = [r \in Requests |-> None]
    /\ paid = {}
    /\ source = [r \in Requests |-> None]

Ask(r, k) ==
    /\ end[r] = "new"
    /\ end' = [end EXCEPT ![r] = "pending"]
    /\ key' = [key EXCEPT ![r] = k]
    /\ UNCHANGED <<paid, source>>

Pay(r) ==
    /\ end[r] = "pending"
    /\ r \notin paid
    /\ paid' = paid \cup {r}
    /\ UNCHANGED <<end, key, source>>

Answer(r, s) ==
    /\ end[r] = "pending"
    /\ s \in paid
    /\ key[s] = key[r]
    /\ r \in paid => s = r
    /\ end' = [end EXCEPT ![r] = "answered"]
    /\ source' = [source EXCEPT ![r] = s]
    /\ UNCHANGED <<key, paid>>

Decline(r, how) ==
    /\ end[r] = "pending"
    /\ r \notin paid
    /\ end' = [end EXCEPT ![r] = how]
    /\ UNCHANGED <<key, paid, source>>

\* The process dies with every request it had.
Lose ==
    /\ end' = [r \in Requests |-> IF end[r] = "pending" THEN "lost" ELSE end[r]]
    /\ UNCHANGED <<key, paid, source>>

Next ==
    \/ \E r \in Requests :
        \/ \E k \in Keys : Ask(r, k)
        \/ Pay(r)
        \/ \E s \in Requests : Answer(r, s)
        \/ \E how \in {"refused", "failed"} : Decline(r, how)
    \/ Lose

Spec == Init /\ [][Next]_abstractVars
=============================================================================

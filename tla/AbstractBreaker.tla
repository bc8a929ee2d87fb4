---------------------------- MODULE AbstractBreaker ----------------------------
(***************************************************************************)
(* What the circuit breaker promises its callers, without the three-state  *)
(* machine, the pruned list or the lazy move to half-open that             *)
(* app/core/circuit_breaker.py uses to keep the promise:                   *)
(*                                                                         *)
(*   FailureThreshold failures inside one Window block every new call for  *)
(*   the next RecoveryTimeout ticks; each further failure that finds the   *)
(*   threshold still reached starts that time again; a success while calls *)
(*   are blocked forgives nothing.  A restart of the process does.         *)
(*                                                                         *)
(* BreakerClients implements it (property RefinesAbstractBreaker).         *)
(***************************************************************************)
EXTENDS Integers, FiniteSets

CONSTANTS Calls, FailureThreshold, RecoveryTimeout, Window, MaxTime, None

VARIABLES
    now,   \* the clock
    call,  \* what became of each call
    log,   \* every failure since the last recovery, none of them dropped
    trip   \* when the threshold was last found reached, None after a recovery

abstractVars == <<now, call, log, trip>>

Blocked == trip # None /\ now < trip + RecoveryTimeout

Recent(fs) == {f \in fs : now - f.at <= Window}

Init ==
    /\ now = 0
    /\ call = [c \in Calls |-> "new"]
    /\ log = {}
    /\ trip = None

Admit(c) ==
    /\ call[c] = "new"
    /\ ~Blocked
    /\ call' = [call EXCEPT ![c] = "inflight"]
    /\ UNCHANGED <<now, log, trip>>

Reject(c) ==
    /\ call[c] = "new"
    /\ Blocked
    /\ call' = [call EXCEPT ![c] = "rejected"]
    /\ UNCHANGED <<now, log, trip>>

Fail(c) ==
    /\ call[c] = "inflight"
    /\ call' = [call EXCEPT ![c] = "ended"]
    /\ log' = log \cup {[call |-> c, at |-> now]}
    /\ trip' = IF Cardinality(Recent(log')) >= FailureThreshold THEN now ELSE trip
    /\ UNCHANGED now

\* A success, or an end nobody reports.
End(c) ==
    /\ call[c] \in {"new", "inflight"}
    /\ call' = [call EXCEPT ![c] = "ended"]
    /\ UNCHANGED <<now, log, trip>>

\* A success that is taken for the recovery of the provider.
Recover(c) ==
    /\ call[c] = "inflight"
    /\ trip # None
    /\ ~Blocked
    /\ call' = [call EXCEPT ![c] = "ended"]
    /\ log' = {}
    /\ trip' = None
    /\ UNCHANGED now

Restart ==
    /\ log' = {}
    /\ trip' = None
    /\ \E lost \in SUBSET {c \in Calls : call[c] = "new"} :
        call' = [c \in Calls |-> IF call[c] = "inflight" \/ c \in lost THEN "ended" ELSE call[c]]
    /\ UNCHANGED now

Tick ==
    /\ now < MaxTime
    /\ now' = now + 1
    /\ UNCHANGED <<call, log, trip>>

Next ==
    \/ \E c \in Calls : Admit(c) \/ Reject(c) \/ Fail(c) \/ End(c) \/ Recover(c)
    \/ Restart
    \/ Tick

Spec == Init /\ [][Next]_abstractVars
=============================================================================

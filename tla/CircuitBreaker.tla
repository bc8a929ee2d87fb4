---------------------------- MODULE CircuitBreaker ----------------------------
(***************************************************************************)
(* The in-process circuit breaker of app/core/circuit_breaker.py: its      *)
(* fields and the operations is_open, get_retry_after, record_failure and  *)
(* record_success.  The module has no behaviour of its own: the modules    *)
(* that EXTEND it (BreakerClients, InferenceService) say who calls which   *)
(* operation and when.                                                     *)
(*                                                                         *)
(* Every operation is one step.  Each holds the asyncio.Lock over a body   *)
(* with no await in it, so no other coroutine runs between its first and   *)
(* its last line and the lock is never contended.                          *)
(*                                                                         *)
(* Time is counted in ticks; TicksPerSecond says how many make a second,   *)
(* because int() in the services cuts a duration down to whole seconds.    *)
(***************************************************************************)
EXTENDS Integers, FiniteSets

CONSTANTS
    Calls,             \* adapter calls; each reports its outcome at most once
    FailureThreshold,  \* failure_threshold: failures that open the circuit
    RecoveryTimeout,   \* recovery_timeout: ticks an open circuit stays open
    Window,            \* window: ticks a failure keeps counting
    TicksPerSecond,    \* ticks in a second
    MaxTime,           \* bound on the clock
    None               \* Python's None

ASSUME BreakerAssumption ==
    /\ FailureThreshold \in Nat \ {0}
    /\ RecoveryTimeout \in Nat
    /\ Window \in Nat
    /\ TicksPerSecond \in Nat \ {0}
    /\ MaxTime \in Nat
    /\ None \notin Nat

VARIABLES
    now,       \* time.monotonic()
    state,     \* self._state
    failures,  \* self._failures
    openedAt   \* self._opened_at

breakerVars == <<state, failures, openedAt>>

Closed   == "closed"
Open     == "open"
HalfOpen == "half-open"
State    == {Closed, Open, HalfOpen}

\* An entry of self._failures.  The list only ever has its length taken, so it
\* is the set of its entries, told apart by the call that reported them.
Failure == [call : Calls, at : Nat]

BreakerTypeOK ==
    /\ now \in Nat
    /\ state \in State
    /\ failures \subseteq Failure
    /\ IsFiniteSet(failures)
    /\ openedAt \in Nat \cup {None}

BreakerInit ==
    /\ state = Closed
    /\ failures = {}
    /\ openedAt = None

-----------------------------------------------------------------------------
(* Mutated forms: slips one could make in this code.  Not part of the model. *)

RetryAfterElapsed == IF openedAt = None THEN 0 ELSE now - openedAt
InWindowAll(fs) == fs
RecordFailureKeepsOpenedAt(c) ==
    LET kept == {f \in failures \cup {[call |-> c, at |-> now]} : now - f.at <= Window}
    IN  /\ failures' = kept
        /\ state' = IF Cardinality(kept) >= FailureThreshold THEN Open ELSE state
        /\ openedAt' = IF state # Open /\ state' = Open THEN now ELSE openedAt
IsOpenMisspelt ==
    /\ state' = IF state = Open /\ now - openedAt >= RecoveryTimeout THEN "half_open" ELSE state
    /\ UNCHANGED <<failures, openedAt>>

-----------------------------------------------------------------------------
(* The operations.                                                          *)

\* The answer of is_open(): the circuit is open and its recovery timeout has
\* not passed.
StillOpen == state = Open /\ openedAt # None /\ now - openedAt < RecoveryTimeout

RecoveryDue == state = Open /\ openedAt # None /\ now - openedAt >= RecoveryTimeout

\* is_open(): asking is what moves an open circuit to half-open.
IsOpen ==
    /\ state' = IF RecoveryDue THEN HalfOpen ELSE state
    /\ UNCHANGED <<failures, openedAt>>

\* get_retry_after(), in ticks.
RetryAfter ==
    IF openedAt = None \/ now - openedAt >= RecoveryTimeout
    THEN 0
    ELSE RecoveryTimeout - (now - openedAt)

\* The failures that the sliding window keeps.
InWindow(fs) == {f \in fs : now - f.at <= Window}

\* record_failure(): whatever the state, reaching the threshold (re)opens the
\* circuit and restarts its recovery timeout.
RecordFailure(c) ==
    LET kept == InWindow(failures \cup {[call |-> c, at |-> now]})
    IN  /\ failures' = kept
        /\ IF Cardinality(kept) >= FailureThreshold
           THEN state' = Open /\ openedAt' = now
           ELSE UNCHANGED <<state, openedAt>>

\* record_success(): only a half-open circuit takes notice.
RecordSuccess ==
    IF state = HalfOpen
    THEN state' = Closed /\ failures' = {} /\ openedAt' = None
    ELSE UNCHANGED breakerVars

-----------------------------------------------------------------------------
(* What the fields say about each other, whoever the callers are.           *)

\* A closed circuit has no opening time and fewer failures than the threshold.
ClosedIsBelowThreshold ==
    state = Closed => openedAt = None /\ Cardinality(failures) < FailureThreshold

\* A half-open circuit has sat out its recovery timeout.
HalfOpenHasWaited ==
    state = HalfOpen => openedAt # None /\ now - openedAt >= RecoveryTimeout

\* The coherence of the four fields, which the abstract breaker relies on.
BreakerCoherent ==
    /\ openedAt # None => openedAt <= now
    /\ \A f \in failures : f.at <= now
    /\ ClosedIsBelowThreshold
    /\ state = Open => openedAt # None
    /\ HalfOpenHasWaited
=============================================================================

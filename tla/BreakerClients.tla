---------------------------- MODULE BreakerClients ----------------------------
(***************************************************************************)
(* The circuit breaker with everything that calls it, in any order:        *)
(*                                                                         *)
(*   - InferenceService.infer and StreamingService.stream ask is_open()    *)
(*     before they start an adapter call and answer a refused request with *)
(*     the retry time cut down to whole seconds;                           *)
(*   - they report the call's outcome with record_success() or             *)
(*     record_failure(), whenever it comes: calls overlap, so the outcome  *)
(*     may reach a breaker that has changed state since;                   *)
(*   - a stream whose client goes away ends without reporting, and so does *)
(*     a request that is answered from the cache, before it asks or after; *)
(*   - GET /health asks is_open() too, for its effect;                     *)
(*   - when the process dies its calls die with it, and the next process   *)
(*     has a breaker of its own.                                           *)
(*                                                                         *)
(* A call is used once; a client that tries again makes another call.      *)
(***************************************************************************)
EXTENDS CircuitBreaker

VARIABLES
    call,  \* what became of each call
    told,  \* what each refused call was answered, and when
    log    \* history variable: every failure since the circuit last closed

clientVars == <<call, told>>
vars == <<now, breakerVars, clientVars, log>>

CallState == {"new", "inflight", "rejected", "ended"}

\* The answer to a refused call: retry_after_s, with the time and the opening
\* time it was computed from.
Answer == [at : Nat, retry : Nat, openedAt : Nat]

TypeOK ==
    /\ BreakerTypeOK
    /\ call \in [Calls -> CallState]
    /\ told \in [Calls -> Answer \cup {None}]
    /\ log \subseteq Failure
    /\ IsFiniteSet(log)

Init ==
    /\ now = 0
    /\ BreakerInit
    /\ call = [c \in Calls |-> "new"]
    /\ told = [c \in Calls |-> None]
    /\ log = {}

-----------------------------------------------------------------------------
(* Mutated forms: slips one could make in this code.  Not part of the model. *)

RetryAfterSpent == RetryAfterElapsed \div TicksPerSecond

-----------------------------------------------------------------------------
(* The callers.                                                             *)

\* int(self._cb.get_retry_after()): whole seconds, the rest cut off.
RetryAfterSeconds == RetryAfter \div TicksPerSecond

\* The circuit lets the call through.
Admit(c) ==
    /\ call[c] = "new"
    /\ ~StillOpen
    /\ IsOpen
    /\ call' = [call EXCEPT ![c] = "inflight"]
    /\ UNCHANGED <<now, told, log>>

\* CircuitOpenError, or the stream's "service unavailable" event.
Reject(c) ==
    /\ call[c] = "new"
    /\ StillOpen
    /\ IsOpen
    /\ call' = [call EXCEPT ![c] = "rejected"]
    /\ told' = [told EXCEPT ![c] =
                  [at |-> now, retry |-> RetryAfterSeconds, openedAt |-> openedAt]]
    /\ UNCHANGED <<now, log>>

\* The adapter raised TimeoutError, UpstreamProviderError or anything else.
Fail(c) ==
    /\ call[c] = "inflight"
    /\ RecordFailure(c)
    /\ call' = [call EXCEPT ![c] = "ended"]
    /\ log' = log \cup {[call |-> c, at |-> now]}
    /\ UNCHANGED <<now, told>>

Succeed(c) ==
    /\ call[c] = "inflight"
    /\ RecordSuccess
    /\ call' = [call EXCEPT ![c] = "ended"]
    /\ log' = IF state' = Closed /\ state # Closed THEN {} ELSE log
    /\ UNCHANGED <<now, told>>

\* A stream that its client left or that was cancelled reports nothing, nor does
\* a request that finds its answer in the cache.
Abandon(c) ==
    /\ call[c] \in {"new", "inflight"}
    /\ call' = [call EXCEPT ![c] = "ended"]
    /\ UNCHANGED <<now, breakerVars, told, log>>

\* GET /health awaits is_open() before it reads the state it reports.
Health ==
    /\ IsOpen
    /\ UNCHANGED <<now, clientVars, log>>

\* The process dies, and with it every call in hand, admitted or not.
Restart ==
    /\ state' = Closed /\ failures' = {} /\ openedAt' = None
    /\ log' = {}
    /\ \E lost \in SUBSET {c \in Calls : call[c] = "new"} :
        call' = [c \in Calls |-> IF call[c] = "inflight" \/ c \in lost THEN "ended" ELSE call[c]]
    /\ UNCHANGED <<now, told>>

Tick ==
    /\ now < MaxTime
    /\ now' = now + 1
    /\ UNCHANGED <<breakerVars, clientVars, log>>

Next ==
    \/ \E c \in Calls : Admit(c) \/ Reject(c) \/ Fail(c) \/ Succeed(c) \/ Abandon(c)
    \/ Health
    \/ Restart
    \/ Tick

Spec == Init /\ [][Next]_vars

-----------------------------------------------------------------------------
(* Properties.                                                              *)

\* Dropping old failures from the list loses nothing: at any later moment the
\* window holds the same failures whether it is taken over the pruned list of
\* record_failure or over every failure since the circuit last closed.
PruningLosesNothing ==
    /\ failures \subseteq log
    /\ \A f \in log : now - f.at <= Window => f \in failures

\* The circuit is never open or half-open without cause: FailureThreshold
\* failures, the newest of them at the opening time, fell inside one window.
OpeningIsJustified ==
    state # Closed =>
        /\ openedAt # None
        /\ Cardinality({f \in log : f.at <= openedAt /\ openedAt - f.at <= Window})
             >= FailureThreshold

\* The inductive invariant behind the theorems.
BreakerInv ==
    /\ TypeOK
    /\ BreakerCoherent
    /\ PruningLosesNothing
    /\ OpeningIsJustified
    /\ \A f \in log : f.at <= now

\* A refused client that waits out its retry_after_s and one second more is let
\* through, unless failures have restarted the recovery timeout meanwhile: the
\* answer of get_retry_after() is short by the cut-off fraction and no more.
RetryAfterIsShortByLessThanASecond ==
    [][\A c, d \in Calls :
         /\ call[c] = "rejected"
         /\ told[c].openedAt = openedAt
         /\ now >= told[c].at + (told[c].retry + 1) * TicksPerSecond
         => ~(call[d] = "new" /\ call'[d] = "rejected")]_vars

\* The breaker keeps the promise of AbstractBreaker: blocking for a recovery
\* timeout from each time the threshold is reached, and no other time.
Promise == INSTANCE AbstractBreaker WITH trip <- openedAt
RefinesAbstractBreaker == Promise!Spec
=============================================================================

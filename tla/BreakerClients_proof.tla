------------------------- MODULE BreakerClients_proof -------------------------
(***************************************************************************)
(* Theorems about the circuit breaker and its callers, for any number of   *)
(* calls, any thresholds and times, and a clock without bound on the way.  *)
(*                                                                         *)
(* BreakerInv is the inductive invariant.  The safety theorems are its     *)
(* conjuncts; the refinement theorem needs it because the abstract breaker *)
(* counts failures in a history that is never pruned and decides by the    *)
(* opening time alone, without the three states.                           *)
(***************************************************************************)
EXTENDS BreakerClients, FiniteSetTheorems, TLAPS

\* The failure that record_failure appends to the list.
Newest(c) == [call |-> c, at |-> now]

\* The failures a call could have reported by now are told apart: the history
\* and the pruned list stay finite sets when one more is reported.
LEMMA NewestIsAFailure ==
    ASSUME TypeOK, NEW c \in Calls
    PROVE  /\ Newest(c) \in Failure
           /\ IsFiniteSet(failures \cup {Newest(c)})
           /\ IsFiniteSet(log \cup {Newest(c)})
<1>1. IsFiniteSet(failures) /\ IsFiniteSet(log) /\ now \in Nat
    BY DEF TypeOK, BreakerTypeOK
<1>2. IsFiniteSet(failures \cup {Newest(c)})
    BY <1>1, FS_AddElement
<1> QED
    BY <1>1, <1>2, FS_AddElement DEF Newest, Failure

LEMMA CardinalityIsMonotonic ==
    ASSUME NEW S, IsFiniteSet(S), NEW T \in SUBSET S
    PROVE  /\ IsFiniteSet(T)
           /\ Cardinality(T) \in Nat
           /\ Cardinality(S) \in Nat
           /\ Cardinality(T) <= Cardinality(S)
    BY FS_Subset, FS_CardinalityType

-----------------------------------------------------------------------------
(* The invariant holds at the start and every action preserves it.          *)

LEMMA InitEstablishesInv == Init => BreakerInv
<1> SUFFICES ASSUME Init PROVE BreakerInv
    OBVIOUS
<1>1. TypeOK
    BY BreakerAssumption, FS_EmptySet
    DEF Init, BreakerInit, TypeOK, BreakerTypeOK, State, Closed, CallState
<1>2. BreakerCoherent
    BY BreakerAssumption, FS_EmptySet
    DEF Init, BreakerInit, BreakerCoherent, ClosedIsBelowThreshold, HalfOpenHasWaited,
        Closed, Open, HalfOpen
<1>3. PruningLosesNothing /\ OpeningIsJustified /\ \A f \in log : f.at <= now
    BY DEF Init, BreakerInit, PruningLosesNothing, OpeningIsJustified
<1> QED
    BY <1>1, <1>2, <1>3 DEF BreakerInv

\* is_open() may move an open circuit to half-open, but only when its recovery
\* timeout has passed; nothing else of the breaker changes.
LEMMA IsOpenPreservesInv ==
    ASSUME BreakerInv, IsOpen, UNCHANGED <<now, log>>,
           call' \in [Calls -> CallState], told' \in [Calls -> Answer \cup {None}]
    PROVE  BreakerInv'
<1> USE DEF BreakerInv
<1>1. TypeOK'
    BY DEF TypeOK, BreakerTypeOK, IsOpen, State, HalfOpen
<1>2. BreakerCoherent'
    BY BreakerAssumption
    DEF BreakerCoherent, ClosedIsBelowThreshold, HalfOpenHasWaited, IsOpen, RecoveryDue,
        Closed, Open, HalfOpen
<1>3. PruningLosesNothing' /\ (\A f \in log : f.at <= now)'
    BY DEF PruningLosesNothing, IsOpen
<1>4. OpeningIsJustified'
    BY DEF OpeningIsJustified, IsOpen, RecoveryDue, Closed, Open, HalfOpen
<1> QED
    BY <1>1, <1>2, <1>3, <1>4

\* record_failure(): what the window keeps is exactly the recent part of the
\* history, so a list that reaches the threshold justifies the opening.
LEMMA FailPreservesInv ==
    ASSUME BreakerInv, NEW c \in Calls, Fail(c)
    PROVE  BreakerInv'
<1> DEFINE kept == InWindow(failures \cup {Newest(c)})
<1> USE DEF BreakerInv
<1>1. /\ failures' = kept
      /\ log' = log \cup {Newest(c)}
      /\ IF Cardinality(kept) >= FailureThreshold
         THEN state' = Open /\ openedAt' = now
         ELSE UNCHANGED <<state, openedAt>>
      /\ UNCHANGED <<now, told>>
      /\ call' = [call EXCEPT ![c] = "ended"]
    BY DEF Fail, RecordFailure, Newest
<1>2. /\ now \in Nat
      /\ failures \subseteq Failure
      /\ log \subseteq Failure
      /\ openedAt \in Nat \cup {None}
      /\ \A f \in Failure : f.at \in Nat
    BY DEF TypeOK, BreakerTypeOK, Failure
<1>3. /\ Newest(c) \in Failure
      /\ Newest(c).at = now
    BY NewestIsAFailure DEF Newest
<1>4. /\ kept \subseteq failures \cup {Newest(c)}
      /\ IsFiniteSet(kept)
      /\ IsFiniteSet(log')
      /\ Cardinality(kept) \in Nat
    BY <1>1, NewestIsAFailure, CardinalityIsMonotonic DEF InWindow
<1>5. TypeOK'
    BY <1>1, <1>2, <1>3, <1>4 DEF TypeOK, BreakerTypeOK, CallState, State, Open
<1>6. \A f \in log' : f.at <= now
    BY <1>1, <1>2, <1>3
<1>7. PruningLosesNothing'
  <2>1. failures' \subseteq log'
    BY <1>1, <1>4 DEF PruningLosesNothing
  <2>2. ASSUME NEW f \in log', now - f.at <= Window
        PROVE  f \in failures'
    BY <1>1, <2>2 DEF PruningLosesNothing, InWindow
  <2> QED
    BY <1>1, <2>1, <2>2 DEF PruningLosesNothing
<1>8. BreakerCoherent'
  <2>1. \A f \in failures' : f.at <= now'
    BY <1>1, <1>6, <1>7 DEF PruningLosesNothing
  <2>2. CASE Cardinality(kept) >= FailureThreshold
    <3>1. openedAt' <= now' /\ openedAt' # None
      BY <1>1, <1>2, <2>2, BreakerAssumption
    <3>2. state' # Closed /\ state' # HalfOpen
      BY <1>1, <2>2 DEF Closed, Open, HalfOpen
    <3> QED
      BY <2>1, <3>1, <3>2
      DEF BreakerCoherent, ClosedIsBelowThreshold, HalfOpenHasWaited
  <2>3. CASE ~(Cardinality(kept) >= FailureThreshold)
    BY <1>1, <1>2, <1>4, <2>1, <2>3, BreakerAssumption
    DEF BreakerCoherent, ClosedIsBelowThreshold, HalfOpenHasWaited
  <2> QED
    BY <2>2, <2>3
<1>9. OpeningIsJustified'
  <2> DEFINE Behind(fs, t) == {f \in fs : f.at <= t /\ t - f.at <= Window}
  <2>1. CASE Cardinality(kept) >= FailureThreshold
    <3>1. kept \subseteq Behind(log', now)
      BY <1>1, <1>4, <1>6, <1>7 DEF PruningLosesNothing, InWindow
    <3>2. Cardinality(Behind(log', now)) \in Nat
          /\ Cardinality(kept) <= Cardinality(Behind(log', now))
      <4>1. Behind(log', now) \in SUBSET log'
        OBVIOUS
      <4>2. IsFiniteSet(Behind(log', now))
        BY <1>4, <4>1, CardinalityIsMonotonic
      <4> QED
        BY <3>1, <4>2, CardinalityIsMonotonic
    <3>3. Cardinality(Behind(log', now)) >= FailureThreshold
      BY <1>4, <2>1, <3>2, BreakerAssumption
    <3>4. openedAt' = now /\ now # None
      BY <1>1, <1>2, <2>1, BreakerAssumption
    <3> QED
      BY <3>3, <3>4 DEF OpeningIsJustified
  <2>2. CASE ~(Cardinality(kept) >= FailureThreshold) /\ state # Closed
    <3>1. /\ openedAt # None
          /\ Cardinality(Behind(log, openedAt)) >= FailureThreshold
      BY <2>2 DEF OpeningIsJustified
    <3>2. Behind(log, openedAt) \subseteq Behind(log', openedAt)
      BY <1>1
    <3>3. /\ Cardinality(Behind(log, openedAt)) \in Nat
          /\ Cardinality(Behind(log', openedAt)) \in Nat
          /\ Cardinality(Behind(log, openedAt)) <= Cardinality(Behind(log', openedAt))
      <4>1. Behind(log', openedAt) \in SUBSET log'
        OBVIOUS
      <4>2. IsFiniteSet(Behind(log', openedAt))
        BY <1>4, <4>1, CardinalityIsMonotonic
      <4> QED
        BY <3>2, <4>2, CardinalityIsMonotonic
    <3>4. Cardinality(Behind(log', openedAt)) >= FailureThreshold
      BY <3>1, <3>3, BreakerAssumption
    <3> QED
      BY <1>1, <2>2, <3>1, <3>4 DEF OpeningIsJustified
  <2>3. CASE ~(Cardinality(kept) >= FailureThreshold) /\ state = Closed
    BY <1>1, <2>3 DEF OpeningIsJustified
  <2> QED
    BY <2>1, <2>2, <2>3
<1> QED
    BY <1>1, <1>5, <1>6, <1>7, <1>8, <1>9

\* record_success() clears everything on the way from half-open to closed and
\* is without effect otherwise.
LEMMA SucceedPreservesInv ==
    ASSUME BreakerInv, NEW c \in Calls, Succeed(c)
    PROVE  BreakerInv'
<1> USE DEF BreakerInv
<1>1. call' \in [Calls -> CallState] /\ UNCHANGED <<now, told>>
    BY DEF Succeed, TypeOK, CallState
<1>2. CASE state = HalfOpen
  <2>1. /\ state' = Closed
        /\ failures' = {}
        /\ openedAt' = None
        /\ log' = {}
    BY <1>2 DEF Succeed, RecordSuccess, HalfOpen, Closed
  <2>2. TypeOK'
    BY <1>1, <2>1, FS_EmptySet DEF TypeOK, BreakerTypeOK, State
  <2>3. BreakerCoherent'
    BY <1>1, <2>1, FS_EmptySet, BreakerAssumption
    DEF BreakerCoherent, ClosedIsBelowThreshold, HalfOpenHasWaited, Closed, Open, HalfOpen
  <2> QED
    BY <1>1, <2>1, <2>2, <2>3 DEF PruningLosesNothing, OpeningIsJustified
<1>3. CASE state # HalfOpen
  <2>1. UNCHANGED <<breakerVars, log>>
    BY <1>3 DEF Succeed, RecordSuccess, breakerVars
  <2> QED
    BY <1>1, <2>1
    DEF breakerVars, TypeOK, BreakerTypeOK, BreakerCoherent, ClosedIsBelowThreshold,
        HalfOpenHasWaited, PruningLosesNothing, OpeningIsJustified
<1> QED
    BY <1>2, <1>3

\* A new process starts from a breaker that has seen nothing.
LEMMA RestartPreservesInv ==
    ASSUME BreakerInv, Restart
    PROVE  BreakerInv'
<1> USE DEF BreakerInv
<1>1. /\ state' = Closed /\ failures' = {} /\ openedAt' = None /\ log' = {}
      /\ UNCHANGED <<now, told>>
    BY DEF Restart
<1>2. call' \in [Calls -> CallState]
    BY DEF Restart, TypeOK, CallState
<1>3. TypeOK'
    BY <1>1, <1>2, FS_EmptySet DEF TypeOK, BreakerTypeOK, State
<1>4. BreakerCoherent'
    BY <1>1, FS_EmptySet, BreakerAssumption
    DEF BreakerCoherent, ClosedIsBelowThreshold, HalfOpenHasWaited, Closed, Open, HalfOpen
<1> QED
    BY <1>1, <1>3, <1>4 DEF PruningLosesNothing, OpeningIsJustified

LEMMA TickPreservesInv ==
    ASSUME BreakerInv, Tick
    PROVE  BreakerInv'
<1> USE DEF BreakerInv
<1>1. now' = now + 1 /\ UNCHANGED <<state, failures, openedAt, call, told, log>>
    BY DEF Tick, breakerVars, clientVars
<1>2. now \in Nat /\ openedAt \in Nat \cup {None} /\ \A f \in failures \cup log : f.at \in Nat
    BY DEF TypeOK, BreakerTypeOK, Failure
<1>3. TypeOK'
    BY <1>1, <1>2 DEF TypeOK, BreakerTypeOK
<1>4. BreakerCoherent' /\ (\A f \in log : f.at <= now)'
    BY <1>1, <1>2, BreakerAssumption
    DEF BreakerCoherent, ClosedIsBelowThreshold, HalfOpenHasWaited
<1>5. PruningLosesNothing' /\ OpeningIsJustified'
    BY <1>1, <1>2, BreakerAssumption DEF PruningLosesNothing, OpeningIsJustified
<1> QED
    BY <1>3, <1>4, <1>5

LEMMA StepPreservesInv == BreakerInv /\ [Next]_vars => BreakerInv'
<1> SUFFICES ASSUME BreakerInv, [Next]_vars PROVE BreakerInv'
    OBVIOUS
<1>1. ASSUME NEW c \in Calls, Admit(c) PROVE BreakerInv'
  <2>1. call' \in [Calls -> CallState] /\ told' \in [Calls -> Answer \cup {None}]
    BY <1>1 DEF Admit, BreakerInv, TypeOK, CallState
  <2> QED
    BY <1>1, <2>1, IsOpenPreservesInv DEF Admit
<1>2. ASSUME NEW c \in Calls, Reject(c) PROVE BreakerInv'
  <2>1. RetryAfterSeconds \in Nat
    BY <1>2, BreakerAssumption
    DEF Reject, StillOpen, RetryAfterSeconds, RetryAfter, BreakerInv, TypeOK, BreakerTypeOK,
        BreakerCoherent
  <2>2. call' \in [Calls -> CallState] /\ told' \in [Calls -> Answer \cup {None}]
    BY <1>2, <2>1
    DEF Reject, StillOpen, BreakerInv, TypeOK, BreakerTypeOK, CallState, Answer
  <2> QED
    BY <1>2, <2>2, IsOpenPreservesInv DEF Reject
<1>3. ASSUME NEW c \in Calls, Fail(c) PROVE BreakerInv'
    BY <1>3, FailPreservesInv
<1>4. ASSUME NEW c \in Calls, Succeed(c) PROVE BreakerInv'
    BY <1>4, SucceedPreservesInv
<1>5. ASSUME NEW c \in Calls, Abandon(c) PROVE BreakerInv'
    BY <1>5
    DEF Abandon, breakerVars, BreakerInv, TypeOK, BreakerTypeOK, CallState, BreakerCoherent,
        ClosedIsBelowThreshold, HalfOpenHasWaited, PruningLosesNothing, OpeningIsJustified
<1>6. ASSUME Health PROVE BreakerInv'
    BY <1>6, IsOpenPreservesInv DEF Health, clientVars, BreakerInv, TypeOK
<1>7. ASSUME Tick PROVE BreakerInv'
    BY <1>7, TickPreservesInv
<1>8. ASSUME Restart PROVE BreakerInv'
    BY <1>8, RestartPreservesInv
<1>9. ASSUME UNCHANGED vars PROVE BreakerInv'
    BY <1>9
    DEF vars, breakerVars, clientVars, BreakerInv, TypeOK, BreakerTypeOK, BreakerCoherent,
        ClosedIsBelowThreshold, HalfOpenHasWaited, PruningLosesNothing, OpeningIsJustified
<1> QED
    BY <1>1, <1>2, <1>3, <1>4, <1>5, <1>6, <1>7, <1>8, <1>9 DEF Next

\* The conjunction of the breaker's invariants is inductive: it holds in every
\* reachable state of app/core/circuit_breaker.py under any order of its callers.
THEOREM BreakerInvariant == Spec => []BreakerInv
    BY InitEstablishesInv, StepPreservesInv, PTL DEF Spec

\* Every field of the breaker and of its callers keeps its type.
THEOREM TypeCorrectness == Spec => []TypeOK
<1>1. BreakerInv => TypeOK
    BY DEF BreakerInv
<1> QED
    BY <1>1, BreakerInvariant, PTL

\* The four fields of the breaker agree with each other: a closed circuit is
\* below the threshold, a half-open one has sat out its recovery timeout.
THEOREM Coherence == Spec => []BreakerCoherent
<1>1. BreakerInv => BreakerCoherent
    BY DEF BreakerInv
<1> QED
    BY <1>1, BreakerInvariant, PTL

\* Dropping failures outside the window never changes what a later window holds.
THEOREM PruningIsSound == Spec => []PruningLosesNothing
<1>1. BreakerInv => PruningLosesNothing
    BY DEF BreakerInv
<1> QED
    BY <1>1, BreakerInvariant, PTL

\* No circuit is open or half-open without a threshold of failures in one window.
THEOREM OpeningsAreJustified == Spec => []OpeningIsJustified
<1>1. BreakerInv => OpeningIsJustified
    BY DEF BreakerInv
<1> QED
    BY <1>1, BreakerInvariant, PTL

-----------------------------------------------------------------------------
(* The breaker implements AbstractBreaker.                                  *)

\* The abstract breaker blocks exactly while is_open() answers True.
LEMMA BlockedMeansStillOpen == BreakerInv => (Promise!Blocked <=> StillOpen)
<1> SUFFICES ASSUME BreakerInv PROVE Promise!Blocked <=> StillOpen
    OBVIOUS
<1>1. now \in Nat /\ openedAt \in Nat \cup {None} /\ state \in State
    BY DEF BreakerInv, TypeOK, BreakerTypeOK
<1>2. CASE state = Open
    BY <1>1, <1>2, BreakerAssumption DEF Promise!Blocked, StillOpen
<1>3. CASE state = Closed
    BY <1>3
    DEF Promise!Blocked, StillOpen, BreakerInv, BreakerCoherent, ClosedIsBelowThreshold,
        Closed, Open
<1>4. CASE state = HalfOpen
    BY <1>1, <1>4, BreakerAssumption
    DEF Promise!Blocked, StillOpen, BreakerInv, BreakerCoherent, HalfOpenHasWaited,
        HalfOpen, Open
<1> QED
    BY <1>1, <1>2, <1>3, <1>4 DEF State

\* A failure maps to an abstract failure: the window over the pruned list and
\* the window over the whole history are the same set.
LEMMA FailImplementsFail ==
    ASSUME BreakerInv, NEW c \in Calls, Fail(c)
    PROVE  Promise!Fail(c)
<1> DEFINE kept == InWindow(failures \cup {Newest(c)})
<1>1. /\ failures' = kept
      /\ log' = log \cup {[call |-> c, at |-> now]}
      /\ openedAt' = IF Cardinality(kept) >= FailureThreshold THEN now ELSE openedAt
      /\ UNCHANGED now
    BY DEF Fail, RecordFailure, Newest
<1>2. Promise!Recent(log') = kept
    BY <1>1 DEF BreakerInv, PruningLosesNothing, Promise!Recent, InWindow, Newest
<1>3. Promise!Cardinality(kept) = Cardinality(kept)
    BY DEF Cardinality, Promise!Cardinality
<1> QED
    BY <1>1, <1>2, <1>3 DEF Fail, Promise!Fail

\* A success that closes the circuit is an abstract recovery, any other one the
\* abstract end of a call.
LEMMA SucceedImplementsEndOrRecover ==
    ASSUME BreakerInv, NEW c \in Calls, Succeed(c)
    PROVE  Promise!End(c) \/ Promise!Recover(c)
<1>1. CASE state = HalfOpen
  <2>1. openedAt # None /\ ~StillOpen
    BY <1>1 DEF BreakerInv, BreakerCoherent, HalfOpenHasWaited, StillOpen, HalfOpen, Open
  <2>2. log' = {} /\ openedAt' = None /\ UNCHANGED now
    BY <1>1 DEF Succeed, RecordSuccess, HalfOpen, Closed
  <2> QED
    BY <2>1, <2>2, BlockedMeansStillOpen DEF Succeed, Promise!Recover
<1>2. CASE state # HalfOpen
  <2>1. UNCHANGED <<now, log, openedAt>>
    BY <1>2 DEF Succeed, RecordSuccess, breakerVars
  <2> QED
    BY <2>1 DEF Succeed, Promise!End
<1> QED
    BY <1>1, <1>2

LEMMA StepImplementsStep == BreakerInv /\ [Next]_vars => [Promise!Next]_(Promise!abstractVars)
<1> SUFFICES ASSUME BreakerInv, [Next]_vars PROVE [Promise!Next]_(Promise!abstractVars)
    OBVIOUS
<1>1. ASSUME NEW c \in Calls, Admit(c) PROVE Promise!Admit(c)
    BY <1>1, BlockedMeansStillOpen DEF Admit, IsOpen, Promise!Admit
<1>2. ASSUME NEW c \in Calls, Reject(c) PROVE Promise!Reject(c)
    BY <1>2, BlockedMeansStillOpen DEF Reject, IsOpen, Promise!Reject
<1>3. ASSUME NEW c \in Calls, Abandon(c) PROVE Promise!End(c)
    BY <1>3 DEF Abandon, breakerVars, Promise!End
<1>4. ASSUME Health PROVE UNCHANGED Promise!abstractVars
    BY <1>4 DEF Health, IsOpen, clientVars, Promise!abstractVars
<1>5. ASSUME Tick PROVE Promise!Tick
    BY <1>5 DEF Tick, breakerVars, clientVars, Promise!Tick
<1>6. ASSUME Restart PROVE Promise!Restart
    BY <1>6 DEF Restart, Promise!Restart
<1>7. ASSUME UNCHANGED vars PROVE UNCHANGED Promise!abstractVars
    BY <1>7 DEF vars, breakerVars, clientVars, Promise!abstractVars
<1> QED
    BY <1>1, <1>2, <1>3, <1>4, <1>5, <1>6, <1>7, FailImplementsFail, SucceedImplementsEndOrRecover
    DEF Next, Promise!Next

\* The three-state machine with its pruned list and its lazy move to half-open
\* does what AbstractBreaker promises: it blocks new calls for one recovery
\* timeout from each time the threshold is reached, and at no other time.
THEOREM BreakerKeepsItsPromise == Spec => RefinesAbstractBreaker
<1>1. Init => Promise!Init
    BY DEF Init, BreakerInit, Promise!Init
<1> QED
    BY <1>1, StepImplementsStep, BreakerInvariant, PTL
    DEF Spec, RefinesAbstractBreaker, Promise!Spec

-----------------------------------------------------------------------------
(* The answers given to refused calls.                                      *)

\* Cutting a duration down to whole seconds takes less than a second off it.
LEMMA CutOffIsBelowOneSecond ==
    ASSUME NEW n \in Nat
    PROVE  /\ n \div TicksPerSecond \in Nat
           /\ n < (n \div TicksPerSecond + 1) * TicksPerSecond
<1>1. TicksPerSecond \in Int /\ TicksPerSecond > 0
    BY BreakerAssumption
<1>2. n \div TicksPerSecond \in Nat
    BY <1>1, SMT
<1>3. n < TicksPerSecond * (n \div TicksPerSecond) + TicksPerSecond
    BY <1>1, SMTT(30)
<1> QED
    BY <1>1, <1>2, <1>3

\* One second more than a refused call was told reaches beyond the recovery
\* timeout it was told about.
AnswersCoverTheWait ==
    \A c \in Calls : call[c] = "rejected" =>
        /\ told[c] \in Answer
        /\ told[c].openedAt + RecoveryTimeout
             < told[c].at + (told[c].retry + 1) * TicksPerSecond

LEMMA StepPreservesAnswers ==
    BreakerInv /\ AnswersCoverTheWait /\ [Next]_vars => AnswersCoverTheWait'
<1> SUFFICES ASSUME BreakerInv, AnswersCoverTheWait, [Next]_vars,
                    NEW c \in Calls, call'[c] = "rejected"
             PROVE  /\ told'[c] \in Answer
                    /\ told'[c].openedAt + RecoveryTimeout
                         < told'[c].at + (told'[c].retry + 1) * TicksPerSecond
    BY DEF AnswersCoverTheWait
<1>1. call \in [Calls -> CallState] /\ told \in [Calls -> Answer \cup {None}]
    BY DEF BreakerInv, TypeOK
<1>2. CASE Reject(c)
  <2>1. /\ openedAt \in Nat /\ now \in Nat
        /\ now - openedAt < RecoveryTimeout
        /\ openedAt <= now
    BY <1>2 DEF Reject, StillOpen, BreakerInv, TypeOK, BreakerTypeOK, BreakerCoherent
  <2>2. RetryAfter \in Nat /\ RetryAfter = RecoveryTimeout - (now - openedAt)
    BY <2>1, BreakerAssumption DEF RetryAfter
  <2>3. /\ RetryAfterSeconds \in Nat
        /\ RetryAfter < (RetryAfterSeconds + 1) * TicksPerSecond
    BY <2>2, CutOffIsBelowOneSecond DEF RetryAfterSeconds
  <2>4. told'[c] = [at |-> now, retry |-> RetryAfterSeconds, openedAt |-> openedAt]
    BY <1>1, <1>2 DEF Reject
  <2>5. (RetryAfterSeconds + 1) * TicksPerSecond \in Int
    BY <2>3, BreakerAssumption
  <2>6. openedAt + RecoveryTimeout < now + (RetryAfterSeconds + 1) * TicksPerSecond
    BY <2>1, <2>2, <2>3, <2>5, BreakerAssumption
  <2> QED
    BY <2>1, <2>3, <2>4, <2>6 DEF Answer
<1>3. CASE ~Reject(c)
  <2>1. call[c] = "rejected" /\ told'[c] = told[c]
    BY <1>1, <1>3
    DEF Next, Admit, Reject, Fail, Succeed, Abandon, Health, Restart, Tick, vars, clientVars
  <2> QED
    BY <2>1 DEF AnswersCoverTheWait
<1> QED
    BY <1>2, <1>3

LEMMA RefusedOnlyWhileToldTo ==
    BreakerInv /\ AnswersCoverTheWait /\ [Next]_vars =>
        \A c, d \in Calls :
            /\ call[c] = "rejected"
            /\ told[c].openedAt = openedAt
            /\ now >= told[c].at + (told[c].retry + 1) * TicksPerSecond
            => ~(call[d] = "new" /\ call'[d] = "rejected")
<1> SUFFICES ASSUME BreakerInv, AnswersCoverTheWait, [Next]_vars,
                    NEW c \in Calls, NEW d \in Calls,
                    call[c] = "rejected",
                    told[c].openedAt = openedAt,
                    now >= told[c].at + (told[c].retry + 1) * TicksPerSecond,
                    call[d] = "new" /\ call'[d] = "rejected"
             PROVE  FALSE
    OBVIOUS
<1>1. call \in [Calls -> CallState]
    BY DEF BreakerInv, TypeOK
<1>2. Reject(d)
    BY <1>1
    DEF Next, Admit, Reject, Fail, Succeed, Abandon, Health, Restart, Tick, vars, clientVars
<1>3. now - openedAt < RecoveryTimeout /\ now \in Nat
    BY <1>2 DEF Reject, StillOpen, BreakerInv, TypeOK, BreakerTypeOK
<1>4. /\ told[c].at \in Nat /\ told[c].retry \in Nat /\ openedAt \in Nat
      /\ openedAt + RecoveryTimeout < told[c].at + (told[c].retry + 1) * TicksPerSecond
    BY DEF AnswersCoverTheWait, Answer
<1>5. (told[c].retry + 1) * TicksPerSecond \in Int
    BY <1>4, BreakerAssumption
<1> QED
    BY <1>3, <1>4, <1>5, BreakerAssumption

\* A refused client that waits one second longer than retry_after_s said is not
\* refused again for the same opening, whatever the fraction int() cut off.
THEOREM RetryAfterIsHonest == Spec => RetryAfterIsShortByLessThanASecond
<1>1. Init => AnswersCoverTheWait
    BY DEF Init, AnswersCoverTheWait
<1>2. Spec => []AnswersCoverTheWait
    BY <1>1, StepPreservesAnswers, BreakerInvariant, PTL DEF Spec
<1> QED
    BY <1>2, BreakerInvariant, RefusedOnlyWhileToldTo, PTL
    DEF Spec, RetryAfterIsShortByLessThanASecond
=============================================================================

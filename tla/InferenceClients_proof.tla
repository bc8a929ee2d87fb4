------------------------- MODULE InferenceClients_proof -------------------------
(***************************************************************************)
(* Theorems about infer, its breaker and its lock, for any number of       *)
(* requests and keys, any thresholds and times, and any faults.            *)
(*                                                                         *)
(* The requests are clients of the breaker, so what BreakerClients_proof   *)
(* proves of the clients holds of them.  The lock: LeaderHoldsTheLock is   *)
(* inductive together with TypeOK once what Redis drops is recorded.       *)
(***************************************************************************)
EXTENDS InferenceClients, InferenceService_proof

LEMMA RecordedStep == RecordedSpec => Spec
<1>1. RecordedInit => Init
    BY DEF RecordedInit
<1>2. [RecordedNext]_<<vars, recordVars>> => [Next]_vars
    BY DEF RecordedNext
<1> QED
    BY <1>1, <1>2, PTL DEF RecordedSpec, Spec

-----------------------------------------------------------------------------
(* The lock.                                                                *)

\* LeaderHoldsTheLock, and when a leader's call began.
Leadership ==
    /\ LeaderHoldsTheLock
    /\ \A r \in Requests : hasLock[r] => since[r] \in Nat

\* What a step may do to a leader that stays one: its lock is left as it is,
\* unless Redis has dropped it or drops it now.
StaysLeader(r) ==
    /\ pc'[r] \in {"calling", "storing", "releasing"}
    /\ key'[r] = key[r] /\ since'[r] = since[r]
    /\ \/ key[r] \in lapsed
       \/ LosesItsLock(r)
       \/ lock'[key[r]] = lock[key[r]]

\* What a step must do to a request that becomes a leader.
BecomesLeader(r) ==
    /\ pc'[r] = "calling"
    /\ key'[r] = key[r] /\ since'[r] = now
    /\ lock'[key[r]] = [by |-> r, until |-> now + LockTTL]

LeadershipIsKept ==
    \A r \in Requests :
        /\ pc'[r] = "releasing" => hasLock'[r]
        /\ hasLock'[r] => IF hasLock[r] THEN StaysLeader(r) ELSE BecomesLeader(r)

\* A step of this kind, with its record, keeps the invariant.
LEMMA KeptLeadershipIsRecorded ==
    ASSUME TypeOK, Leadership, LeadershipIsKept, Record
    PROVE  Leadership'
<1> SUFFICES ASSUME NEW r \in Requests, hasLock'[r]
             PROVE  /\ pc'[r] \in {"calling", "storing", "releasing"}
                    /\ since'[r] \in Nat
                    /\ \/ key'[r] \in lapsed'
                       \/ lock'[key'[r]] = [by |-> r, until |-> since'[r] + LockTTL]
    BY DEF Leadership, LeaderHoldsTheLock, LeadershipIsKept, Requests
<1>1. lapsed' = {k \in Lapsing : \E s \in Requests : hasLock'[s] /\ key[s] = k}
    BY DEF Record
<1>2. key[r] \in Lapsing => key[r] \in lapsed'
    BY <1>1
<1>3. CASE hasLock[r]
  <2>1. StaysLeader(r) /\ since[r] \in Nat
    BY <1>3 DEF LeadershipIsKept, Leadership
  <2>2. CASE key[r] \in lapsed \/ LosesItsLock(r)
    BY <1>2, <2>1, <2>2 DEF Lapsing, StaysLeader
  <2>3. CASE key[r] \notin lapsed /\ lock'[key[r]] = lock[key[r]]
    <3>1. lock[key[r]] = [by |-> r, until |-> since[r] + LockTTL]
      BY <1>3, <2>3 DEF Leadership, LeaderHoldsTheLock
    <3> QED
      BY <2>1, <2>3, <3>1 DEF StaysLeader
  <2> QED
    BY <2>1, <2>2, <2>3 DEF StaysLeader
<1>4. CASE ~hasLock[r]
    BY <1>4 DEF LeadershipIsKept, BecomesLeader, TypeOK, BreakerTypeOK
<1> QED
    BY <1>3, <1>4

\* A leader whose lock Redis has not dropped holds it alone.
LEMMA LeaderHoldsItAlone ==
    ASSUME TypeOK, Leadership, NEW r \in Requests, hasLock[r], key[r] \notin lapsed
    PROVE  /\ lock[key[r]] # None /\ lock[key[r]].by = r
           /\ \A s \in Requests : hasLock[s] /\ key[s] = key[r] => s = r
<1>1. /\ lock[key[r]] = [by |-> r, until |-> since[r] + LockTTL]
      /\ since[r] \in Nat
    BY DEF Leadership, LeaderHoldsTheLock
<1>2. lock[key[r]] # None
  <2>1. lock[key[r]] \in Entry
    BY <1>1, InferenceAssumption DEF Entry
  <2> QED
    BY <2>1, NoneAssumption
<1>3. ASSUME NEW s \in Requests, hasLock[s], key[s] = key[r] PROVE s = r
  <2>1. lock[key[s]] = [by |-> s, until |-> since[s] + LockTTL]
    BY <1>3 DEF Leadership, LeaderHoldsTheLock
  <2> QED
    BY <1>1, <1>3, <2>1
<1> QED
    BY <1>1, <1>2, <1>3

LEMMA NextKeepsLeadership ==
    ASSUME TypeOK, Leadership, Next
    PROVE  LeadershipIsKept
<1> USE DEF Requests, GoTo, Begin, Answer
<1>1. /\ now \in Nat
      /\ pc \in [Requests -> PC]
      /\ hasLock \in [Requests -> BOOLEAN]
      /\ since \in [Requests -> Nat \cup {None}]
      /\ lock \in [Keys -> Entry \cup {None}]
      /\ key \in [Requests -> Keys \cup {None}]
      /\ \A r \in Requests : pc[r] # "new" => key[r] \in Keys
      /\ \A r \in Requests :
            /\ pc[r] = "releasing" => hasLock[r]
            /\ hasLock[r] => pc[r] \in {"calling", "storing", "releasing"}
    BY DEF TypeOK, BreakerTypeOK, RedisTypeOK, RequestTypeOK, Leadership, LeaderHoldsTheLock
\* Steps that take one request to another place, without an effect on any lock.
<1>2. ASSUME NEW r \in Requests, NEW to, pc' = [pc EXCEPT ![r] = to],
             to = "releasing" => hasLock[r],
             hasLock[r] => to \in {"storing", "releasing"},
             UNCHANGED <<lock, hasLock>>,
             UNCHANGED key \/ (~hasLock[r] /\ \E k \in Keys : key' = [key EXCEPT ![r] = k]),
             UNCHANGED since \/ (~hasLock[r] /\ since' = [since EXCEPT ![r] = now])
      PROVE  LeadershipIsKept
    BY <1>1, <1>2 DEF LeadershipIsKept, StaysLeader
<1>3. ASSUME NEW r \in Requests,
             \/ Arrive(r) \/ CacheGet(r) \/ CacheGetFails(r) \/ CheckBreaker(r)
             \/ Poll(r) \/ PollFails(r) \/ WaitTimesOut(r)
      PROVE  LeadershipIsKept
  <2>1. ~hasLock[r]
    BY <1>1, <1>3
    DEF Arrive, CacheGet, CacheGetFails, CheckBreaker, Poll, PollFails, WaitTimesOut
  <2> QED
    BY <1>2, <1>3, <2>1
    DEF Arrive, CacheGet, CacheGetFails, CheckBreaker, Poll, PollFails, WaitTimesOut, redisVars
<1>4. ASSUME NEW r \in Requests, TryAcquire(r) \/ TryAcquireFails(r)
      PROVE  LeadershipIsKept
  <2>1. /\ ~hasLock[r] /\ key[r] \in Keys
        /\ UNCHANGED key
        /\ since' = [since EXCEPT ![r] = now]
    BY <1>1, <1>4 DEF TryAcquire, TryAcquireFails
  <2>2. CASE UNCHANGED <<lock, hasLock>>
    BY <1>2, <1>4, <2>1, <2>2, Zenon DEF TryAcquire, TryAcquireFails
  <2>3. CASE lock[key[r]] = None /\ LockBy(r)
    <3>1. \A s \in Requests : hasLock[s] /\ key[s] = key[r] => key[s] \in lapsed
      BY <2>3, LeaderHoldsItAlone
    <3>2. \A s \in Requests : s # r =>
            pc'[s] = pc[s] /\ since'[s] = since[s] /\ hasLock'[s] = hasLock[s]
      BY <1>1, <1>4 DEF TryAcquire, TryAcquireFails
    <3>3. \A s \in Requests : hasLock[s] /\ key[s] # key[r] => lock'[key[s]] = lock[key[s]]
      BY <1>1, <2>3 DEF LockBy
    <3>4. /\ pc'[r] \in {"calling", "waiting"}
          /\ hasLock'[r] => pc'[r] = "calling"
          /\ since'[r] = now
          /\ lock'[key[r]] = [by |-> r, until |-> now + LockTTL]
      BY <1>1, <1>4, <2>1, <2>3 DEF TryAcquire, TryAcquireFails, LockBy
    <3> QED
      BY <1>1, <2>1, <3>1, <3>2, <3>3, <3>4 DEF LeadershipIsKept, StaysLeader, BecomesLeader
  <2> QED
    BY <1>4, <2>2, <2>3 DEF TryAcquire, TryAcquireFails
<1>5. ASSUME NEW r \in Requests, ProviderAnswers(r) \/ CacheSet(r) \/ CacheSetFails(r)
      PROVE  LeadershipIsKept
    BY <1>2, <1>5 DEF ProviderAnswers, CacheSet, CacheSetFails, AfterStore, redisVars
<1>6. ASSUME NEW r \in Requests, ProviderFails(r) PROVE LeadershipIsKept
    BY <1>1, <1>6 DEF ProviderFails, redisVars, LeadershipIsKept, StaysLeader
\* A release meets another leader only where Redis has dropped a lock.
<1>7. ASSUME NEW r \in Requests, Release(r) \/ ReleaseFails(r) PROVE LeadershipIsKept
  <2>1. /\ pc' = [pc EXCEPT ![r] = "answered"]
        /\ hasLock' = [hasLock EXCEPT ![r] = FALSE]
        /\ UNCHANGED <<key, since>>
        /\ UNCHANGED lock \/ Unlock(key[r])
        /\ hasLock[r]
    BY <1>1, <1>7 DEF Release, ReleaseFails
  <2>2. ASSUME NEW s \in Requests, hasLock[s], s # r
        PROVE  key[s] \in lapsed \/ lock'[key[s]] = lock[key[s]]
    <3>1. CASE key[s] = key[r]
      BY <2>1, <2>2, <3>1, LeaderHoldsItAlone
    <3>2. CASE key[s] # key[r]
      BY <1>1, <2>1, <2>2, <3>2 DEF Unlock
    <3> QED
      BY <3>1, <3>2
  <2> QED
    BY <1>1, <2>1, <2>2 DEF LeadershipIsKept, StaysLeader
<1>8. ASSUME Crash PROVE LeadershipIsKept
    BY <1>1, <1>8 DEF Crash, LeadershipIsKept, Suspended
\* Redis drops locks by itself, and LosesItsLock says so.
<1>9. ASSUME UNCHANGED requestVars, \A k \in Keys : lock'[k] \in {None, lock[k]}
      PROVE  LeadershipIsKept
  <2>1. UNCHANGED <<pc, key, hasLock, since>>
    BY <1>9 DEF requestVars
  <2>2. ASSUME NEW r \in Requests, hasLock[r] PROVE StaysLeader(r)
    <3>1. pc[r] \in {"calling", "storing", "releasing"} /\ key[r] \in Keys
      BY <1>1, <2>2
    <3>2. key[r] \in lapsed \/ LosesItsLock(r) \/ lock'[key[r]] = lock[key[r]]
      BY <1>9, <2>1, <2>2, <3>1, LeaderHoldsItAlone DEF LosesItsLock
    <3> QED
      BY <2>1, <3>1, <3>2 DEF StaysLeader
  <2> QED
    BY <1>1, <2>1, <2>2 DEF LeadershipIsKept
<1>10. ASSUME RedisRestart PROVE LeadershipIsKept
  <2>1. lock' = [k \in Keys |-> None] /\ UNCHANGED requestVars
    BY <1>10, Zenon DEF RedisRestart
  <2> QED
    BY <1>9, <2>1
<1>11. ASSUME Tick PROVE LeadershipIsKept
    BY <1>9, <1>11 DEF Tick, Expire
<1> QED
    BY <1>3, <1>4, <1>5, <1>6, <1>7, <1>8, <1>10, <1>11 DEF Next, Step, RedisFails

LEMMA LeadershipInvariant == RecordedSpec => [](TypeOK /\ Leadership)
<1>1. RecordedInit => Leadership
    BY DEF RecordedInit, Init, Leadership, LeaderHoldsTheLock
<1>2. TypeOK /\ Leadership /\ [RecordedNext]_<<vars, recordVars>> => Leadership'
  <2>1. ASSUME Leadership, UNCHANGED <<vars, recordVars>> PROVE Leadership'
    BY <2>1 DEF vars, redisVars, requestVars, recordVars, Leadership, LeaderHoldsTheLock
  <2> QED
    BY <2>1, NextKeepsLeadership, KeptLeadershipIsRecorded DEF RecordedNext
<1> QED
    BY <1>1, <1>2, RecordedStep, TypeCorrectness, PTL DEF RecordedSpec

\* No request takes a lock from its leader or deletes it: as long as Redis keeps a
\* lock, it stays its leader's until that leader's release, for any adapter call
\* time, any TTL, any faults and however late each step is.
THEOREM LeadersReleaseTheirOwnLock == RecordedSpec => []LeaderHoldsTheLock
    BY LeadershipInvariant, PTL DEF Leadership

\* At most one leader per cache key until Redis drops a lock under its leader, for
\* any number of requests, any times and any faults.
THEOREM OneLeader == RecordedSpec => []OneLeaderPerKey
<1>1. TypeOK /\ Leadership => OneLeaderPerKey
    BY LeaderHoldsItAlone DEF OneLeaderPerKey, SameKey
<1> QED
    BY <1>1, LeadershipInvariant, PTL

-----------------------------------------------------------------------------
(* Steps, as the breaker sees them.                                         *)

\* Breaker operations are the same operations, instantiated.
LEMMA SameOperations ==
    /\ Clients!StillOpen <=> StillOpen
    /\ Clients!IsOpen <=> IsOpen
    /\ Clients!RetryAfter = RetryAfter
    /\ Clients!RecordSuccess <=> RecordSuccess
    /\ \A c \in Calls : Clients!RecordFailure(c) <=> RecordFailure(c)
<1>1. \A S : Clients!Cardinality(S) = Cardinality(S)
    BY DEF Cardinality, Clients!Cardinality
<1> QED
    BY <1>1
    DEF Clients!StillOpen, StillOpen, Clients!IsOpen, IsOpen, Clients!RecoveryDue, RecoveryDue,
        Clients!RetryAfter, RetryAfter, Clients!RecordSuccess, RecordSuccess,
        Clients!RecordFailure, RecordFailure, Clients!InWindow, InWindow,
        Clients!Open, Open, Clients!Closed, Closed, Clients!HalfOpen, HalfOpen,
        Clients!breakerVars, breakerVars

\* What is told to nobody stays a function.
ToldIsKept == told = [r \in Requests |-> told[r]]

\* A step that takes one request from one place to another, and what is recorded of it.
LEMMA OneRequestMoves ==
    ASSUME TypeOK, NEW r \in Requests, NEW label \in PC, GoTo(r, label)
    PROVE  /\ callOf[r] = ClientState(pc[r])
           /\ callOf' = [callOf EXCEPT ![r] = ClientState(label)]
           /\ ClientState(label) = ClientState(pc[r]) => UNCHANGED callOf
           /\ pc[r] \in PC /\ pc'[r] = label
           /\ \A s \in Requests \ {r} : pc'[s] = pc[s]
<1> HIDE DEF ClientState
<1>1. /\ pc' = [pc EXCEPT ![r] = label] /\ pc \in [Requests -> PC]
    BY DEF GoTo, TypeOK, RequestTypeOK
<1> QED
    BY <1>1 DEF callOf, Requests

LEMMA MoveIsRecorded ==
    ASSUME TypeOK, ToldIsKept, Record, NEW r \in Requests, NEW label \in PC \ {"lost"},
           GoTo(r, label)
    PROVE  /\ told' = IF Moves(r, "checking", "refused") THEN [told EXCEPT ![r] = Refusal] ELSE told
           /\ log' = IF state # Closed /\ state' = Closed
                     THEN {}
                     ELSE IF Moves(r, "calling", "failed")
                     THEN log \cup {[call |-> r, at |-> now]}
                     ELSE log
<1>1. pc'[r] = label /\ \A s \in Requests \ {r} : pc'[s] = pc[s]
    BY OneRequestMoves
<1>2. \A s \in Requests \ {r} : ~ Moves(s, "checking", "refused") /\ ~ Moves(s, "calling", "failed")
    BY <1>1 DEF Moves
<1>3. \A s \in Requests : ~ (pc[s] # "lost" /\ pc'[s] = "lost")
    BY <1>1
<1>4. told' = [s \in Requests |-> IF Moves(s, "checking", "refused") THEN Refusal ELSE told[s]]
    BY DEF Record
<1>5. told' = IF Moves(r, "checking", "refused") THEN [told EXCEPT ![r] = Refusal] ELSE told
  <2>1. CASE Moves(r, "checking", "refused")
    <3>1. told' = [s \in Requests |-> IF s = r THEN Refusal ELSE told[s]]
      BY <1>2, <1>4, <2>1
    <3>2. [told EXCEPT ![r] = Refusal] = [s \in Requests |-> IF s = r THEN Refusal ELSE told[s]]
      BY DEF ToldIsKept
    <3> QED
      BY <2>1, <3>1, <3>2
  <2>2. CASE ~ Moves(r, "checking", "refused")
    <3>1. told' = [s \in Requests |-> told[s]]
      BY <1>2, <1>4, <2>2
    <3> QED
      BY <2>2, <3>1 DEF ToldIsKept
  <2> QED
    BY <2>1, <2>2
<1>6. Forgets <=> state # Closed /\ state' = Closed
    BY <1>3 DEF Forgets
<1>7. {s \in Requests : Moves(s, "calling", "failed")} =
        IF Moves(r, "calling", "failed") THEN {r} ELSE {}
    BY <1>2
<1> QED
    BY <1>5, <1>6, <1>7 DEF Record

\* A step that leaves every request where it is records nothing.
LEMMA NothingIsRecorded ==
    ASSUME ToldIsKept, Record, UNCHANGED <<pc, state>>
    PROVE  UNCHANGED <<told, log>>
<1>1. \A s \in Requests : ~ Moves(s, "checking", "refused") /\ ~ Moves(s, "calling", "failed")
    BY DEF Moves
<1>2. ~ Forgets
    BY DEF Forgets
<1>3. told' = told
    BY <1>1 DEF Record, ToldIsKept
<1>4. log' = log
    BY <1>1, <1>2 DEF Record
<1> QED
    BY <1>3, <1>4

LEMMA RequestImplementsClient ==
    ASSUME TypeOK, ToldIsKept, Next, Record
    PROVE  [Clients!Next]_(Clients!vars)
<1> DEFINE Same == UNCHANGED Clients!vars
<1> USE SameOperations DEF Requests
<1>1. ASSUME NEW r \in Requests, NEW label \in PC \ {"lost"}, GoTo(r, label),
             ClientState(label) = ClientState(pc[r]), UNCHANGED <<now, breakerVars>>
      PROVE  Same
  <2>1. UNCHANGED <<now, callOf, state, failures, openedAt>>
    BY <1>1, OneRequestMoves DEF breakerVars
  <2>2. ~ Moves(r, "checking", "refused") /\ ~ Moves(r, "calling", "failed")
    BY <1>1 DEF Moves, ClientState, GoTo, TypeOK, RequestTypeOK
  <2>3. UNCHANGED <<told, log>>
    BY <1>1, <2>1, <2>2, MoveIsRecorded
  <2> QED
    BY <2>1, <2>3 DEF Clients!vars, Clients!clientVars, Clients!breakerVars
<1>2. ASSUME NEW r \in Requests, NEW label \in PC \ {"lost"}, GoTo(r, label),
             ClientState(label) = "ended", ClientState(pc[r]) \in {"new", "inflight"},
             pc[r] # "calling", UNCHANGED <<now, breakerVars>>
      PROVE  Clients!Abandon(r)
  <2>1. callOf[r] = ClientState(pc[r]) /\ callOf' = [callOf EXCEPT ![r] = "ended"]
    BY <1>2, OneRequestMoves
  <2>2. ~ Moves(r, "checking", "refused") /\ ~ Moves(r, "calling", "failed")
    BY <1>2 DEF Moves, ClientState, GoTo, TypeOK, RequestTypeOK
  <2>3. UNCHANGED <<told, log>>
    BY <1>2, <2>2, MoveIsRecorded DEF breakerVars
  <2> QED
    BY <1>2, <2>1, <2>3 DEF breakerVars, Clients!Abandon, Clients!breakerVars
<1>3. ASSUME NEW r \in Requests, CheckBreaker(r) PROVE Clients!Admit(r) \/ Clients!Reject(r)
  <2>1. PICK label \in {"refused", "acquiring"} :
            GoTo(r, label) /\ (label = "refused" <=> StillOpen)
    BY <1>3 DEF CheckBreaker
  <2>2. /\ pc[r] = "checking" /\ IsOpen /\ now' = now
        /\ ~ (state # Closed /\ state' = Closed)
    BY <1>3 DEF CheckBreaker, IsOpen, RecoveryDue, HalfOpen, Closed, Open
  <2>3. label \in PC \ {"lost"}
    BY DEF PC, Suspended, Ended
  <2>4. /\ callOf[r] = "new" /\ callOf' = [callOf EXCEPT ![r] = ClientState(label)]
        /\ pc'[r] = label
    BY <2>1, <2>2, <2>3, OneRequestMoves DEF ClientState
  <2>5. told' = (IF label = "refused" THEN [told EXCEPT ![r] = Refusal] ELSE told) /\ log' = log
    BY <2>1, <2>2, <2>3, <2>4, MoveIsRecorded DEF Moves
  <2>6. CASE label = "refused"
    BY <2>1, <2>2, <2>4, <2>5, <2>6
    DEF ClientState, Refusal, Clients!Reject, Clients!RetryAfterSeconds
  <2>7. CASE label = "acquiring"
    BY <2>1, <2>2, <2>4, <2>5, <2>7 DEF ClientState, Clients!Admit
  <2> QED
    BY <2>6, <2>7
<1>4. ASSUME NEW r \in Requests, ProviderAnswers(r) PROVE Clients!Succeed(r)
  <2>1. "storing" \in PC \ {"lost"}
    BY DEF PC, Suspended, Ended
  <2>2. /\ callOf[r] = "inflight" /\ callOf' = [callOf EXCEPT ![r] = "ended"]
        /\ pc'[r] = "storing"
    BY <1>4, <2>1, OneRequestMoves DEF ProviderAnswers, ClientState
  <2>3. told' = told /\ log' = IF state # Closed /\ state' = Closed THEN {} ELSE log
    BY <1>4, <2>1, <2>2, MoveIsRecorded DEF ProviderAnswers, Moves
  <2> QED
    BY <1>4, <2>2, <2>3 DEF ProviderAnswers, Clients!Succeed, Clients!Closed, Closed
<1>5. ASSUME NEW r \in Requests, ProviderFails(r) PROVE Clients!Fail(r)
  <2>1. "failed" \in PC \ {"lost"}
    BY DEF PC, Suspended, Ended
  <2>2. /\ callOf[r] = "inflight" /\ callOf' = [callOf EXCEPT ![r] = "ended"]
        /\ pc'[r] = "failed" /\ pc[r] = "calling"
    BY <1>5, <2>1, OneRequestMoves DEF ProviderFails, ClientState
  <2>3. ~ (state # Closed /\ state' = Closed)
    BY <1>5 DEF ProviderFails, RecordFailure, Closed, Open
  <2>4. told' = told /\ log' = log \cup {[call |-> r, at |-> now]}
    BY <1>5, <2>1, <2>2, <2>3, MoveIsRecorded DEF ProviderFails, Moves
  <2> QED
    BY <1>5, <2>2, <2>4 DEF ProviderFails, Clients!Fail
<1>6. ASSUME NEW r \in Requests, Arrive(r) \/ CacheGetFails(r) \/ TryAcquire(r)
                                 \/ TryAcquireFails(r) \/ PollFails(r) \/ WaitTimesOut(r)
      PROVE  Same
  <2>1. PICK label \in {"lookup", "checking", "calling", "waiting"} :
            GoTo(r, label) /\ ClientState(label) = ClientState(pc[r])
    BY <1>6
    DEF Arrive, CacheGetFails, TryAcquire, TryAcquireFails, PollFails, WaitTimesOut, Begin,
        ClientState
  <2>2. UNCHANGED <<now, breakerVars>>
    BY <1>6 DEF Arrive, CacheGetFails, TryAcquire, TryAcquireFails, PollFails, WaitTimesOut
  <2>3. label \in PC \ {"lost"}
    BY DEF PC, Suspended, Ended
  <2> QED
    BY <1>1, <2>1, <2>2, <2>3
<1>7. ASSUME NEW r \in Requests, CacheSet(r) \/ CacheSetFails(r) \/ Release(r) \/ ReleaseFails(r)
      PROVE  Same
  <2>1. PICK label \in {"releasing", "answered"} :
            GoTo(r, label) /\ ClientState(label) = ClientState(pc[r])
    BY <1>7 DEF CacheSet, CacheSetFails, Release, ReleaseFails, AfterStore, ClientState
  <2>2. UNCHANGED <<now, breakerVars>>
    BY <1>7 DEF CacheSet, CacheSetFails, Release, ReleaseFails
  <2>3. label \in PC \ {"lost"}
    BY DEF PC, Suspended, Ended
  <2> QED
    BY <1>1, <2>1, <2>2, <2>3
<1>8. ASSUME NEW r \in Requests, CacheGet(r) \/ Poll(r) PROVE Same \/ Clients!Abandon(r)
  <2>1. PICK label \in {"answered", "checking"} :
            /\ GoTo(r, label)
            /\ label = "checking" => pc[r] = "lookup"
            /\ pc[r] \in {"lookup", "waiting"}
    BY <1>8 DEF CacheGet, Poll, Answer
  <2>2. UNCHANGED <<now, breakerVars>>
    BY <1>8 DEF CacheGet, Poll
  <2>3. label \in PC \ {"lost"}
    BY DEF PC, Suspended, Ended
  <2>4. CASE label = "checking"
    BY <1>1, <2>1, <2>2, <2>3, <2>4 DEF ClientState
  <2>5. CASE label = "answered"
    BY <1>2, <2>1, <2>2, <2>3, <2>5 DEF ClientState
  <2> QED
    BY <2>4, <2>5
<1>9. CASE Crash
  <2>1. /\ pc' = [r \in Requests |-> IF pc[r] \in Suspended THEN "lost" ELSE pc[r]]
        /\ state' = Closed /\ failures' = {} /\ openedAt' = None /\ now' = now
        /\ \E r \in Requests : pc[r] \in Suspended
    BY <1>9 DEF Crash
  <2>2. Forgets /\ log' = {}
    BY <2>1 DEF Forgets, Record, Suspended
  <2>3. told' = told
    <3>1. \A r \in Requests : ~ Moves(r, "checking", "refused")
      BY <2>1 DEF Moves, Suspended
    <3> QED
      BY <3>1 DEF Record, ToldIsKept
  <2> DEFINE lost == {r \in Requests : pc[r] \in {"lookup", "checking"}}
  <2>4. callOf' = [r \in Calls |->
            IF callOf[r] = "inflight" \/ r \in lost THEN "ended" ELSE callOf[r]]
    <3>1. ASSUME NEW r \in Requests
          PROVE  ClientState(pc'[r]) = IF callOf[r] = "inflight" \/ r \in lost THEN "ended" ELSE callOf[r]
      <4>1. pc[r] \in PC /\ callOf[r] = ClientState(pc[r])
        BY DEF callOf, TypeOK, RequestTypeOK
      <4>2. pc'[r] = IF pc[r] \in Suspended THEN "lost" ELSE pc[r]
        BY <2>1
      <4> QED
        BY <4>1, <4>2 DEF ClientState, Suspended, PC, Ended
    <3> QED
      BY <3>1 DEF callOf
  <2>5. lost \in SUBSET {r \in Calls : callOf[r] = "new"}
    BY DEF callOf, ClientState
  <2>6. Clients!Restart
    BY <2>1, <2>2, <2>3, <2>4, <2>5 DEF Clients!Restart, Clients!Closed, Closed
  <2> QED
    BY <2>6 DEF Clients!Next
<1>10. ASSUME UNCHANGED <<breakerVars, requestVars>>
       PROVE  UNCHANGED <<state, failures, openedAt, callOf, told, log>>
  <2>1. UNCHANGED <<pc, state, failures, openedAt>>
    BY <1>10 DEF breakerVars, requestVars
  <2>2. UNCHANGED <<told, log>>
    BY <2>1, NothingIsRecorded
  <2> QED
    BY <2>1, <2>2 DEF callOf
<1>11. ASSUME RedisRestart PROVE Same
  <2>1. UNCHANGED <<now, breakerVars, requestVars>>
    BY <1>11, Zenon DEF RedisRestart
  <2> QED
    BY <1>10, <2>1 DEF Clients!vars, Clients!clientVars, Clients!breakerVars
<1>12. ASSUME Tick PROVE Clients!Tick
  <2>1. now < MaxTime /\ now' = now + 1 /\ UNCHANGED <<breakerVars, requestVars>>
    BY <1>12 DEF Tick
  <2> QED
    BY <1>10, <2>1 DEF Clients!Tick, Clients!clientVars, Clients!breakerVars
<1> HIDE DEF Same
<1>13. ASSUME NEW r \in Requests, Arrive(r) \/ Step(r) \/ RedisFails(r)
       PROVE  Same \/ Clients!Admit(r) \/ Clients!Reject(r) \/ Clients!Fail(r)
                \/ Clients!Succeed(r) \/ Clients!Abandon(r)
    BY <1>3, <1>4, <1>5, <1>6, <1>7, <1>8, <1>13 DEF Step, RedisFails
<1> QED
    BY <1>9, <1>11, <1>12, <1>13 DEF Next, Clients!Next, Same

\* To the breaker, infer is what BreakerClients describes, for any faults.
THEOREM RequestsAreClients == RecordedSpec => RefinesBreakerClients
<1>1. RecordedInit => Clients!Init /\ ToldIsKept
    BY DEF RecordedInit, Init, BreakerInit, callOf, ClientState, Clients!Init,
           Clients!BreakerInit, Closed, Clients!Closed, Requests, ToldIsKept
<1>2. ToldIsKept /\ [RecordedNext]_<<vars, recordVars>> => ToldIsKept'
    BY DEF RecordedNext, Record, ToldIsKept, recordVars
<1>3. TypeOK /\ ToldIsKept /\ [RecordedNext]_<<vars, recordVars>> => [Clients!Next]_(Clients!vars)
  <2>1. UNCHANGED <<vars, recordVars>> => UNCHANGED Clients!vars
    BY DEF vars, recordVars, requestVars, breakerVars, callOf, Clients!vars,
           Clients!clientVars, Clients!breakerVars
  <2> QED
    BY <2>1, RequestImplementsClient DEF RecordedNext
<1> QED
    BY <1>1, <1>2, <1>3, RecordedStep, TypeCorrectness, PTL
    DEF RecordedSpec, RefinesBreakerClients, Clients!Spec

-----------------------------------------------------------------------------
(* What is proved of the clients, of infer.                                 *)

Breaker == INSTANCE BreakerClients_proof WITH call <- callOf

LEMMA SameClients == Clients!Spec => Breaker!Spec
<1>1. \A S : Clients!Cardinality(S) = Breaker!Cardinality(S)
    BY DEF Clients!Cardinality, Breaker!Cardinality
<1>2. /\ Clients!StillOpen <=> Breaker!StillOpen
      /\ Clients!IsOpen <=> Breaker!IsOpen
      /\ Clients!RetryAfterSeconds = Breaker!RetryAfterSeconds
      /\ Clients!RecordSuccess <=> Breaker!RecordSuccess
      /\ \A c \in Calls : Clients!RecordFailure(c) <=> Breaker!RecordFailure(c)
      /\ Clients!Closed = Breaker!Closed
    BY <1>1
    DEF Clients!StillOpen, Breaker!StillOpen, Clients!IsOpen, Breaker!IsOpen,
        Clients!RecoveryDue, Breaker!RecoveryDue, Clients!RetryAfter, Breaker!RetryAfter,
        Clients!RetryAfterSeconds, Breaker!RetryAfterSeconds,
        Clients!RecordSuccess, Breaker!RecordSuccess,
        Clients!RecordFailure, Breaker!RecordFailure, Clients!InWindow, Breaker!InWindow,
        Clients!Open, Breaker!Open, Clients!Closed, Breaker!Closed,
        Clients!HalfOpen, Breaker!HalfOpen, Clients!breakerVars, Breaker!breakerVars
<1> USE <1>2 DEF Clients!breakerVars, Breaker!breakerVars, Clients!clientVars, Breaker!clientVars
<1>3. Clients!Init => Breaker!Init
    BY DEF Clients!Init, Breaker!Init, Clients!BreakerInit, Breaker!BreakerInit
<1>4. ASSUME NEW c \in Calls
      PROVE  /\ Clients!Admit(c) => Breaker!Admit(c)
             /\ Clients!Reject(c) => Breaker!Reject(c)
             /\ Clients!Fail(c) => Breaker!Fail(c)
             /\ Clients!Succeed(c) => Breaker!Succeed(c)
             /\ Clients!Abandon(c) => Breaker!Abandon(c)
    BY DEF Clients!Admit, Breaker!Admit, Clients!Reject, Breaker!Reject, Clients!Fail,
           Breaker!Fail, Clients!Succeed, Breaker!Succeed, Clients!Abandon, Breaker!Abandon
<1>5. /\ Clients!Health => Breaker!Health
      /\ Clients!Restart => Breaker!Restart
      /\ Clients!Tick => Breaker!Tick
    BY DEF Clients!Health, Breaker!Health, Clients!Restart, Breaker!Restart, Clients!Tick,
           Breaker!Tick
<1>6. [Clients!Next]_(Clients!vars) => [Breaker!Next]_(Breaker!vars)
    BY <1>4, <1>5 DEF Clients!Next, Breaker!Next, Clients!vars, Breaker!vars
<1> QED
    BY <1>3, <1>6, PTL DEF Clients!Spec, Breaker!Spec

\* Behind every opening of the circuit are FailureThreshold failures of the provider
\* in one window, and the breaker's fields agree with each other, in infer with all
\* its faults.
THEOREM BreakerOfInferIsSound == RecordedSpec => []Breaker!BreakerInv
<1>1. Breaker!Spec => []Breaker!BreakerInv
    BY Breaker!BreakerInvariant, BreakerAssumption
<1> QED
    BY <1>1, SameClients, RequestsAreClients, PTL DEF RefinesBreakerClients

\* The breaker blocks infer for one recovery timeout from each time the threshold is
\* reached, and at no other time.
THEOREM InferIsBlockedAsPromised == RecordedSpec => Breaker!RefinesAbstractBreaker
<1>1. Breaker!Spec => Breaker!RefinesAbstractBreaker
    BY Breaker!BreakerKeepsItsPromise, BreakerAssumption
<1> QED
    BY <1>1, SameClients, RequestsAreClients, PTL DEF RefinesBreakerClients

\* retry_after_s of CircuitOpenError is short by less than a second.
THEOREM RefusalsAreHonest == RecordedSpec => Breaker!RetryAfterIsShortByLessThanASecond
<1>1. Breaker!Spec => Breaker!RetryAfterIsShortByLessThanASecond
    BY Breaker!RetryAfterIsHonest, BreakerAssumption
<1> QED
    BY <1>1, SameClients, RequestsAreClients, PTL DEF RefinesBreakerClients
=============================================================================

------------------------ MODULE InferenceService_proof ------------------------
(***************************************************************************)
(* Theorems about POST /v1/infer, for any number of requests and keys and  *)
(* any times.                                                              *)
(*                                                                         *)
(* Invariants, each inductive together with TypeOK.  Whatever the timing:  *)
(* Provenance, what the cache and the requests know about where an answer  *)
(* comes from; Gate, who has passed an open circuit; Blame, that each      *)
(* failure the breaker keeps is a failed request.  With Prompt: Schedule,  *)
(* how long each request has been where it is; Attention, that somebody    *)
(* works on what followers wait for until the first fault.                 *)
(***************************************************************************)
EXTENDS InferenceService, FiniteSetTheorems, TLAPS

-----------------------------------------------------------------------------
(* Types.                                                                   *)

\* The breaker's operations keep the types of its fields.
LEMMA IsOpenKeepsTypes ==
    ASSUME BreakerTypeOK, IsOpen, UNCHANGED now
    PROVE  BreakerTypeOK'
    BY DEF BreakerTypeOK, IsOpen, State, HalfOpen

LEMMA RecordFailureKeepsTypes ==
    ASSUME BreakerTypeOK, NEW c \in Calls, RecordFailure(c), UNCHANGED now
    PROVE  BreakerTypeOK'
<1> DEFINE reported == failures \cup {[call |-> c, at |-> now]}
<1>1. IsFiniteSet(reported) /\ reported \subseteq Failure
  <2>1. IsFiniteSet(failures) /\ failures \subseteq Failure /\ now \in Nat
    BY DEF BreakerTypeOK
  <2>2. IsFiniteSet(reported)
    BY <2>1, FS_AddElement
  <2> QED
    BY <2>1, <2>2 DEF Failure
<1>2. InWindow(reported) \in SUBSET reported
    BY DEF InWindow
<1>3. IsFiniteSet(InWindow(reported))
    BY <1>1, <1>2, FS_Subset
<1> QED
    BY <1>1, <1>2, <1>3 DEF BreakerTypeOK, RecordFailure, State, Open

LEMMA RecordSuccessKeepsTypes ==
    ASSUME BreakerTypeOK, RecordSuccess, UNCHANGED now
    PROVE  BreakerTypeOK'
<1>1. CASE state = HalfOpen
    BY <1>1, FS_EmptySet DEF BreakerTypeOK, RecordSuccess, State, Closed
<1>2. CASE state # HalfOpen
    BY <1>2 DEF BreakerTypeOK, RecordSuccess, breakerVars
<1> QED
    BY <1>1, <1>2

LEMMA InitEstablishesTypes == Init => TypeOK
    BY InferenceAssumption, NoneAssumption, FS_EmptySet
    DEF Init, BreakerInit, TypeOK, BreakerTypeOK, RedisTypeOK, RequestTypeOK, State, Closed, PC

LEMMA FaultKeepsTypes ==
    ASSUME faults \in 0 .. MaxFaults, NEW kind, Fault(kind)
    PROVE  faults' \in 0 .. MaxFaults
    BY InferenceAssumption, NoneAssumption DEF Fault

LEMMA StepKeepsTypes == TypeOK /\ [Next]_vars => TypeOK'
<1> SUFFICES ASSUME TypeOK, [Next]_vars PROVE TypeOK'
    OBVIOUS
<1>1. now \in Nat /\ LockTTL \in Nat /\ CacheTTL \in Nat
    BY InferenceAssumption, NoneAssumption DEF TypeOK, BreakerTypeOK
<1> USE DEF TypeOK, PC, Suspended, Ended, Requests, GoTo, Begin, Answer
<1>2. ASSUME NEW r \in Requests, Arrive(r) PROVE TypeOK'
  <2>1. BreakerTypeOK'
    BY <1>1, <1>2 DEF Arrive, BreakerTypeOK, breakerVars
  <2>2. RedisTypeOK'
    BY <1>1, <1>2 DEF Arrive, RedisTypeOK, redisVars
  <2>3. RequestTypeOK'
    BY <1>1, <1>2 DEF Arrive, RequestTypeOK
  <2>4. faults' \in 0 .. MaxFaults
    BY <1>1, <1>2 DEF Arrive
  <2> QED
    BY <2>1, <2>2, <2>3, <2>4
<1>3. ASSUME NEW r \in Requests, CacheGet(r) PROVE TypeOK'
  <2>1. BreakerTypeOK'
    BY <1>1, <1>3 DEF CacheGet, BreakerTypeOK, breakerVars
  <2>2. RedisTypeOK'
    BY <1>1, <1>3 DEF CacheGet, RedisTypeOK, redisVars
  <2>3. RequestTypeOK'
    BY <1>1, <1>3 DEF CacheGet, RedisTypeOK, RequestTypeOK, Entry
  <2>4. faults' \in 0 .. MaxFaults
    BY <1>1, <1>3 DEF CacheGet
  <2> QED
    BY <2>1, <2>2, <2>3, <2>4
<1>4. ASSUME NEW r \in Requests, CacheGetFails(r) PROVE TypeOK'
  <2>1. BreakerTypeOK'
    BY <1>1, <1>4 DEF CacheGetFails, BreakerTypeOK, breakerVars
  <2>2. RedisTypeOK'
    BY <1>1, <1>4 DEF CacheGetFails, RedisTypeOK, redisVars
  <2>3. RequestTypeOK'
    BY <1>1, <1>4 DEF CacheGetFails, RequestTypeOK
  <2>4. faults' \in 0 .. MaxFaults
    BY <1>1, <1>4, FaultKeepsTypes DEF CacheGetFails
  <2> QED
    BY <2>1, <2>2, <2>3, <2>4
<1>5. ASSUME NEW r \in Requests, CheckBreaker(r) PROVE TypeOK'
  <2>1. BreakerTypeOK'
    BY <1>1, <1>5, IsOpenKeepsTypes DEF CheckBreaker
  <2>2. RedisTypeOK'
    BY <1>1, <1>5 DEF CheckBreaker, RedisTypeOK, redisVars
  <2>3. RequestTypeOK'
    BY <1>1, <1>5 DEF CheckBreaker, RequestTypeOK
  <2>4. faults' \in 0 .. MaxFaults
    BY <1>1, <1>5 DEF CheckBreaker
  <2> QED
    BY <2>1, <2>2, <2>3, <2>4
<1>6. ASSUME NEW r \in Requests, TryAcquire(r) PROVE TypeOK'
  <2>1. BreakerTypeOK'
    BY <1>1, <1>6 DEF TryAcquire, BreakerTypeOK, breakerVars
  <2>2. RedisTypeOK'
    BY <1>1, <1>6 DEF TryAcquire, LockBy, RedisTypeOK, Entry
  <2>3. RequestTypeOK'
    BY <1>1, <1>6 DEF TryAcquire, RequestTypeOK
  <2>4. faults' \in 0 .. MaxFaults
    BY <1>1, <1>6 DEF TryAcquire
  <2> QED
    BY <2>1, <2>2, <2>3, <2>4
<1>7. ASSUME NEW r \in Requests, TryAcquireFails(r) PROVE TypeOK'
  <2>1. BreakerTypeOK'
    BY <1>1, <1>7 DEF TryAcquireFails, BreakerTypeOK, breakerVars
  <2>2. RedisTypeOK'
    BY <1>1, <1>7 DEF TryAcquireFails, LockBy, RedisTypeOK, Entry
  <2>3. RequestTypeOK'
    BY <1>1, <1>7 DEF TryAcquireFails, RequestTypeOK
  <2>4. faults' \in 0 .. MaxFaults
    BY <1>1, <1>7, FaultKeepsTypes DEF TryAcquireFails
  <2> QED
    BY <2>1, <2>2, <2>3, <2>4
<1>8. ASSUME NEW r \in Requests, Poll(r) PROVE TypeOK'
  <2>1. BreakerTypeOK'
    BY <1>1, <1>8 DEF Poll, BreakerTypeOK, breakerVars
  <2>2. RedisTypeOK'
    BY <1>1, <1>8 DEF Poll, RedisTypeOK, redisVars
  <2>3. RequestTypeOK'
    BY <1>1, <1>8 DEF Poll, RedisTypeOK, RequestTypeOK, Entry
  <2>4. faults' \in 0 .. MaxFaults
    BY <1>1, <1>8 DEF Poll
  <2> QED
    BY <2>1, <2>2, <2>3, <2>4
<1>9. ASSUME NEW r \in Requests, PollFails(r) PROVE TypeOK'
  <2>1. BreakerTypeOK'
    BY <1>1, <1>9 DEF PollFails, BreakerTypeOK, breakerVars
  <2>2. RedisTypeOK'
    BY <1>1, <1>9 DEF PollFails, RedisTypeOK, redisVars
  <2>3. RequestTypeOK'
    BY <1>1, <1>9 DEF PollFails, RequestTypeOK
  <2>4. faults' \in 0 .. MaxFaults
    BY <1>1, <1>9, FaultKeepsTypes DEF PollFails
  <2> QED
    BY <2>1, <2>2, <2>3, <2>4
<1>10. ASSUME NEW r \in Requests, WaitTimesOut(r) PROVE TypeOK'
  <2>1. BreakerTypeOK'
    BY <1>1, <1>10 DEF WaitTimesOut, BreakerTypeOK, breakerVars
  <2>2. RedisTypeOK'
    BY <1>1, <1>10 DEF WaitTimesOut, RedisTypeOK, redisVars
  <2>3. RequestTypeOK'
    BY <1>1, <1>10 DEF WaitTimesOut, RequestTypeOK
  <2>4. faults' \in 0 .. MaxFaults
    BY <1>1, <1>10 DEF WaitTimesOut
  <2> QED
    BY <2>1, <2>2, <2>3, <2>4
<1>11. ASSUME NEW r \in Requests, ProviderAnswers(r) PROVE TypeOK'
  <2>1. BreakerTypeOK'
    BY <1>1, <1>11, RecordSuccessKeepsTypes DEF ProviderAnswers
  <2>2. RedisTypeOK'
    BY <1>1, <1>11 DEF ProviderAnswers, RedisTypeOK, redisVars
  <2>3. RequestTypeOK'
    BY <1>1, <1>11 DEF ProviderAnswers, RequestTypeOK
  <2>4. faults' \in 0 .. MaxFaults
    BY <1>1, <1>11 DEF ProviderAnswers
  <2> QED
    BY <2>1, <2>2, <2>3, <2>4
<1>12. ASSUME NEW r \in Requests, ProviderFails(r) PROVE TypeOK'
  <2>1. BreakerTypeOK'
    BY <1>1, <1>12, RecordFailureKeepsTypes DEF ProviderFails
  <2>2. RedisTypeOK'
    BY <1>1, <1>12 DEF ProviderFails, RedisTypeOK, redisVars
  <2>3. RequestTypeOK'
    BY <1>1, <1>12 DEF ProviderFails, RequestTypeOK
  <2>4. faults' \in 0 .. MaxFaults
    BY <1>1, <1>12 DEF ProviderFails
  <2> QED
    BY <2>1, <2>2, <2>3, <2>4
<1>13. ASSUME NEW r \in Requests, CacheSet(r) PROVE TypeOK'
  <2>1. BreakerTypeOK'
    BY <1>1, <1>13 DEF CacheSet, BreakerTypeOK, breakerVars
  <2>2. RedisTypeOK'
    <3>1. [by |-> r, until |-> now + CacheTTL] \in Entry
      BY <1>1 DEF Entry
    <3> QED
      BY <1>13, <3>1 DEF CacheSet, StoreBy, RedisTypeOK
  <2>3. RequestTypeOK'
    BY <1>1, <1>13 DEF CacheSet, AfterStore, RequestTypeOK
  <2>4. faults' \in 0 .. MaxFaults
    BY <1>1, <1>13 DEF CacheSet
  <2> QED
    BY <2>1, <2>2, <2>3, <2>4
<1>14. ASSUME NEW r \in Requests, CacheSetFails(r) PROVE TypeOK'
  <2>1. BreakerTypeOK'
    BY <1>1, <1>14 DEF CacheSetFails, BreakerTypeOK, breakerVars
  <2>2. RedisTypeOK'
    BY <1>1, <1>14 DEF CacheSetFails, StoreBy, RedisTypeOK, Entry
  <2>3. RequestTypeOK'
    BY <1>1, <1>14 DEF CacheSetFails, AfterStore, RequestTypeOK
  <2>4. faults' \in 0 .. MaxFaults
    BY <1>1, <1>14, FaultKeepsTypes DEF CacheSetFails
  <2> QED
    BY <2>1, <2>2, <2>3, <2>4
<1>15. ASSUME NEW r \in Requests, Release(r) PROVE TypeOK'
  <2>1. BreakerTypeOK'
    BY <1>1, <1>15 DEF Release, BreakerTypeOK, breakerVars
  <2>2. RedisTypeOK'
    BY <1>1, <1>15 DEF Release, Unlock, RedisTypeOK
  <2>3. RequestTypeOK'
    BY <1>1, <1>15 DEF Release, RequestTypeOK
  <2>4. faults' \in 0 .. MaxFaults
    BY <1>1, <1>15 DEF Release
  <2> QED
    BY <2>1, <2>2, <2>3, <2>4
<1>16. ASSUME NEW r \in Requests, ReleaseFails(r) PROVE TypeOK'
  <2>1. BreakerTypeOK'
    BY <1>1, <1>16 DEF ReleaseFails, BreakerTypeOK, breakerVars
  <2>2. RedisTypeOK'
    BY <1>1, <1>16 DEF ReleaseFails, Unlock, RedisTypeOK
  <2>3. RequestTypeOK'
    BY <1>1, <1>16 DEF ReleaseFails, RequestTypeOK
  <2>4. faults' \in 0 .. MaxFaults
    BY <1>1, <1>16, FaultKeepsTypes DEF ReleaseFails
  <2> QED
    BY <2>1, <2>2, <2>3, <2>4
<1>17. ASSUME Crash PROVE TypeOK'
  <2>1. BreakerTypeOK'
    BY <1>1, <1>17, FS_EmptySet DEF Crash, BreakerTypeOK, State, Closed
  <2>2. RedisTypeOK'
    BY <1>1, <1>17 DEF Crash, RedisTypeOK, redisVars
  <2>3. RequestTypeOK'
    BY <1>1, <1>17 DEF Crash, RequestTypeOK
  <2>4. faults' \in 0 .. MaxFaults
    BY <1>1, <1>17, FaultKeepsTypes DEF Crash
  <2> QED
    BY <2>1, <2>2, <2>3, <2>4
<1>18. ASSUME RedisRestart PROVE TypeOK'
  <2>1. BreakerTypeOK'
    BY <1>1, <1>18 DEF RedisRestart, BreakerTypeOK, breakerVars
  <2>2. RedisTypeOK'
    BY <1>1, <1>18 DEF RedisRestart, RedisTypeOK
  <2>3. RequestTypeOK'
    BY <1>1, <1>18 DEF RedisRestart, requestVars, RequestTypeOK
  <2>4. faults' \in 0 .. MaxFaults
    BY <1>1, <1>18, FaultKeepsTypes DEF RedisRestart
  <2> QED
    BY <2>1, <2>2, <2>3, <2>4
<1>19. ASSUME Tick PROVE TypeOK'
  <2>1. BreakerTypeOK'
    BY <1>1, <1>19 DEF Tick, BreakerTypeOK, breakerVars
  <2>2. RedisTypeOK'
    BY <1>1, <1>19 DEF Tick, Expire, RedisTypeOK, Entry
  <2>3. RequestTypeOK'
    BY <1>1, <1>19 DEF Tick, requestVars, RequestTypeOK
  <2>4. faults' \in 0 .. MaxFaults
    BY <1>1, <1>19 DEF Tick
  <2> QED
    BY <2>1, <2>2, <2>3, <2>4
<1>20. ASSUME UNCHANGED vars PROVE TypeOK'
  <2>1. BreakerTypeOK'
    BY <1>1, <1>20 DEF vars, BreakerTypeOK, breakerVars
  <2>2. RedisTypeOK'
    BY <1>1, <1>20 DEF vars, RedisTypeOK, redisVars
  <2>3. RequestTypeOK'
    BY <1>1, <1>20 DEF vars, requestVars, RequestTypeOK
  <2>4. faults' \in 0 .. MaxFaults
    BY <1>1, <1>20 DEF vars
  <2> QED
    BY <2>1, <2>2, <2>3, <2>4
<1> QED
    BY <1>2, <1>3, <1>4, <1>5, <1>6, <1>7, <1>8, <1>9, <1>10, <1>11,
       <1>12, <1>13, <1>14, <1>15, <1>16, <1>17, <1>18, <1>19, <1>20
    DEF Next, Step, RedisFails

\* Every variable of the service keeps its type.
THEOREM TypeCorrectness == Spec => []TypeOK
    BY InitEstablishesTypes, StepKeepsTypes, PTL DEF Spec

-----------------------------------------------------------------------------
(* Where answers come from.                                                 *)

\* The inductive form of AnswersFitTheQuestion: a request has a source only
\* from the moment its own call, or a cached entry, has given it one.
Provenance ==
    /\ AnswersFitTheQuestion
    /\ \A r \in Requests :
        /\ pc[r] \in {"storing", "releasing"} => source[r] = r
        /\ pc[r] \in {"new", "lookup", "checking", "acquiring", "waiting", "calling",
                      "refused", "failed"} => source[r] = None

\* A request that takes over a cached entry becomes one more user of the call
\* that paid for it.
LEMMA CachedAnswerFits ==
    ASSUME TypeOK, Provenance, NEW r \in Requests, pc[r] \in {"lookup", "waiting"},
           cache[key[r]] # None, Answer(r, cache[key[r]].by), UNCHANGED <<key, cache>>
    PROVE  Provenance'
<1> DEFINE s == cache[key[r]].by
<1>1. /\ s \in Requests /\ key[r] \in Keys
      /\ key[s] = key[r] /\ source[s] = s /\ source[r] = None /\ s # r /\ s # None
    BY InferenceAssumption, NoneAssumption
    DEF Provenance, AnswersFitTheQuestion, TypeOK, RedisTypeOK, RequestTypeOK, Entry, Requests
<1>2. pc' = [pc EXCEPT ![r] = "answered"] /\ source' = [source EXCEPT ![r] = s]
    BY DEF Answer, GoTo
<1>3. \A q \in Requests :
        /\ pc'[q] = "answered" => source'[q] # None
        /\ source'[q] # None =>
             key[source'[q]] = key[q] /\ source'[source'[q]] = source'[q]
    BY <1>1, <1>2, InferenceAssumption, NoneAssumption
    DEF Provenance, AnswersFitTheQuestion, SameKey, TypeOK, RequestTypeOK
<1>4. \A k \in Keys : cache[k] # None =>
        key[cache[k].by] = k /\ source'[cache[k].by] = cache[k].by
    BY <1>1, <1>2
    DEF Provenance, AnswersFitTheQuestion, TypeOK, RedisTypeOK, RequestTypeOK, Entry
<1>5. \A q \in Requests :
        /\ pc'[q] \in {"storing", "releasing"} => source'[q] = q
        /\ pc'[q] \in {"new", "lookup", "checking", "acquiring", "waiting", "calling",
                       "refused", "failed"} => source'[q] = None
    BY <1>2 DEF Provenance, TypeOK, RequestTypeOK
<1> QED
    BY <1>3, <1>4, <1>5 DEF Provenance, AnswersFitTheQuestion, SameKey

LEMMA StepKeepsProvenance == TypeOK /\ Provenance /\ [Next]_vars => Provenance'
<1> SUFFICES ASSUME TypeOK, Provenance, [Next]_vars PROVE Provenance'
    OBVIOUS
<1> USE DEF Requests
<1>1. /\ pc \in [Requests -> PC]
      /\ source \in [Requests -> Requests \cup {None}]
      /\ key \in [Requests -> Keys \cup {None}]
      /\ cache \in [Keys -> Entry \cup {None}]
      /\ \A k \in Keys : cache[k] # None => cache[k].by \in Requests
      /\ \A r \in Requests : pc[r] # "new" => key[r] \in Keys
      /\ None \notin Requests
    BY InferenceAssumption, NoneAssumption DEF TypeOK, RedisTypeOK, RequestTypeOK, Entry
\* Steps that only move a request on, to a place where what Provenance says of
\* its source holds already.
<1>2. ASSUME NEW r \in Requests, NEW to,
             pc' = [pc EXCEPT ![r] = to], UNCHANGED <<source, key, cache>>,
             \/ /\ pc[r] \in {"lookup", "checking", "acquiring", "waiting", "calling"}
                /\ to \in {"checking", "acquiring", "waiting", "calling", "refused", "failed"}
             \/ /\ pc[r] \in {"storing", "releasing"}
                /\ to \in {"releasing", "answered"}
      PROVE  Provenance'
    BY <1>1, <1>2 DEF Provenance, AnswersFitTheQuestion, SameKey
<1>3. ASSUME NEW r \in Requests, Arrive(r) PROVE Provenance'
  <2>1. PICK k \in Keys : key' = [key EXCEPT ![r] = k]
    BY <1>3 DEF Arrive
  <2>2. /\ pc' = [pc EXCEPT ![r] = "lookup"] /\ UNCHANGED <<source, cache>>
        /\ source[r] = None
        /\ \A q \in Requests : source[q] # r
        /\ \A l \in Keys : cache[l] # None => cache[l].by # r
    BY <1>1, <1>3 DEF Arrive, GoTo, redisVars, Provenance, AnswersFitTheQuestion
  <2> QED
    BY <1>1, <2>1, <2>2 DEF Provenance, AnswersFitTheQuestion, SameKey
<1>4. ASSUME NEW r \in Requests, CacheGet(r) PROVE Provenance'
  <2>1. CASE cache[key[r]] # None
    BY <1>4, <2>1, CachedAnswerFits DEF CacheGet, redisVars
  <2>2. CASE cache[key[r]] = None
    BY <1>2, <1>4, <2>2 DEF CacheGet, GoTo, redisVars
  <2> QED
    BY <2>1, <2>2
<1>5. ASSUME NEW r \in Requests, CacheGetFails(r) PROVE Provenance'
    BY <1>2, <1>5 DEF CacheGetFails, GoTo, redisVars
<1>6. ASSUME NEW r \in Requests, CheckBreaker(r) PROVE Provenance'
    BY <1>2, <1>6 DEF CheckBreaker, GoTo, redisVars
<1>7. ASSUME NEW r \in Requests, TryAcquire(r) PROVE Provenance'
    BY <1>2, <1>7 DEF TryAcquire, Begin, GoTo
<1>8. ASSUME NEW r \in Requests, TryAcquireFails(r) PROVE Provenance'
    BY <1>2, <1>8 DEF TryAcquireFails, Begin, GoTo
<1>9. ASSUME NEW r \in Requests, Poll(r) PROVE Provenance'
    BY <1>9, CachedAnswerFits DEF Poll, redisVars
<1>10. ASSUME NEW r \in Requests, PollFails(r) PROVE Provenance'
    BY <1>2, <1>10 DEF PollFails, Begin, GoTo, redisVars
<1>11. ASSUME NEW r \in Requests, WaitTimesOut(r) PROVE Provenance'
    BY <1>2, <1>11 DEF WaitTimesOut, Begin, GoTo, redisVars
<1>12. ASSUME NEW r \in Requests, ProviderAnswers(r) PROVE Provenance'
  <2>1. /\ pc' = [pc EXCEPT ![r] = "storing"]
        /\ source' = [source EXCEPT ![r] = r]
        /\ UNCHANGED <<key, cache>>
        /\ source[r] = None
        /\ \A q \in Requests : source[q] # r
    BY <1>1, <1>12 DEF ProviderAnswers, GoTo, redisVars, Provenance, AnswersFitTheQuestion
  <2> QED
    BY <1>1, <2>1 DEF Provenance, AnswersFitTheQuestion, SameKey
<1>13. ASSUME NEW r \in Requests, ProviderFails(r) PROVE Provenance'
    BY <1>2, <1>13 DEF ProviderFails, GoTo, redisVars
<1>14. ASSUME NEW r \in Requests, CacheSet(r) \/ CacheSetFails(r) PROVE Provenance'
  <2>1. /\ source[r] = r /\ key[r] \in Keys
        /\ \E to \in {"releasing", "answered"} : pc' = [pc EXCEPT ![r] = to]
        /\ UNCHANGED <<source, key>>
    BY <1>1, <1>14 DEF CacheSet, CacheSetFails, AfterStore, GoTo, Provenance
  <2>2. CASE UNCHANGED cache
    BY <1>2, <1>14, <2>1, <2>2 DEF CacheSet, CacheSetFails
  <2>3. CASE StoreBy(r)
    <3>1. \A k \in Keys : cache'[k] # None =>
            key[cache'[k].by] = k /\ source[cache'[k].by] = cache'[k].by
      BY <1>1, <2>1, <2>3 DEF StoreBy, Provenance, AnswersFitTheQuestion
    <3>2. \A q \in Requests : pc'[q] = pc[q] \/ (q = r /\ pc'[q] \in {"releasing", "answered"})
      BY <1>1, <2>1
    <3>3. ASSUME NEW q \in Requests
          PROVE  /\ pc'[q] = "answered" => source[q] # None
                 /\ pc'[q] \in {"storing", "releasing"} => source[q] = q
                 /\ pc'[q] \in {"new", "lookup", "checking", "acquiring", "waiting",
                                "calling", "refused", "failed"} => source[q] = None
      <4>1. CASE pc'[q] = pc[q]
        BY <4>1 DEF Provenance, AnswersFitTheQuestion
      <4>2. CASE q = r /\ pc'[q] \in {"releasing", "answered"}
        BY <1>1, <2>1, <4>2
      <4> QED
        BY <3>2, <4>1, <4>2
    <3> QED
      BY <2>1, <3>1, <3>3 DEF Provenance, AnswersFitTheQuestion, SameKey
  <2> QED
    BY <1>14, <2>2, <2>3 DEF CacheSet, CacheSetFails
<1>15. ASSUME NEW r \in Requests, Release(r) \/ ReleaseFails(r) PROVE Provenance'
    BY <1>2, <1>15 DEF Release, ReleaseFails, GoTo
<1>16. ASSUME Crash PROVE Provenance'
    BY <1>1, <1>16
    DEF Crash, redisVars, Suspended, Provenance, AnswersFitTheQuestion, SameKey
<1>17. ASSUME RedisRestart \/ Tick PROVE Provenance'
  <2>1. /\ UNCHANGED <<pc, source, key>>
        /\ \A k \in Keys : cache'[k] # None => cache'[k] = cache[k]
    BY <1>17 DEF RedisRestart, Tick, Expire, requestVars
  <2> QED
    BY <1>1, <2>1 DEF Provenance, AnswersFitTheQuestion, SameKey
<1>18. ASSUME UNCHANGED vars PROVE Provenance'
    BY <1>18
    DEF vars, redisVars, requestVars, Provenance, AnswersFitTheQuestion, SameKey
<1> QED
    BY <1>3, <1>4, <1>5, <1>6, <1>7, <1>8, <1>9, <1>10, <1>11, <1>12, <1>13, <1>14, <1>15,
       <1>16, <1>17, <1>18 DEF Next, Step, RedisFails

LEMMA ProvenanceInvariant == Spec => [](TypeOK /\ Provenance)
<1>1. Init => Provenance
    BY InferenceAssumption, NoneAssumption DEF Init, Provenance, AnswersFitTheQuestion
<1> QED
    BY <1>1, InitEstablishesTypes, StepKeepsTypes, StepKeepsProvenance, PTL DEF Spec

\* No request is ever answered with the answer to another question, and the
\* cache never holds one, whatever Redis does and however late each step comes.
THEOREM AnswersAreRight == Spec => []AnswersFitTheQuestion
<1>1. Provenance => AnswersFitTheQuestion
    BY DEF Provenance
<1> QED
    BY <1>1, ProvenanceInvariant, PTL

-----------------------------------------------------------------------------
(* The service implements AbstractInference.                                *)

\* The refinement mapping.
AbsEnd == [r \in Requests |-> IF pc[r] \in Suspended THEN "pending" ELSE pc[r]]
AbsPaid == {r \in Requests : source[r] = r}
AbsSource == [r \in Requests |-> IF pc[r] = "answered" THEN source[r] ELSE None]

\* A step inside a request that is pending before and after is a stutter.
LEMMA MovingOnIsStuttering ==
    ASSUME TypeOK, NEW r \in Requests, pc[r] \in Suspended, NEW to \in Suspended,
           pc' = [pc EXCEPT ![r] = to], UNCHANGED <<key, source>>
    PROVE  UNCHANGED Promise!abstractVars
<1>1. AbsEnd' = AbsEnd
    BY DEF AbsEnd, TypeOK, RequestTypeOK
<1>2. AbsSource' = AbsSource
    BY DEF AbsSource, TypeOK, RequestTypeOK, Suspended
<1>3. AbsPaid' = AbsPaid
    BY DEF AbsPaid
<1> QED
    BY <1>1, <1>2, <1>3 DEF Promise!abstractVars, AbsEnd, AbsPaid, AbsSource

LEMMA AnsweringImplementsAnswer ==
    ASSUME TypeOK, NEW r \in Requests, NEW s \in Requests, pc[r] \in Suspended,
           pc' = [pc EXCEPT ![r] = "answered"], source' = [source EXCEPT ![r] = s],
           UNCHANGED key, source[s] = s, key[s] = key[r], source[r] \in {r, None},
           source[r] = r => s = r
    PROVE  Promise!Answer(r, s)
<1>1. r # None
    BY InferenceAssumption, NoneAssumption DEF Requests
<1>2. AbsEnd[r] = "pending" /\ AbsEnd' = [AbsEnd EXCEPT ![r] = "answered"]
    BY DEF AbsEnd, TypeOK, RequestTypeOK, Suspended
<1>3. AbsSource' = [AbsSource EXCEPT ![r] = s]
    BY DEF AbsSource, TypeOK, RequestTypeOK
<1>4. s \in AbsPaid /\ AbsPaid' = AbsPaid /\ (r \in AbsPaid => s = r)
    BY <1>1 DEF AbsPaid, TypeOK, RequestTypeOK
<1> QED
    BY <1>2, <1>3, <1>4 DEF Promise!Answer, AbsEnd, AbsPaid, AbsSource

LEMMA DecliningImplementsDecline ==
    ASSUME TypeOK, Provenance, NEW r \in Requests, NEW how \in {"refused", "failed"},
           pc[r] \in {"checking", "calling"}, pc' = [pc EXCEPT ![r] = how],
           UNCHANGED <<key, source>>
    PROVE  Promise!Decline(r, how)
<1>1. AbsEnd[r] = "pending" /\ AbsEnd' = [AbsEnd EXCEPT ![r] = how]
    BY DEF AbsEnd, TypeOK, RequestTypeOK, Suspended
<1>2. AbsSource' = AbsSource
    BY DEF AbsSource, TypeOK, RequestTypeOK
<1>3. r \notin AbsPaid /\ AbsPaid' = AbsPaid
    BY InferenceAssumption, NoneAssumption DEF AbsPaid, Provenance, Requests
<1> QED
    BY <1>1, <1>2, <1>3 DEF Promise!Decline, AbsEnd, AbsPaid, AbsSource

LEMMA StepImplementsStep ==
    TypeOK /\ Provenance /\ [Next]_vars => [Promise!Next]_(Promise!abstractVars)
<1> SUFFICES ASSUME TypeOK, Provenance, [Next]_vars
             PROVE  Promise!Next \/ UNCHANGED Promise!abstractVars
    OBVIOUS
<1> DEFINE Implemented == Promise!Next \/ UNCHANGED Promise!abstractVars
<1>1. /\ pc \in [Requests -> PC]
      /\ source \in [Requests -> Requests \cup {None}]
      /\ \A k \in Keys : cache[k] # None => cache[k].by \in Requests
      /\ \A r \in Requests : pc[r] # "new" => key[r] \in Keys
      /\ None \notin Requests
    BY InferenceAssumption, NoneAssumption DEF TypeOK, RedisTypeOK, RequestTypeOK, Entry, Requests
<1>2. ASSUME NEW r \in Requests, pc[r] \in Suspended, NEW to \in Suspended,
             pc' = [pc EXCEPT ![r] = to], UNCHANGED <<key, source>>
      PROVE  Implemented
    BY <1>2, MovingOnIsStuttering
<1>3. ASSUME NEW r \in Requests, NEW s \in Requests, Promise!Answer(r, s)
      PROVE  Implemented
    BY <1>3 DEF Promise!Next
<1>4. ASSUME NEW r \in Requests, Arrive(r) PROVE Implemented
  <2>1. PICK k \in Keys : key' = [key EXCEPT ![r] = k]
    BY <1>4 DEF Arrive
  <2>2. AbsEnd[r] = "new" /\ AbsEnd' = [AbsEnd EXCEPT ![r] = "pending"]
    BY <1>1, <1>4 DEF Arrive, GoTo, AbsEnd, Suspended
  <2>3. AbsSource' = AbsSource /\ AbsPaid' = AbsPaid
    BY <1>1, <1>4 DEF Arrive, GoTo, AbsSource, AbsPaid
  <2>4. Promise!Ask(r, k)
    BY <2>1, <2>2, <2>3 DEF Promise!Ask, AbsEnd, AbsPaid, AbsSource
  <2> QED
    BY <2>4 DEF Promise!Next
<1>5. ASSUME NEW r \in Requests, CacheGet(r) \/ Poll(r), cache[key[r]] # None
      PROVE  Implemented
  <2>1. PICK s \in Requests : s = cache[key[r]].by
    BY <1>1, <1>5 DEF CacheGet, Poll
  <2>2. key[s] = key[r] /\ source[s] = s /\ source[r] = None
    BY <1>1, <1>5, <2>1 DEF CacheGet, Poll, Provenance, AnswersFitTheQuestion
  <2>3. /\ pc[r] \in Suspended
        /\ pc' = [pc EXCEPT ![r] = "answered"]
        /\ source' = [source EXCEPT ![r] = s]
        /\ UNCHANGED key
    BY <1>5, <2>1 DEF CacheGet, Poll, Answer, GoTo, Suspended
  <2>4. Promise!Answer(r, s)
    BY <1>1, <2>2, <2>3, AnsweringImplementsAnswer
  <2> QED
    BY <1>3, <2>4
<1>6. ASSUME NEW r \in Requests, CacheGet(r), cache[key[r]] = None PROVE Implemented
    BY <1>2, <1>6 DEF CacheGet, GoTo, Suspended
<1>7. ASSUME NEW r \in Requests, CacheGetFails(r) PROVE Implemented
    BY <1>2, <1>7 DEF CacheGetFails, GoTo, Suspended
<1>8. ASSUME NEW r \in Requests, CheckBreaker(r) PROVE Implemented
  <2>1. CASE StillOpen
    <3>1. Promise!Decline(r, "refused")
      BY <1>8, <2>1, DecliningImplementsDecline DEF CheckBreaker, GoTo
    <3> QED
      BY <3>1 DEF Promise!Next
  <2>2. CASE ~StillOpen
    BY <1>2, <1>8, <2>2 DEF CheckBreaker, GoTo, Suspended
  <2> QED
    BY <2>1, <2>2
<1>9. ASSUME NEW r \in Requests, TryAcquire(r) PROVE Implemented
    BY <1>2, <1>9 DEF TryAcquire, Begin, GoTo, Suspended
<1>10. ASSUME NEW r \in Requests, TryAcquireFails(r) PROVE Implemented
    BY <1>2, <1>10 DEF TryAcquireFails, Begin, GoTo, Suspended
<1>11. ASSUME NEW r \in Requests, PollFails(r) PROVE Implemented
    BY <1>2, <1>11 DEF PollFails, Begin, GoTo, Suspended
<1>12. ASSUME NEW r \in Requests, WaitTimesOut(r) PROVE Implemented
    BY <1>2, <1>12 DEF WaitTimesOut, Begin, GoTo, Suspended
<1>13. ASSUME NEW r \in Requests, ProviderAnswers(r) PROVE Implemented
  <2>1. AbsEnd[r] = "pending" /\ AbsEnd' = AbsEnd
    BY <1>1, <1>13 DEF ProviderAnswers, GoTo, AbsEnd, Suspended
  <2>2. AbsSource' = AbsSource
    BY <1>1, <1>13 DEF ProviderAnswers, GoTo, AbsSource
  <2>3. r \notin AbsPaid /\ AbsPaid' = AbsPaid \cup {r}
    BY <1>1, <1>13 DEF ProviderAnswers, Provenance, AbsPaid
  <2>4. Promise!Pay(r)
    BY <1>13, <2>1, <2>2, <2>3
    DEF ProviderAnswers, Promise!Pay, AbsEnd, AbsPaid, AbsSource
  <2> QED
    BY <2>4 DEF Promise!Next
<1>14. ASSUME NEW r \in Requests, ProviderFails(r) PROVE Implemented
  <2>1. Promise!Decline(r, "failed")
    BY <1>14, DecliningImplementsDecline DEF ProviderFails, GoTo
  <2> QED
    BY <2>1 DEF Promise!Next
<1>15. ASSUME NEW r \in Requests,
              CacheSet(r) \/ CacheSetFails(r) \/ Release(r) \/ ReleaseFails(r)
       PROVE  Implemented
  <2>1. /\ pc[r] \in Suspended /\ source[r] = r
        /\ UNCHANGED <<key, source>>
        /\ \/ pc' = [pc EXCEPT ![r] = "releasing"]
           \/ pc' = [pc EXCEPT ![r] = "answered"]
    BY <1>15
    DEF CacheSet, CacheSetFails, Release, ReleaseFails, AfterStore, GoTo, Suspended, Provenance
  <2>2. CASE pc' = [pc EXCEPT ![r] = "releasing"]
    BY <1>2, <2>1, <2>2 DEF Suspended
  <2>3. CASE pc' = [pc EXCEPT ![r] = "answered"]
    <3>1. source' = [source EXCEPT ![r] = r]
      BY <1>1, <2>1
    <3>2. Promise!Answer(r, r)
      BY <2>1, <2>3, <3>1, AnsweringImplementsAnswer
    <3> QED
      BY <1>3, <3>2
  <2> QED
    BY <2>1, <2>2, <2>3
<1>16. ASSUME Crash PROVE Implemented
  <2>1. AbsEnd' = [r \in Requests |-> IF AbsEnd[r] = "pending" THEN "lost" ELSE AbsEnd[r]]
    BY <1>1, <1>16 DEF Crash, AbsEnd, Suspended, PC, Ended
  <2>2. AbsSource' = AbsSource /\ AbsPaid' = AbsPaid
    BY <1>1, <1>16 DEF Crash, AbsSource, AbsPaid, Suspended
  <2>3. Promise!Lose
    BY <1>16, <2>1, <2>2 DEF Crash, Promise!Lose, AbsEnd, AbsPaid, AbsSource
  <2> QED
    BY <2>3 DEF Promise!Next
<1>17. ASSUME RedisRestart \/ Tick \/ UNCHANGED vars PROVE Implemented
  <2>1. UNCHANGED <<pc, key, source>>
    BY <1>17 DEF RedisRestart, Tick, vars, requestVars
  <2> QED
    BY <2>1 DEF Promise!abstractVars
<1> QED
    BY <1>4, <1>5, <1>6, <1>7, <1>8, <1>9, <1>10, <1>11, <1>12, <1>13, <1>14, <1>15, <1>16,
       <1>17 DEF Next, Step, RedisFails, Poll

\* Cache, lock, breaker and polling together do what AbstractInference promises:
\* each request ends once, with the answer of one adapter call for its key, and
\* never fails after its own call returned one.
THEOREM ServiceKeepsItsPromise == Spec => RefinesAbstractInference
<1>1. Init => Promise!Init
  <2> SUFFICES ASSUME Init PROVE Promise!Init
    OBVIOUS
  <2>1. \A r \in Requests : pc[r] = "new" /\ source[r] = None /\ None # r
    BY InferenceAssumption, NoneAssumption DEF Init, Requests
  <2> QED
    BY <2>1 DEF Init, Promise!Init, Suspended
<1> QED
    BY <1>1, StepImplementsStep, ProvenanceInvariant, PTL
    DEF Spec, RefinesAbstractInference, Promise!Spec

-----------------------------------------------------------------------------
(* How long a request takes.                                                *)

\* The inductive form of AnsweredInTime: a request is looked up, checked and
\* collapsed the moment it arrives, waits no longer than WaitTimeout and calls
\* the adapter no longer than MaxCallTime, once each.
Schedule ==
    \A r \in Requests :
        /\ pc[r] \in {"lookup", "checking", "acquiring"} => arrived[r] = now
        /\ pc[r] = "waiting" => since[r] = arrived[r] /\ now - since[r] <= WaitTimeout
        /\ pc[r] \in {"calling", "storing", "releasing"} =>
            /\ since[r] \in Nat
            /\ since[r] - arrived[r] <= WaitTimeout
            /\ now - since[r] <= MaxCallTime

LEMMA StepKeepsSchedule ==
    ASSUME Prompt
    PROVE  TypeOK /\ Schedule /\ [Next]_vars => Schedule'
<1> SUFFICES ASSUME TypeOK, Schedule, [Next]_vars PROVE Schedule'
    OBVIOUS
<1> USE DEF Requests, GoTo, Begin, Answer
<1>1. /\ now \in Nat /\ WaitTimeout \in Nat /\ MaxCallTime \in Nat
      /\ pc \in [Requests -> PC]
      /\ arrived \in [Requests -> Nat \cup {None}]
      /\ since \in [Requests -> Nat \cup {None}]
      /\ \A r \in Requests : pc[r] # "new" => arrived[r] \in Nat
      /\ \A r \in Requests : pc[r] \in {"waiting", "calling"} => since[r] \in Nat
    BY InferenceAssumption, NoneAssumption DEF TypeOK, BreakerTypeOK, RequestTypeOK
\* Steps to a place where the request stays on its schedule without the clock.
<1>2. ASSUME NEW r \in Requests, NEW to, pc' = [pc EXCEPT ![r] = to],
             UNCHANGED <<now, arrived, since>>,
             \/ pc[r] \in {"lookup", "checking"} /\ to \in {"checking", "acquiring"}
             \/ pc[r] \in {"calling", "storing"} /\ to \in {"storing", "releasing"}
             \/ to \in Ended
      PROVE  Schedule'
  <2> SUFFICES ASSUME NEW q \in Requests
               PROVE  /\ pc'[q] \in {"lookup", "checking", "acquiring"} => arrived[q] = now
                      /\ pc'[q] = "waiting" =>
                            since[q] = arrived[q] /\ now - since[q] <= WaitTimeout
                      /\ pc'[q] \in {"calling", "storing", "releasing"} =>
                            /\ since[q] \in Nat
                            /\ since[q] - arrived[q] <= WaitTimeout
                            /\ now - since[q] <= MaxCallTime
    BY <1>2 DEF Schedule
  <2>1. CASE q # r
    BY <1>1, <1>2, <2>1 DEF Schedule
  <2>2. CASE q = r
    BY <1>1, <1>2, <2>2 DEF Schedule, Ended
  <2> QED
    BY <2>1, <2>2
\* The beginning of a wait or of a call.
<1>3. ASSUME NEW r \in Requests, NEW to \in {"waiting", "calling"},
             pc' = [pc EXCEPT ![r] = to], since' = [since EXCEPT ![r] = now],
             UNCHANGED <<now, arrived>>,
             pc[r] = "acquiring" \/ (pc[r] = "waiting" /\ to = "calling")
      PROVE  Schedule'
  <2>1. now - arrived[r] <= WaitTimeout /\ (pc[r] = "acquiring" => arrived[r] = now)
    BY <1>1, <1>3 DEF Schedule
  <2> QED
    BY <1>1, <1>3, <2>1 DEF Schedule
<1>4. ASSUME NEW r \in Requests, Arrive(r) PROVE Schedule'
    BY <1>1, <1>4 DEF Arrive, Schedule
<1>5. ASSUME NEW r \in Requests, CacheGet(r) \/ CacheGetFails(r) \/ CheckBreaker(r)
      PROVE  Schedule'
    BY <1>2, <1>5 DEF CacheGet, CacheGetFails, CheckBreaker, Ended
<1>6. ASSUME NEW r \in Requests, TryAcquire(r) \/ TryAcquireFails(r) PROVE Schedule'
    BY <1>3, <1>6 DEF TryAcquire, TryAcquireFails
<1>7. ASSUME NEW r \in Requests, Poll(r) PROVE Schedule'
    BY <1>2, <1>7 DEF Poll, Ended
<1>8. ASSUME NEW r \in Requests, PollFails(r) \/ WaitTimesOut(r) PROVE Schedule'
    BY <1>3, <1>8 DEF PollFails, WaitTimesOut
<1>9. ASSUME NEW r \in Requests, ProviderAnswers(r) \/ ProviderFails(r) PROVE Schedule'
    BY <1>2, <1>9 DEF ProviderAnswers, ProviderFails, Ended
<1>10. ASSUME NEW r \in Requests, CacheSet(r) \/ CacheSetFails(r) PROVE Schedule'
    BY <1>2, <1>10 DEF CacheSet, CacheSetFails, AfterStore, Ended
<1>11. ASSUME NEW r \in Requests, Release(r) \/ ReleaseFails(r) PROVE Schedule'
    BY <1>2, <1>11 DEF Release, ReleaseFails, Ended
<1>12. ASSUME Crash PROVE Schedule'
    BY <1>1, <1>12 DEF Crash, Schedule, Suspended
<1>13. ASSUME Tick PROVE Schedule'
  <2>1. /\ now' = now + 1
        /\ UNCHANGED <<pc, arrived, since>>
        /\ \A r \in Requests : pc[r] = "calling" => now - since[r] < MaxCallTime
        /\ \A r \in Requests : ~HasStepPending(r)
    BY <1>13 DEF Tick, requestVars
  <2>2. ASSUME NEW r \in Requests
        PROVE  /\ pc[r] \notin {"lookup", "checking", "acquiring", "storing", "releasing"}
               /\ pc[r] = "waiting" => now - since[r] < WaitTimeout
    BY <1>1, <2>1 DEF HasStepPending, WaitOver, Suspended
  <2> QED
    BY <1>1, <2>1, <2>2 DEF Schedule
<1>14. ASSUME RedisRestart \/ UNCHANGED vars PROVE Schedule'
    BY <1>14 DEF RedisRestart, vars, requestVars, Schedule
<1> QED
    BY <1>4, <1>5, <1>6, <1>7, <1>8, <1>9, <1>10, <1>11, <1>12, <1>13, <1>14
    DEF Next, Step, RedisFails

\* However leaders fail, Redis misbehaves and the breaker moves, a request is at
\* an end after one whole wait and one whole adapter call, as long as the other
\* steps take no time to speak of.
THEOREM RequestsAreAnsweredInTime ==
    ASSUME Prompt
    PROVE  Spec => []AnsweredInTime
<1>1. Init => Schedule
    BY DEF Init, Schedule
<1>2. TypeOK /\ Schedule => AnsweredInTime
    BY InferenceAssumption, NoneAssumption
    DEF TypeOK, BreakerTypeOK, RequestTypeOK, Schedule, AnsweredInTime, Suspended
<1>3. Spec => [](TypeOK /\ Schedule)
    BY <1>1, InitEstablishesTypes, StepKeepsTypes, StepKeepsSchedule, PTL DEF Spec
<1> QED
    BY <1>2, <1>3, PTL

-----------------------------------------------------------------------------
(* The breaker as the gate of the adapter.                                  *)

\* A request that has passed the check while the circuit is open arrived before
\* the circuit opened, or in the same instant.
Gate ==
    \A r \in Requests :
        /\ pc[r] # "new" => arrived[r] <= now
        /\ pc[r] \in {"acquiring", "waiting"} /\ StillOpen => arrived[r] <= openedAt

\* Unless a failure has just opened the circuit, a circuit that is open after a
\* step was open before it.
LEMMA OpenWasOpen ==
    ASSUME TypeOK, now' \in Nat, now' >= now, StillOpen',
           IsOpen \/ RecordSuccess \/ UNCHANGED breakerVars
    PROVE  StillOpen /\ openedAt' = openedAt
<1>1. state' = Open /\ openedAt' # None /\ now' - openedAt' < RecoveryTimeout
    BY DEF StillOpen
<1>2. state = Open /\ openedAt' = openedAt
    BY <1>1 DEF IsOpen, RecordSuccess, breakerVars, Open, Closed, HalfOpen
<1>3. now \in Nat /\ openedAt \in Nat
    BY <1>1, <1>2 DEF TypeOK, BreakerTypeOK
<1>4. now' - openedAt < RecoveryTimeout /\ RecoveryTimeout \in Nat
    BY <1>1, <1>2, BreakerAssumption
<1>5. \A m, n, o, t \in Nat : n >= m /\ n - o < t => m - o < t
    OBVIOUS
<1>6. now - openedAt < RecoveryTimeout
    BY <1>3, <1>4, <1>5
<1> QED
    BY <1>1, <1>2, <1>6 DEF StillOpen

LEMMA StepKeepsGate == TypeOK /\ Gate /\ [Next]_vars => Gate'
<1> SUFFICES ASSUME TypeOK, Gate, [Next]_vars PROVE Gate'
    OBVIOUS
<1> USE DEF Requests, GoTo, Begin, Answer
<1>1. /\ now \in Nat
      /\ pc \in [Requests -> PC]
      /\ arrived \in [Requests -> Nat \cup {None}]
      /\ \A r \in Requests : pc[r] # "new" => arrived[r] \in Nat
    BY DEF TypeOK, BreakerTypeOK, RequestTypeOK
\* Steps of a request that has been checked, or is not going to be let through.
<1>2. ASSUME NEW r \in Requests, NEW to, pc' = [pc EXCEPT ![r] = to], pc[r] # "new",
             to \in {"acquiring", "waiting"} => pc[r] = "acquiring",
             UNCHANGED <<now, arrived>>,
             IsOpen \/ RecordSuccess \/ UNCHANGED breakerVars
      PROVE  Gate'
  <2>1. StillOpen' => StillOpen /\ openedAt' = openedAt
    BY <1>1, <1>2, OpenWasOpen
  <2> QED
    BY <1>1, <1>2, <2>1 DEF Gate
<1>3. ASSUME NEW r \in Requests, Arrive(r) PROVE Gate'
  <2>1. /\ pc' = [pc EXCEPT ![r] = "lookup"]
        /\ arrived' = [arrived EXCEPT ![r] = now]
        /\ UNCHANGED <<now, state, openedAt>>
    BY <1>3 DEF Arrive, breakerVars
  <2> QED
    BY <1>1, <2>1 DEF Gate, StillOpen
<1>4. ASSUME NEW r \in Requests, CheckBreaker(r) PROVE Gate'
  <2>1. CASE StillOpen
    BY <1>2, <1>4, <2>1 DEF CheckBreaker
  <2>2. CASE ~StillOpen
    <3>1. ~StillOpen'
      BY <1>1, <1>4, <2>2, OpenWasOpen DEF CheckBreaker
    <3> QED
      BY <1>1, <1>4, <3>1 DEF CheckBreaker, Gate
  <2> QED
    BY <2>1, <2>2
<1>5. ASSUME NEW r \in Requests, CacheGet(r) \/ CacheGetFails(r) PROVE Gate'
    BY <1>2, <1>5 DEF CacheGet, CacheGetFails
<1>6. ASSUME NEW r \in Requests, TryAcquire(r) \/ TryAcquireFails(r) PROVE Gate'
    BY <1>2, <1>6 DEF TryAcquire, TryAcquireFails
<1>7. ASSUME NEW r \in Requests, Poll(r) \/ PollFails(r) \/ WaitTimesOut(r) PROVE Gate'
    BY <1>2, <1>7 DEF Poll, PollFails, WaitTimesOut
<1>8. ASSUME NEW r \in Requests, ProviderAnswers(r) PROVE Gate'
    BY <1>2, <1>8 DEF ProviderAnswers
<1>9. ASSUME NEW r \in Requests, ProviderFails(r) PROVE Gate'
  <2>1. openedAt' = now \/ (openedAt' = openedAt /\ state' = state)
    BY <1>9 DEF ProviderFails, RecordFailure
  <2>2. pc' = [pc EXCEPT ![r] = "failed"] /\ UNCHANGED <<now, arrived>>
    BY <1>9 DEF ProviderFails
  <2>3. StillOpen' => openedAt' = now \/ (StillOpen /\ openedAt' = openedAt)
    BY <2>1, <2>2 DEF StillOpen
  <2>4. \A q \in Requests : q # r => pc'[q] = pc[q]
    BY <2>2
  <2>5. pc'[r] = "failed" /\ pc[r] # "new"
    BY <1>1, <1>9, <2>2 DEF ProviderFails
  <2>6. \A q \in Requests : pc'[q] # "new" => arrived[q] <= now
    BY <2>4, <2>5 DEF Gate
  <2>7. \A q \in Requests :
          pc'[q] \in {"acquiring", "waiting"} /\ StillOpen' => arrived[q] <= openedAt'
    BY <2>3, <2>4, <2>5, <2>6 DEF Gate
  <2> QED
    BY <2>2, <2>6, <2>7 DEF Gate
<1>10. ASSUME NEW r \in Requests, CacheSet(r) \/ CacheSetFails(r) PROVE Gate'
    BY <1>2, <1>10 DEF CacheSet, CacheSetFails, AfterStore
<1>11. ASSUME NEW r \in Requests, Release(r) \/ ReleaseFails(r) PROVE Gate'
    BY <1>2, <1>11 DEF Release, ReleaseFails
<1>12. ASSUME Crash PROVE Gate'
    BY <1>1, <1>12 DEF Crash, Gate, StillOpen, Suspended, Open, Closed
<1>13. ASSUME RedisRestart \/ Tick \/ UNCHANGED vars PROVE Gate'
  <2>1. UNCHANGED <<pc, arrived, breakerVars>> /\ now' \in {now, now + 1}
    BY <1>13 DEF RedisRestart, Tick, vars, requestVars
  <2>2. StillOpen' => StillOpen /\ openedAt' = openedAt
    BY <1>1, <2>1, OpenWasOpen
  <2> QED
    BY <1>1, <2>1, <2>2 DEF Gate
<1> QED
    BY <1>3, <1>4, <1>5, <1>6, <1>7, <1>8, <1>9, <1>10, <1>11, <1>12, <1>13
    DEF Next, Step, RedisFails

LEMMA OnlyTheCheckedCall ==
    TypeOK /\ Gate /\ [Next]_vars =>
        \A r \in Requests :
            pc[r] # "calling" /\ pc'[r] = "calling" /\ StillOpen => arrived[r] <= openedAt
<1> SUFFICES ASSUME TypeOK, Gate, [Next]_vars, NEW r \in Requests,
                    pc[r] # "calling", pc'[r] = "calling", StillOpen
             PROVE  arrived[r] <= openedAt
    OBVIOUS
<1>1. pc \in [Requests -> PC]
    BY DEF TypeOK, RequestTypeOK
<1>2. pc[r] \in {"acquiring", "waiting"}
    BY <1>1
    DEF Next, Step, RedisFails, Arrive, CacheGet, CacheGetFails, CheckBreaker, TryAcquire,
        TryAcquireFails, Poll, PollFails, WaitTimesOut, ProviderAnswers, ProviderFails,
        CacheSet, CacheSetFails, AfterStore, Release, ReleaseFails, Crash, RedisRestart, Tick,
        Begin, GoTo, Answer, vars, requestVars, Requests
<1> QED
    BY <1>2 DEF Gate

\* Whatever happens between its check and its call (a wait for the lock, a
\* failed Redis command, the clock), no request that arrives while the circuit
\* is open reaches the provider before the circuit lets someone through.
THEOREM OpenCircuitKeepsNewcomersOut == Spec => NoNewcomerCallsAnOpenCircuit
<1>1. Init => Gate
    BY DEF Init, Gate
<1>2. Spec => [](TypeOK /\ Gate)
    BY <1>1, InitEstablishesTypes, StepKeepsTypes, StepKeepsGate, PTL DEF Spec
<1> QED
    BY <1>2, OnlyTheCheckedCall, PTL DEF Spec, NoNewcomerCallsAnOpenCircuit

-----------------------------------------------------------------------------
(* Who opens the circuit.                                                   *)

FailedCalls == {r \in Requests : pc[r] = "failed"}

\* Each failure the breaker keeps stands for a request of its own that failed.
Blame ==
    /\ IsFiniteSet(FailedCalls)
    /\ \A f \in failures : pc[f.call] = "failed"
    /\ \A f, g \in failures : f.call = g.call => f = g
    /\ OnlyTheProviderOpensTheCircuit

\* So there are no more failures than failed requests.
LEMMA FailuresAreFailedCalls ==
    ASSUME NEW fs, NEW rs, IsFiniteSet(rs), \A f \in fs : f.call \in rs,
           \A f, g \in fs : f.call = g.call => f = g
    PROVE  IsFiniteSet(fs) /\ Cardinality(fs) <= Cardinality(rs)
<1> DEFINE callOf == [f \in fs |-> f.call]
<1>1. callOf \in [fs -> rs]
    OBVIOUS
<1>2. \A f, g \in fs : callOf[f] = callOf[g] => f = g
    OBVIOUS
<1>3. callOf \in Injection(fs, rs)
    BY <1>1, <1>2 DEF Injection, IsInjective
<1> QED
    BY <1>3, FS_Injection

\* A step after which the failures are among those before, and nobody has failed.
LEMMA BlameStays ==
    ASSUME TypeOK, Blame, failures' \subseteq failures, FailedCalls' = FailedCalls,
           openedAt' \in {openedAt, None}
    PROVE  Blame'
<1>1. \A f \in failures : f.call \in FailedCalls
    BY DEF Blame, FailedCalls, TypeOK, BreakerTypeOK, Failure, Requests
<1>2. \A f \in failures' : pc'[f.call] = "failed"
    BY <1>1 DEF FailedCalls
<1>3. OnlyTheProviderOpensTheCircuit'
    BY DEF Blame, OnlyTheProviderOpensTheCircuit, FailedCalls
<1> QED
    BY <1>2, <1>3 DEF Blame

LEMMA FailureIsBlamed ==
    ASSUME TypeOK, Blame, NEW r \in Requests, ProviderFails(r)
    PROVE  Blame'
<1> DEFINE new == [call |-> r, at |-> now]
<1>1. pc[r] = "calling" /\ RecordFailure(r) /\ pc' = [pc EXCEPT ![r] = "failed"]
    BY DEF ProviderFails, GoTo
<1>2. pc \in [Requests -> PC] /\ failures \subseteq Failure
    BY DEF TypeOK, RequestTypeOK, BreakerTypeOK
<1>3. FailedCalls' = FailedCalls \cup {r}
    BY <1>1, <1>2 DEF FailedCalls
<1>4. IsFiniteSet(FailedCalls')
    BY <1>3, FS_AddElement DEF Blame
<1>5. failures' \subseteq failures \cup {new}
    BY <1>1 DEF RecordFailure, InWindow
<1>6. \A f \in failures : f.call # r /\ f.call \in FailedCalls
    BY <1>1, <1>2 DEF Blame, FailedCalls, Failure, Requests
<1>7. new.call = r
    OBVIOUS
<1> HIDE DEF new
<1>8. \A f \in failures' : f.call \in FailedCalls'
    BY <1>3, <1>5, <1>6, <1>7
<1>9. \A f, g \in failures' : f.call = g.call => f = g
    BY <1>5, <1>6, <1>7 DEF Blame
<1>10. Cardinality(failures') <= Cardinality(FailedCalls')
    BY <1>4, <1>8, <1>9, FailuresAreFailedCalls
<1>11. Cardinality(FailedCalls) <= Cardinality(FailedCalls') /\ Cardinality(FailedCalls') \in Nat
       /\ Cardinality(FailedCalls) \in Nat
    BY <1>3, <1>4, FS_AddElement, FS_CardinalityType DEF Blame
<1>12. IsFiniteSet(failures') /\ Cardinality(failures') \in Nat
    BY <1>4, <1>8, <1>9, FailuresAreFailedCalls, FS_CardinalityType
<1>13. openedAt' # None => Cardinality(FailedCalls') >= FailureThreshold
  <2>1. CASE Cardinality(failures') >= FailureThreshold
    BY <2>1, <1>10, <1>11, <1>12, BreakerAssumption
  <2>2. CASE ~(Cardinality(failures') >= FailureThreshold)
    <3>1. openedAt' = openedAt
      BY <1>1, <2>2 DEF RecordFailure
    <3> QED
      BY <3>1, <1>11, BreakerAssumption DEF Blame, OnlyTheProviderOpensTheCircuit, FailedCalls
  <2> QED
    BY <2>1, <2>2
<1>14. \A f \in failures' : pc'[f.call] = "failed"
    BY <1>8 DEF FailedCalls
<1> QED
    BY <1>4, <1>9, <1>13, <1>14 DEF Blame, OnlyTheProviderOpensTheCircuit, FailedCalls

LEMMA StepKeepsBlame == TypeOK /\ Blame /\ [Next]_vars => Blame'
<1> SUFFICES ASSUME TypeOK, Blame, [Next]_vars PROVE Blame'
    OBVIOUS
<1> USE DEF Requests, GoTo, Begin, Answer
<1>1. pc \in [Requests -> PC]
    BY DEF TypeOK, RequestTypeOK
\* A step of a request that does not fail.
<1>2. ASSUME NEW r \in Requests, NEW to, pc' = [pc EXCEPT ![r] = to],
             pc[r] # "failed", to # "failed",
             IsOpen \/ RecordSuccess \/ UNCHANGED breakerVars
      PROVE  Blame'
  <2>1. FailedCalls' = FailedCalls
    BY <1>1, <1>2 DEF FailedCalls
  <2>2. failures' \subseteq failures /\ openedAt' \in {openedAt, None}
    BY <1>2 DEF IsOpen, RecordSuccess, breakerVars
  <2> QED
    BY <2>1, <2>2, BlameStays
<1>3. ASSUME NEW r \in Requests, Arrive(r) \/ CacheGet(r) \/ CacheGetFails(r) PROVE Blame'
    BY <1>2, <1>3 DEF Arrive, CacheGet, CacheGetFails
<1>4. ASSUME NEW r \in Requests, CheckBreaker(r) PROVE Blame'
    BY <1>2, <1>4 DEF CheckBreaker
<1>5. ASSUME NEW r \in Requests, TryAcquire(r) \/ TryAcquireFails(r) PROVE Blame'
    BY <1>2, <1>5 DEF TryAcquire, TryAcquireFails
<1>6. ASSUME NEW r \in Requests, Poll(r) \/ PollFails(r) \/ WaitTimesOut(r) PROVE Blame'
    BY <1>2, <1>6 DEF Poll, PollFails, WaitTimesOut
<1>7. ASSUME NEW r \in Requests, ProviderAnswers(r) PROVE Blame'
    BY <1>2, <1>7 DEF ProviderAnswers
<1>8. ASSUME NEW r \in Requests, ProviderFails(r) PROVE Blame'
    BY <1>8, FailureIsBlamed
<1>9. ASSUME NEW r \in Requests, CacheSet(r) \/ CacheSetFails(r) PROVE Blame'
    BY <1>2, <1>9 DEF CacheSet, CacheSetFails, AfterStore
<1>10. ASSUME NEW r \in Requests, Release(r) \/ ReleaseFails(r) PROVE Blame'
    BY <1>2, <1>10 DEF Release, ReleaseFails
<1>11. ASSUME Crash PROVE Blame'
  <2>1. FailedCalls' = FailedCalls
    BY <1>1, <1>11 DEF Crash, FailedCalls, Suspended
  <2>2. failures' \subseteq failures /\ openedAt' = None
    BY <1>11 DEF Crash
  <2> QED
    BY <2>1, <2>2, BlameStays
<1>12. ASSUME RedisRestart \/ Tick \/ UNCHANGED vars PROVE Blame'
  <2>1. pc' = pc /\ UNCHANGED breakerVars
    <3>1. CASE RedisRestart
      BY <3>1, Zenon DEF RedisRestart, requestVars
    <3>2. CASE Tick
      BY <3>2 DEF Tick, requestVars
    <3>3. CASE UNCHANGED vars
      BY <3>3 DEF vars, requestVars
    <3> QED
      BY <1>12, <3>1, <3>2, <3>3
  <2>2. failures' = failures /\ openedAt' = openedAt
    BY <2>1 DEF breakerVars
  <2> QED
    BY <2>1, <2>2, BlameStays DEF FailedCalls
<1> QED
    BY <1>3, <1>4, <1>5, <1>6, <1>7, <1>8, <1>9, <1>10, <1>11, <1>12
    DEF Next, Step, RedisFails

\* Behind every opening are as many failed adapter calls as the threshold says;
\* trouble with Redis is never reported to the breaker.
THEOREM RedisTroubleOpensNothing == Spec => []OnlyTheProviderOpensTheCircuit
<1>1. Init => Blame
  <2> SUFFICES ASSUME Init PROVE Blame
    OBVIOUS
  <2>1. FailedCalls = {}
    BY DEF Init, FailedCalls
  <2>2. failures = {} /\ openedAt = None
    BY DEF Init, BreakerInit
  <2> QED
    BY <2>1, <2>2, FS_EmptySet DEF Blame, OnlyTheProviderOpensTheCircuit
<1>2. Blame => OnlyTheProviderOpensTheCircuit
    BY DEF Blame
<1> QED
    BY <1>1, <1>2, InitEstablishesTypes, StepKeepsTypes, StepKeepsBlame, PTL DEF Spec

-----------------------------------------------------------------------------
(* Who works on what the followers wait for.                                *)

\* s is working for the cache key k, or has failed to.
Attends(s, k) == key[s] = k /\ (hasLock[s] \/ pc[s] = "failed")

\* Without a fault, every lock is that of someone who attends to its key, and a
\* leader that lets go of the lock leaves the answer in the cache.
Attention ==
    /\ \A r \in Requests : hasLock[r] => pc[r] \in {"calling", "storing", "releasing"}
    /\ \A r \in Requests : pc[r] = "releasing" => cache[key[r]] # None
    /\ \A k \in Keys : lock[k] # None => Attends(lock[k].by, k)
    /\ \A r \in Requests : pc[r] = "waiting" =>
        cache[key[r]] # None \/ \E s \in Requests : Attends(s, key[r])

\* Whoever attends goes on doing so, answers stay, and the only lock that may be
\* new is that of someone who attends.
LEMMA AttentionGoesOn ==
    ASSUME TypeOK, Attention,
           \A s \in Requests : \A k \in Keys : Attends(s, k) => Attends(s, k)',
           \A k \in Keys : lock'[k] # None => lock'[k] = lock[k] \/ Attends(lock[k].by, k)',
           \A r \in Requests : hasLock'[r] => pc'[r] \in {"calling", "storing", "releasing"},
           \A r \in Requests : pc'[r] = "releasing" => cache'[key'[r]] # None,
           \A k \in Keys : cache[k] # None => cache'[k] # None,
           \A r \in Requests : pc'[r] = "waiting" =>
               /\ key'[r] = key[r]
               /\ key[r] \in Keys
               /\ pc[r] = "waiting" \/ \E s \in Requests : Attends(s, key[r])
    PROVE  Attention'
<1>1. ASSUME NEW k \in Keys, lock'[k] # None PROVE Attends(lock[k].by, k)'
  <2>1. CASE lock'[k] = lock[k]
    <3>1. lock[k].by \in Requests
      BY <1>1, <2>1 DEF TypeOK, RedisTypeOK, Entry
    <3>2. Attends(lock[k].by, k)
      BY <1>1, <2>1 DEF Attention
    <3>3. Attends(lock[k].by, k) => key'[lock[k].by] = k /\ (hasLock'[lock[k].by] \/ pc'[lock[k].by] = "failed")
      BY <3>1 DEF Attends
    <3> QED
      BY <2>1, <3>2, <3>3 DEF Attends
  <2> QED
    BY <1>1, <2>1
<1>2. ASSUME NEW r \in Requests, pc'[r] = "waiting"
      PROVE  cache'[key'[r]] # None \/ \E s \in Requests : Attends(s, key[r])'
  <2>1. key'[r] = key[r] /\ key[r] \in Keys
    BY <1>2
  <2>2. cache[key[r]] # None \/ \E s \in Requests : Attends(s, key[r])
    BY <1>2 DEF Attention
  <2> QED
    BY <2>1, <2>2 DEF Attends
<1> QED
    BY <1>1, <1>2 DEF Attention, Attends

\* A fault is never forgotten, so without one so far there is none in this step.
LEMMA FaultsAreCounted ==
    ASSUME TypeOK, faults' = 0, NEW kind, Fault(kind)
    PROVE  FALSE
    BY InferenceAssumption DEF TypeOK, Fault

LEMMA StepKeepsAttention ==
    ASSUME Prompt
    PROVE  TypeOK /\ (faults = 0 => Attention) /\ [Next]_vars => (faults = 0 => Attention)'
<1> SUFFICES ASSUME TypeOK, faults = 0 => Attention, [Next]_vars, faults' = 0 PROVE Attention'
    OBVIOUS
<1> USE DEF Requests, GoTo, Begin, Answer
<1>1. /\ pc \in [Requests -> PC]
      /\ hasLock \in [Requests -> BOOLEAN]
      /\ key \in [Requests -> Keys \cup {None}]
      /\ lock \in [Keys -> Entry \cup {None}]
      /\ cache \in [Keys -> Entry \cup {None}]
      /\ \A r \in Requests : pc[r] # "new" => key[r] \in Keys
    BY DEF TypeOK, RedisTypeOK, RequestTypeOK
\* A step of r that leaves its lock, its key and Redis alone, and does not begin
\* a wait.
<1>2. ASSUME NEW r \in Requests, NEW to, pc' = [pc EXCEPT ![r] = to],
             pc[r] # "failed", to # "waiting",
             to = "releasing" => cache[key[r]] # None,
             hasLock[r] => to \in {"calling", "storing", "releasing"},
             UNCHANGED <<faults, cache, lock, key, hasLock>>
      PROVE  Attention'
    BY <1>1, <1>2, AttentionGoesOn DEF Attention, Attends
<1>3. ASSUME NEW r \in Requests, Arrive(r) PROVE Attention'
  <2>1. /\ ~hasLock[r] /\ pc[r] = "new" /\ pc'[r] = "lookup"
        /\ \A q \in Requests : q # r => pc'[q] = pc[q] /\ key'[q] = key[q]
        /\ UNCHANGED <<faults, cache, lock, hasLock>>
        /\ Attention
    BY <1>1, <1>3 DEF Arrive, redisVars, Attention
  <2>2. \A s \in Requests : \A k \in Keys : Attends(s, k) => Attends(s, k)'
    BY <2>1 DEF Attends
  <2>3. \A q \in Requests : pc'[q] = "waiting" =>
          /\ q # r /\ key'[q] = key[q] /\ key[q] \in Keys
          /\ pc[q] = "waiting"
    BY <1>1, <2>1
  <2>4. \A q \in Requests : hasLock'[q] => pc'[q] \in {"calling", "storing", "releasing"}
    BY <1>1, <2>1 DEF Attention
  <2>5. \A q \in Requests : pc'[q] = "releasing" => cache'[key'[q]] # None
    BY <2>1 DEF Attention
  <2> QED
    BY <2>1, <2>2, <2>3, <2>4, <2>5, AttentionGoesOn
<1>4. ASSUME NEW r \in Requests,
             CacheGet(r) \/ CheckBreaker(r) \/ Poll(r) \/ WaitTimesOut(r)
      PROVE  Attention'
  <2>1. ~hasLock[r]
    BY <1>4 DEF CacheGet, CheckBreaker, Poll, WaitTimesOut, Attention
  <2> QED
    BY <1>2, <1>4, <2>1 DEF CacheGet, CheckBreaker, Poll, WaitTimesOut, redisVars
<1>5. ASSUME NEW r \in Requests, TryAcquire(r) PROVE Attention'
  <2>1. key[r] \in Keys /\ ~hasLock[r] /\ UNCHANGED <<faults, cache, key>>
        /\ pc[r] = "acquiring" /\ Attention
    BY <1>1, <1>5 DEF TryAcquire, Attention
  <2>2. CASE lock[key[r]] = None
    <3>1. /\ LockBy(r)
          /\ hasLock' = [hasLock EXCEPT ![r] = TRUE]
          /\ pc' = [pc EXCEPT ![r] = "calling"]
      BY <1>5, <2>2 DEF TryAcquire
    <3>2. \A s \in Requests : \A k \in Keys : Attends(s, k) => Attends(s, k)'
      BY <1>1, <2>1, <3>1 DEF Attends
    <3>3. hasLock'[r] /\ key'[r] = key[r] /\ pc'[r] = "calling"
      BY <1>1, <2>1, <3>1
    <3>4. lock'[key[r]].by = r /\ \A k \in Keys : k # key[r] => lock'[k] = lock[k]
      BY <1>1, <2>1, <3>1 DEF LockBy
    <3>5. \A k \in Keys : lock'[k] # None => lock'[k] = lock[k] \/ Attends(lock[k].by, k)'
      BY <3>3, <3>4 DEF Attends
    <3>6. \A q \in Requests : q # r => pc'[q] = pc[q] /\ hasLock'[q] = hasLock[q]
      BY <1>1, <3>1
    <3> QED
      BY <1>1, <2>1, <3>2, <3>3, <3>5, <3>6, AttentionGoesOn DEF Attention
  <2>3. CASE lock[key[r]] # None
    <3>1. pc' = [pc EXCEPT ![r] = "waiting"] /\ UNCHANGED <<lock, hasLock>>
      BY <1>5, <2>3 DEF TryAcquire
    <3>2. lock[key[r]].by \in Requests /\ Attends(lock[key[r]].by, key[r])
      BY <1>1, <2>1, <2>3 DEF Attention, Entry
    <3> HIDE DEF Attends
    <3>3. \E s \in Requests : Attends(s, key[r])
      BY <3>2
    <3>4. \A s \in Requests : \A k \in Keys : Attends(s, k) => Attends(s, k)'
      BY <1>1, <2>1, <3>1 DEF Attends
    <3> QED
      BY <1>1, <2>1, <3>1, <3>3, <3>4, AttentionGoesOn DEF Attention
  <2> QED
    BY <2>2, <2>3
<1>6. ASSUME NEW r \in Requests, ProviderAnswers(r) PROVE Attention'
    BY <1>2, <1>6 DEF ProviderAnswers, redisVars
<1>7. ASSUME NEW r \in Requests, ProviderFails(r) PROVE Attention'
    BY <1>1, <1>7, AttentionGoesOn DEF ProviderFails, redisVars, Attention, Attends
<1>8. ASSUME NEW r \in Requests, CacheSet(r) PROVE Attention'
  <2>1. key[r] \in Keys /\ StoreBy(r) /\ UNCHANGED <<faults, lock, key, hasLock>>
        /\ pc[r] = "storing" /\ Attention
        /\ pc' = [pc EXCEPT ![r] = IF hasLock[r] THEN "releasing" ELSE "answered"]
    BY <1>1, <1>8 DEF CacheSet, AfterStore
  <2>2. cache'[key[r]].by = r /\ \A k \in Keys : k # key[r] => cache'[k] = cache[k]
    BY <1>1, <2>1 DEF StoreBy
  <2>3. cache'[key[r]] # None
    <3>1. [by |-> r, until |-> now + CacheTTL] \in Entry
      BY InferenceAssumption DEF Entry, TypeOK, BreakerTypeOK
    <3>2. cache'[key[r]] = [by |-> r, until |-> now + CacheTTL]
      BY <1>1, <2>1 DEF StoreBy
    <3> QED
      BY <3>1, <3>2, NoneAssumption
  <2> QED
    BY <1>1, <2>1, <2>2, <2>3, AttentionGoesOn DEF Attention, Attends
\* The lock goes, and with it the leader: the answer is in the cache.
<1>9. ASSUME NEW r \in Requests, Release(r) PROVE Attention'
  <2>1. /\ pc[r] = "releasing" /\ key[r] \in Keys /\ Attention
        /\ pc' = [pc EXCEPT ![r] = "answered"]
        /\ hasLock' = [hasLock EXCEPT ![r] = FALSE]
        /\ lock' = [lock EXCEPT ![key[r]] = None]
        /\ UNCHANGED <<cache, key>>
    BY <1>1, <1>9 DEF Release, Unlock
  <2>2. cache[key[r]] # None
    BY <2>1 DEF Attention
  <2>3. \A q \in Requests : q # r => pc'[q] = pc[q] /\ hasLock'[q] = hasLock[q]
    BY <1>1, <2>1
  <2>4. ASSUME NEW k \in Keys, lock'[k] # None PROVE Attends(lock[k].by, k)' /\ lock'[k] = lock[k]
    <3>1. k # key[r] /\ lock'[k] = lock[k]
      BY <1>1, <2>1, <2>4
    <3>2. lock[k].by \in Requests /\ Attends(lock[k].by, k)
      BY <1>1, <2>1, <2>4, <3>1 DEF Attention, Entry
    <3>3. lock[k].by # r
      BY <3>1, <3>2 DEF Attends
    <3> QED
      BY <2>1, <2>3, <3>1, <3>2, <3>3 DEF Attends
  <2>5. ASSUME NEW q \in Requests, pc'[q] = "waiting"
        PROVE  cache'[key'[q]] # None \/ \E s \in Requests : Attends(s, key[q])'
    <3>1. pc[q] = "waiting" /\ key'[q] = key[q] /\ cache'[key'[q]] = cache[key[q]]
      BY <1>1, <2>1, <2>3, <2>5
    <3>2. CASE key[q] = key[r]
      BY <2>2, <3>1, <3>2
    <3>3. CASE key[q] # key[r] /\ cache[key[q]] = None
      <4>1. PICK s \in Requests : Attends(s, key[q])
        BY <2>1, <3>1, <3>3 DEF Attention
      <4> QED
        BY <2>1, <2>3, <3>1, <3>3, <4>1 DEF Attends
    <3> QED
      BY <3>1, <3>2, <3>3
  <2>6. \A q \in Requests :
          /\ hasLock'[q] => pc'[q] \in {"calling", "storing", "releasing"}
          /\ pc'[q] = "releasing" => cache'[key'[q]] # None
    BY <1>1, <2>1, <2>3 DEF Attention
  <2> QED
    BY <2>4, <2>5, <2>6 DEF Attention
<1>10. ASSUME NEW r \in Requests, RedisFails(r) PROVE FALSE
    BY <1>10, FaultsAreCounted
    DEF RedisFails, CacheGetFails, TryAcquireFails, PollFails, CacheSetFails, ReleaseFails
<1>11. ASSUME Crash PROVE FALSE
    BY <1>11, FaultsAreCounted DEF Crash
<1>12. ASSUME RedisRestart PROVE FALSE
    BY <1>12, FaultsAreCounted, Zenon DEF RedisRestart
\* No answer that is waited for expires: whoever waits for it takes it before.
<1>13. ASSUME Tick PROVE Attention'
  <2>1. /\ \A r \in Requests : ~HasStepPending(r)
        /\ lock' = Expire(lock)
        /\ UNCHANGED <<faults, pc, key, hasLock>>
        /\ Attention
    BY <1>13 DEF Tick, requestVars
  <2>2. \A r \in Requests :
          /\ pc[r] # "releasing"
          /\ pc[r] = "waiting" => cache[key[r]] = None /\ key[r] \in Keys
    BY <1>1, <2>1 DEF HasStepPending, Suspended
  <2>3. \A k \in Keys : lock'[k] # None => lock'[k] = lock[k]
    BY <2>1 DEF Expire
  <2> QED
    BY <1>1, <2>1, <2>2, <2>3 DEF Attention, Attends
<1>14. ASSUME UNCHANGED vars PROVE Attention'
    BY <1>14 DEF vars, redisVars, requestVars, Attention, Attends
<1> QED
    BY <1>3, <1>4, <1>5, <1>6, <1>7, <1>8, <1>9, <1>10, <1>11, <1>12, <1>13, <1>14
    DEF Next, Step

\* Without a fault, whoever waits has an answer waiting, or a leader at work or
\* one whose call failed, if every step but an adapter call is prompt.
THEOREM FollowersHaveALeader ==
    ASSUME Prompt
    PROVE  Spec => []NobodyWaitsInVain
<1>1. Init => (faults = 0 => Attention)
    BY DEF Init, Attention, Attends
<1>2. (faults = 0 => Attention) => NobodyWaitsInVain
    BY DEF Attention, Attends, NobodyWaitsInVain, SameKey
<1> QED
    BY <1>1, <1>2, InitEstablishesTypes, StepKeepsTypes, StepKeepsAttention, PTL DEF Spec
=============================================================================

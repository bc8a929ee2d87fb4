--------------------------- MODULE InferenceService ---------------------------
(***************************************************************************)
(* POST /v1/infer: InferenceService.infer of                               *)
(* app/services/inference_service.py, with everything it touches:          *)
(*                                                                         *)
(*   - SemanticCache (app/infra/cache.py), the answers kept in Redis;      *)
(*   - RequestCollapser (app/infra/request_collapsing.py), the lock per    *)
(*     cache key, also kept in Redis, and the followers that poll;         *)
(*   - the circuit breaker, EXTENDed: every request is one of its Calls;   *)
(*   - the LLM adapter, external: a call ends within MaxCallTime with an   *)
(*     answer or an error.                                                 *)
(*                                                                         *)
(* Requests are coroutines of one process.  A step runs from one point at  *)
(* which the coroutine is suspended (a Redis round trip, the sleep of the  *)
(* poll loop, the adapter call) to the next; the operations of the breaker *)
(* do not suspend.  The effect of a Redis command and the return of its    *)
(* reply are one step wherever the code after it touches nothing shared.   *)
(*                                                                         *)
(* Faults: a Redis command raises ConnectionError, and may have been       *)
(* executed all the same; the process dies and restarts; Redis restarts    *)
(* empty.                                                                  *)
(***************************************************************************)
EXTENDS CircuitBreaker

CONSTANTS
    Keys,         \* cache keys
    LockTTL,      \* lock_ttl_s
    WaitTimeout,  \* wait_timeout_s
    CacheTTL,     \* CACHE_TTL
    MaxCallTime,  \* the longest an adapter call lasts
    Prompt,       \* TRUE: every step but an adapter call takes less than a tick
    FaultKinds,   \* the faults that may happen, out of AnyFault
    MaxFaults,    \* bound on their number
    ArriveBy      \* no request arrives later

AnyFault == {"connection", "crash", "redis restart"}

ASSUME InferenceAssumption ==
    /\ LockTTL \in Nat \ {0}
    /\ WaitTimeout \in Nat
    /\ CacheTTL \in Nat \ {0}
    /\ MaxCallTime \in Nat
    /\ Prompt \in BOOLEAN
    /\ FaultKinds \subseteq AnyFault
    /\ MaxFaults \in Nat
    /\ ArriveBy \in Nat

VARIABLES
    cache,    \* Redis: the answer cached under each key
    lock,     \* Redis: lock:<key>
    pc,       \* where each request stands
    key,      \* its cache key
    hasLock,  \* its has_lock
    arrived,  \* its t0
    since,    \* when its wait, or its adapter call, began
    source,   \* the request whose adapter call gave its answer
    faults    \* faults so far

redisVars == <<cache, lock>>
requestVars == <<pc, key, hasLock, arrived, since, source>>
vars == <<now, breakerVars, redisVars, requestVars, faults>>

Requests == Calls

\* A cached answer is known by the request that paid for it.  The value of a
\* lock is always "1": that the model knows who set it is history.
Entry == [by : Requests, until : Nat]

ASSUME NoneAssumption == None \notin Requests \cup Keys /\ None \notin Entry

Suspended == {"lookup", "checking", "acquiring", "waiting", "calling", "storing", "releasing"}
Ended == {"answered", "refused", "failed", "lost"}
PC == {"new"} \cup Suspended \cup Ended

RedisTypeOK ==
    /\ cache \in [Keys -> Entry \cup {None}]
    /\ lock \in [Keys -> Entry \cup {None}]

RequestTypeOK ==
    /\ pc \in [Requests -> PC]
    /\ key \in [Requests -> Keys \cup {None}]
    /\ hasLock \in [Requests -> BOOLEAN]
    /\ arrived \in [Requests -> Nat \cup {None}]
    /\ since \in [Requests -> Nat \cup {None}]
    /\ source \in [Requests -> Requests \cup {None}]
    /\ \A r \in Requests :
        /\ pc[r] # "new" => key[r] \in Keys /\ arrived[r] \in Nat
        /\ pc[r] \in {"waiting", "calling"} => since[r] \in Nat

TypeOK ==
    /\ BreakerTypeOK
    /\ RedisTypeOK
    /\ RequestTypeOK
    /\ faults \in 0 .. MaxFaults

Init ==
    /\ now = 0
    /\ BreakerInit
    /\ cache = [k \in Keys |-> None]
    /\ lock = [k \in Keys |-> None]
    /\ pc = [r \in Requests |-> "new"]
    /\ key = [r \in Requests |-> None]
    /\ hasLock = [r \in Requests |-> FALSE]
    /\ arrived = [r \in Requests |-> None]
    /\ since = [r \in Requests |-> None]
    /\ source = [r \in Requests |-> None]
    /\ faults = 0

-----------------------------------------------------------------------------
(* Mutated forms: slips one could make in this code.  Not part of the model. *)

StoreByAnyKey(r) == cache' = [k \in Keys |-> [by |-> r, until |-> now + CacheTTL]]
WaitOverNever(r) == now - since[r] < 0

-----------------------------------------------------------------------------
(* Steps shared by the actions below.                                       *)

Fault(kind) ==
    /\ kind \in FaultKinds
    /\ faults < MaxFaults
    /\ faults' = faults + 1

GoTo(r, label) == pc' = [pc EXCEPT ![r] = label]

\* A wait or a call begins now.
Begin(r, label) ==
    /\ GoTo(r, label)
    /\ since' = [since EXCEPT ![r] = now]

\* The answer of s's adapter call is also r's answer.
Answer(r, s) ==
    /\ GoTo(r, "answered")
    /\ source' = [source EXCEPT ![r] = s]

\* SET NX EX on a free lock.
LockBy(r) == lock' = [lock EXCEPT ![key[r]] = [by |-> r, until |-> now + LockTTL]]

\* DEL, whoever holds the lock by now.
Unlock(k) == lock' = [lock EXCEPT ![k] = None]

\* SETEX.
StoreBy(r) == cache' = [cache EXCEPT ![key[r]] = [by |-> r, until |-> now + CacheTTL]]

\* The finally block after cache.set: only a leader has a lock to release.
AfterStore(r) == GoTo(r, IF hasLock[r] THEN "releasing" ELSE "answered")

\* The loop condition of wait_for_value.
WaitOver(r) == now - since[r] >= WaitTimeout

-----------------------------------------------------------------------------
(* Mutated forms of the actions, likewise.                                  *)

CheckBreakerSkipped(r) ==
    /\ pc[r] = "checking"
    /\ IsOpen
    /\ GoTo(r, "acquiring")
    /\ UNCHANGED <<now, redisVars, key, hasLock, arrived, since, source, faults>>
TryAcquireNoNX(r) ==
    /\ pc[r] = "acquiring"
    /\ LockBy(r) /\ hasLock' = [hasLock EXCEPT ![r] = TRUE] /\ Begin(r, "calling")
    /\ UNCHANGED <<now, breakerVars, cache, key, arrived, source, faults>>
TryAcquireRaw(r) ==
    /\ pc[r] = "acquiring"
    /\ IF lock[key[r]] = None
       THEN LockBy(r) /\ hasLock' = [hasLock EXCEPT ![r] = TRUE] /\ Begin(r, "calling")
       ELSE hasLock' = [hasLock EXCEPT ![r] = None] /\ Begin(r, "waiting") /\ UNCHANGED lock
    /\ UNCHANGED <<now, breakerVars, cache, key, arrived, source, faults>>
WaitTimesOutRetries(r) ==
    /\ pc[r] = "waiting"
    /\ WaitOver(r)
    /\ GoTo(r, "acquiring")
    /\ UNCHANGED <<now, breakerVars, redisVars, key, hasLock, arrived, since, source, faults>>
ProviderAnswersUnlocks(r) ==
    /\ pc[r] = "calling"
    /\ RecordSuccess
    /\ source' = [source EXCEPT ![r] = r]
    /\ GoTo(r, "storing")
    /\ IF hasLock[r] THEN Unlock(key[r]) ELSE UNCHANGED lock
    /\ UNCHANGED <<now, cache, key, hasLock, arrived, since, faults>>
CacheSetElsewhere(r) ==
    /\ pc[r] = "storing"
    /\ AfterStore(r)
    /\ UNCHANGED <<now, breakerVars, redisVars, key, hasLock, arrived, since, source, faults>>
CacheSetFailsCounts(r) ==
    /\ pc[r] = "storing"
    /\ Fault("connection")
    /\ RecordFailure(r)
    /\ AfterStore(r)
    /\ UNCHANGED <<now, redisVars, key, hasLock, arrived, since, source>>
CacheSetFailsRaises(r) ==
    /\ pc[r] = "storing"
    /\ Fault("connection")
    /\ GoTo(r, "failed")
    /\ hasLock' = [hasLock EXCEPT ![r] = FALSE]
    /\ UNCHANGED <<now, breakerVars, redisVars, key, arrived, since, source>>

-----------------------------------------------------------------------------
(* The request.                                                             *)

Arrive(r) ==
    /\ pc[r] = "new"
    /\ now <= ArriveBy
    /\ \E k \in Keys : key' = [key EXCEPT ![r] = k]
    /\ arrived' = [arrived EXCEPT ![r] = now]
    /\ GoTo(r, "lookup")
    /\ UNCHANGED <<now, breakerVars, redisVars, hasLock, since, source, faults>>

\* cache.get: a hit is the answer.
CacheGet(r) ==
    /\ pc[r] = "lookup"
    /\ IF cache[key[r]] # None
       THEN Answer(r, cache[key[r]].by)
       ELSE GoTo(r, "checking") /\ UNCHANGED source
    /\ UNCHANGED <<now, breakerVars, redisVars, key, hasLock, arrived, since, faults>>

CacheGetFails(r) ==
    /\ pc[r] = "lookup"
    /\ Fault("connection")
    /\ GoTo(r, "checking")
    /\ UNCHANGED <<now, breakerVars, redisVars, key, hasLock, arrived, since, source>>

\* is_open(): an open circuit refuses the request.
CheckBreaker(r) ==
    /\ pc[r] = "checking"
    /\ IsOpen
    /\ GoTo(r, IF StillOpen THEN "refused" ELSE "acquiring")
    /\ UNCHANGED <<now, redisVars, key, hasLock, arrived, since, source, faults>>

\* try_acquire: SET NX EX.  The leader calls the adapter, without another look
\* at the cache; everyone else waits.
TryAcquire(r) ==
    /\ pc[r] = "acquiring"
    /\ IF lock[key[r]] = None
       THEN LockBy(r) /\ hasLock' = [hasLock EXCEPT ![r] = TRUE] /\ Begin(r, "calling")
       ELSE Begin(r, "waiting") /\ UNCHANGED <<lock, hasLock>>
    /\ UNCHANGED <<now, breakerVars, cache, key, arrived, source, faults>>

\* try_acquire raises: has_lock stays False and the request waits like a
\* follower, whether Redis set the lock or not.
TryAcquireFails(r) ==
    /\ pc[r] = "acquiring"
    /\ Fault("connection")
    /\ \/ UNCHANGED lock
       \/ lock[key[r]] = None /\ LockBy(r)
    /\ Begin(r, "waiting")
    /\ UNCHANGED <<now, breakerVars, cache, key, hasLock, arrived, source>>

\* wait_for_value: a poll that finds the value.  One that finds none changes
\* nothing.
Poll(r) ==
    /\ pc[r] = "waiting"
    /\ cache[key[r]] # None
    /\ Answer(r, cache[key[r]].by)
    /\ UNCHANGED <<now, breakerVars, redisVars, key, hasLock, arrived, since, faults>>

PollFails(r) ==
    /\ pc[r] = "waiting"
    /\ Fault("connection")
    /\ Begin(r, "calling")
    /\ UNCHANGED <<now, breakerVars, redisVars, key, hasLock, arrived, source>>

\* The deadline passes: the follower calls the adapter itself, without the
\* lock and without asking the breaker again.
WaitTimesOut(r) ==
    /\ pc[r] = "waiting"
    /\ WaitOver(r)
    /\ Begin(r, "calling")
    /\ UNCHANGED <<now, breakerVars, redisVars, key, hasLock, arrived, source, faults>>

ProviderAnswers(r) ==
    /\ pc[r] = "calling"
    /\ RecordSuccess
    /\ source' = [source EXCEPT ![r] = r]
    /\ GoTo(r, "storing")
    /\ UNCHANGED <<now, redisVars, key, hasLock, arrived, since, faults>>

\* TimeoutError or any other exception of the adapter: the exception leaves
\* infer before the block that releases the lock.
ProviderFails(r) ==
    /\ pc[r] = "calling"
    /\ RecordFailure(r)
    /\ GoTo(r, "failed")
    /\ hasLock' = [hasLock EXCEPT ![r] = FALSE]
    /\ UNCHANGED <<now, redisVars, key, arrived, since, source, faults>>

\* cache.set: SETEX.
CacheSet(r) ==
    /\ pc[r] = "storing"
    /\ StoreBy(r)
    /\ AfterStore(r)
    /\ UNCHANGED <<now, breakerVars, lock, key, hasLock, arrived, since, source, faults>>

CacheSetFails(r) ==
    /\ pc[r] = "storing"
    /\ Fault("connection")
    /\ UNCHANGED cache \/ StoreBy(r)
    /\ AfterStore(r)
    /\ UNCHANGED <<now, breakerVars, lock, key, hasLock, arrived, since, source>>

Release(r) ==
    /\ pc[r] = "releasing"
    /\ Unlock(key[r])
    /\ GoTo(r, "answered")
    /\ hasLock' = [hasLock EXCEPT ![r] = FALSE]
    /\ UNCHANGED <<now, breakerVars, cache, key, arrived, since, source, faults>>

ReleaseFails(r) ==
    /\ pc[r] = "releasing"
    /\ Fault("connection")
    /\ UNCHANGED lock \/ Unlock(key[r])
    /\ GoTo(r, "answered")
    /\ hasLock' = [hasLock EXCEPT ![r] = FALSE]
    /\ UNCHANGED <<now, breakerVars, cache, key, arrived, since, source>>

-----------------------------------------------------------------------------
(* The environment.                                                         *)

\* The process dies with its requests and its breaker, and restarts.
Crash ==
    /\ Fault("crash")
    /\ \E r \in Requests : pc[r] \in Suspended
    /\ pc' = [r \in Requests |-> IF pc[r] \in Suspended THEN "lost" ELSE pc[r]]
    /\ hasLock' = [r \in Requests |-> FALSE]
    /\ state' = Closed
    /\ failures' = {}
    /\ openedAt' = None
    /\ UNCHANGED <<now, redisVars, key, arrived, since, source>>

\* Redis comes back without its data.
RedisRestart ==
    /\ Fault("redis restart")
    /\ cache' = [k \in Keys |-> None]
    /\ lock' = [k \in Keys |-> None]
    /\ UNCHANGED <<now, breakerVars, requestVars>>

\* What Redis drops at the next tick.
Expire(entries) ==
    [k \in Keys |-> IF entries[k] # None /\ entries[k].until <= now + 1 THEN None ELSE entries[k]]

\* A request with a step to take that takes less than a tick when Prompt.
HasStepPending(r) ==
    \/ pc[r] \in Suspended \ {"waiting", "calling"}
    \/ pc[r] = "waiting" /\ (cache[key[r]] # None \/ WaitOver(r))

Tick ==
    /\ now < MaxTime
    /\ \A r \in Requests : pc[r] = "calling" => now - since[r] < MaxCallTime
    /\ Prompt => \A r \in Requests : ~HasStepPending(r)
    /\ now' = now + 1
    /\ cache' = Expire(cache)
    /\ lock' = Expire(lock)
    /\ UNCHANGED <<breakerVars, requestVars, faults>>

\* The steps the code takes of itself, once the request has arrived.
Step(r) ==
    \/ CacheGet(r) \/ CheckBreaker(r) \/ TryAcquire(r) \/ Poll(r) \/ WaitTimesOut(r)
    \/ ProviderAnswers(r) \/ ProviderFails(r) \/ CacheSet(r) \/ Release(r)

RedisFails(r) ==
    CacheGetFails(r) \/ TryAcquireFails(r) \/ PollFails(r) \/ CacheSetFails(r) \/ ReleaseFails(r)

Next ==
    \/ \E r \in Requests : Arrive(r) \/ Step(r) \/ RedisFails(r)
    \/ Crash
    \/ RedisRestart
    \/ Tick

Spec == Init /\ [][Next]_vars

\* The event loop runs every coroutine whose awaited result is there; an
\* adapter call ends within MaxCallTime; the clock goes on.
FairSpec == Spec /\ WF_vars(Tick) /\ \A r \in Requests : WF_vars(Step(r))

-----------------------------------------------------------------------------
(* Properties.                                                              *)

SameKey(r, s) == key[r] = key[s]

\* A follower has something to wait for: the value, or a leader that is still
\* at work.  Only a leader whose call failed, or a fault, leaves it without.
NobodyWaitsInVain ==
    \A r \in Requests : pc[r] = "waiting" /\ faults = 0 =>
        \/ cache[key[r]] # None
        \/ \E s \in Requests : SameKey(r, s) /\ (hasLock[s] \/ pc[s] = "failed")

\* Whoever is answered gets what an adapter call for the same model, input and
\* config returned, and what is in the cache is such an answer.
AnswersFitTheQuestion ==
    /\ \A r \in Requests :
        /\ pc[r] = "answered" => source[r] # None
        /\ source[r] # None => SameKey(source[r], r) /\ source[source[r]] = source[r]
    /\ \A k \in Keys : cache[k] # None =>
        key[cache[k].by] = k /\ source[cache[k].by] = cache[k].by

\* The service keeps the promise of AbstractInference: a request ends once, with
\* the answer of one adapter call for its key, its own if it made one that
\* answered, whatever Redis does and however slow the steps are.
Promise == INSTANCE AbstractInference WITH
    end <- [r \in Requests |-> IF pc[r] \in Suspended THEN "pending" ELSE pc[r]],
    paid <- {r \in Requests : source[r] = r},
    source <- [r \in Requests |-> IF pc[r] = "answered" THEN source[r] ELSE None]
RefinesAbstractInference == Promise!Spec

\* However leaders fail and Redis misbehaves, no request takes longer than one
\* whole wait and one whole adapter call.
AnsweredInTime ==
    \A r \in Requests :
        pc[r] \in Suspended => now - arrived[r] <= WaitTimeout + MaxCallTime

\* Redis and cache trouble never opens the circuit: behind every opening are
\* FailureThreshold adapter calls that failed.
OnlyTheProviderOpensTheCircuit ==
    openedAt # None =>
        Cardinality({r \in Requests : pc[r] = "failed"}) >= FailureThreshold

\* A request that arrives after the circuit opened does not reach the provider
\* while it stays open, neither as a leader nor after a wait.
NoNewcomerCallsAnOpenCircuit ==
    [][\A r \in Requests :
         pc[r] # "calling" /\ pc'[r] = "calling" /\ StillOpen
           => arrived[r] <= openedAt]_vars

\* Every request that arrives comes to an end: leaders, followers and the lock
\* never keep each other waiting for good.
EveryRequestEnds ==
    \A r \in Requests : pc[r] = "lookup" ~> pc[r] \in Ended

-----------------------------------------------------------------------------
(* What the documents say, which the code does not do.                      *)

HasPaid(r) == pc[r] = "calling" \/ source[r] = r

\* DECISIONS.md, scenario A: "1 LLM call instead of N" for requests for the
\* same input, failed calls apart.
OneCallPerHerd ==
    \A r, s \in Requests : HasPaid(r) /\ HasPaid(s) /\ SameKey(r, s) => r = s

\* The same scenario, "the first request acquires the lock, every other request for
\* the same input sees the lock": nobody leads while the leader is at work.
OneLeaderAtATime ==
    \A r, s \in Requests : hasLock[r] /\ hasLock[s] /\ SameKey(r, s) => r = s
=============================================================================

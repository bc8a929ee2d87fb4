# Verification of the LLM inference API

TLA+ models of the service in `src/app`, TLC configurations that check them on
small instances, and theorems about them that TLAPS checks for every value of
the constants. The models are translated from the Python code; where the
documents say something else, a run shows it (section *Disagreements*).

    tlc -config MCBreakerClients.cfg MCBreakerClients.tla     # one run
    tlapm BreakerClients_proof.tla                            # one proof module

## 1. The system

One asyncio process behind uvicorn (`Dockerfile`: one worker). Coroutines
interleave only at `await`s that suspend: Redis round trips, the adapter's
HTTP calls, the sleep of a poll loop, a `yield` of a stream, a thread. The only
state shared across processes is in Redis.

| Component | State | Operations | Talks to |
|---|---|---|---|
| Circuit breaker `core/circuit_breaker.py` | state, failure times, opening time | `is_open`, `get_retry_after`, `record_failure`, `record_success` | called by both services and `/health` |
| Inference service `services/inference_service.py` | none of its own | `infer` | cache, collapser, breaker, adapter |
| Cache `infra/cache.py` | Redis keys with TTL | `get`, `set`, `make_key` | Redis |
| Request collapser `infra/request_collapsing.py` | Redis lock per key with TTL | `try_acquire`, `wait_for_value`, `release` | Redis, cache |
| Streaming service `services/streaming_service.py` | generator locals | `stream`, `_audit_log` | breaker, adapter, the client's connection |
| Rate limiter `infra/rate_limiter.py` | sorted set per client in Redis | `check` | Redis |
| Application `main.py`, `api/` | clients, models, counters | lifespan, routes, dependencies, exception handlers, `record_metrics` | everything |
| Model registry, classifier `core/model_registry.py`, `sdk/models`, `models/` | loaded models | `register`, `load_all`, `get`, `predict` | threads |
| Adapters `adapters/` | one HTTP client with a pool of connections | `infer`, `stream`, `aclose` | the LLM provider, through httpx |
| Demo `scripts/demo.py` | position in its scenes, an HTTP client | scenes, `_wait_for_health`, compose commands | the running stack, docker |
| Observability, settings, schemas | none | sanitising, span context, configuration | logs |

What is hard about it, and what makes each part correct:

- **Breaker.** Calls overlap, so outcomes arrive at a breaker that has changed
  state since they were let through; the failure list is pruned only when a
  failure is recorded; half-open is entered by whoever asks. It must block for
  one recovery timeout from each time the threshold is reached in one window,
  and at no other time; its answer to refused callers must be usable.
- **Inference.** Check-then-act across Redis round trips, a lock that expires
  by itself and is deleted without asking whose it is, leaders that fail or
  die while followers poll, Redis errors at any command. Answers must belong to
  the question, requests must end in bounded time, a request that was paid for
  must be answered, and only a lock that Redis dropped may let a second leader in.
- **Streaming.** The generator may be cancelled at an `await` or closed at a
  `yield`, where no `except` clause sees it. Breaker, audit log and what the
  client saw must agree all the same, and the provider's connection must close.
- **Rate limiter.** The clock is read before the transaction runs; a declined
  request is removed by a second command; either command may fail, with or
  without effect. The limit must hold, and whoever is declined must be told
  something true.
- **Adapters.** A stream is suspended at its `yield` for as long as its consumer
  likes, with a connection of a bounded pool in its hand, and may be dropped
  there; the provider may say anything or break off; the exceptions of httpx are
  subclasses of each other; the request's config is merged into the payload. The
  consumer must be given what the provider said and told how it ended, and no
  call may wait for another's client.
- **Demo.** It breaks the stack on purpose, and any step of it may raise or be
  interrupted. What it breaks it must repair, or say that it did not.
- **Application.** The order of start-up and shutdown against threads and
  requests; exceptions that become answers inside or outside the metrics; two
  kinds of 503; `/health` reading a state that changes only when asked.

## 2. The modules

| Module | Models | EXTENDS / implements |
|---|---|---|
| `CircuitBreaker` | fields and operations of the breaker, no behaviour of its own | |
| `BreakerClients` | the breaker with all its callers in any order | EXTENDS `CircuitBreaker`; implements `AbstractBreaker` |
| `AbstractBreaker` | what the breaker promises: a failure log that is never pruned and the time of the last trip | |
| `InferenceService` | `infer` with cache, collapser, breaker, adapter, Redis faults, crashes | EXTENDS `CircuitBreaker`; implements `AbstractInference` |
| `InferenceClients` | `infer` with a record of refusals, failures and lost locks: the requests as the breaker sees them, and their leaders | EXTENDS `InferenceService`; implements `BreakerClients` |
| `AbstractInference` | what `/v1/infer` promises about its answers | |
| `StreamingService` | `stream` between its suspension points, with the adapter's connection and the audit | EXTENDS `CircuitBreaker`; implements `BreakerClients` and `AbstractAdapter` |
| `LLMAdapter` | `infer` and `stream` of both adapters on one client, `aclose` | implements `AbstractAdapter` |
| `AbstractAdapter` | the contract between a service and an adapter: who may do what with a generator, and when a connection may be held | |
| `RateLimiter` | `check` for the requests of one client | |
| `Application` | lifespan, routes, exception handlers, metrics, health | EXTENDS `CircuitBreaker` |
| `Demo` | the scenes of `demo.py` against a compose stack | |
| `MC*` | the above for TLC (symmetry sets) | |
| `*_proof` | the theorems | EXTEND their component and `TLAPS` |

How state and actions correspond to the code:

**CircuitBreaker.** `state`, `failures`, `openedAt` are `_state`, `_failures`,
`_opened_at`; the list is a set of entries told apart by the call that reported
them, since only its length is used. Each operation holds an `asyncio.Lock` over
a body with no `await`, so it is one step: `IsOpen`/`StillOpen` (effect and
answer of `is_open`), `RetryAfter`, `RecordFailure`, `RecordSuccess`. Time is in
ticks, `TicksPerSecond` of them to a second, because the services cut the retry
time down with `int()`.

**BreakerClients.** `Admit`, `Reject`, `Fail`, `Succeed`, `Abandon` are what the
services do with the breaker, `Health` is the probe, `Tick` the clock, `Restart`
the death of the process, whose successor has a breaker of its own. A request that
is answered from the cache, or a stream that is dropped, ends by `Abandon`. `log` is
a history variable: every failure since the circuit last closed.

**InferenceClients.** `Record` runs along with every step of `infer` and keeps what
`BreakerClients` speaks of and the code forgets: what a refused request was told
(`told`) and the failures that the breaker has dropped (`log`). `callOf` maps each
suspension point to what the request is to the breaker; a `Crash` is its `Restart`.
`lapsed` are the keys whose lock Redis dropped under a leader (`LosesItsLock`: the TTL
ran out, or Redis restarted), each until nobody leads for it. With the shipped times
this happens to every leader whose call takes more than 10 s, so what is said of
leaders has to say it: as long as its key has not lapsed, a leader is alone and its
lock is its own.

**InferenceService.** One label per suspension point: `lookup` (cache.get),
`checking`, `acquiring` (SET NX EX), `waiting` (poll loop), `calling` (adapter),
`storing` (SETEX), `releasing` (DEL). One action per outcome; the `...Fails`
actions are a `ConnectionError`, with or without the command executed. `Crash`
loses every request, `RedisRestart` the data, `Expire` lets keys run out.
`Prompt = TRUE` bounds every step but an adapter call by one tick.

**StreamingService.** Labels `pulling` (the adapter's next chunk), `checking`
(`is_disconnected`), `yielding`, `finishing`, `erring` (the three kinds of
`yield`). `Cancel` is `CancelledError` at an await, `Close` `GeneratorExit` at a
yield, `Raise` any other exception, `Finalize` the event loop closing the
adapter's dropped generator. `audit` is what `_audit_log` is given when the
`finally` block dispatches it.

**LLMAdapter.** Labels `queued` (waiting for a connection), `asking` (for the
response), `reading` (for a line), `leaving` (the body of `async with` is left and
the response being closed), `yielded` (at the `yield`), `dropped` (the consumer has
left the generator there), `sleeping` (the stub). `PoolIsExhausted`, `AskFails`,
`AnswerInfer`, `AnswerStream`, `ReadFails` are what httpx and the provider do;
`Skip`, `YieldContent`, `ReadDone`, `ReadMalformed`, `BodyEnds` one line of the
body each. `Classes` is httpx's class hierarchy as far as the `except` clauses
tell it apart, `Clauses` those clauses in their order, `Caught` the first that
fits. `BuildPayload` merges the config; what the provider answers depends on the
payload's `stream`. A chunk is the place of its line in the body.

**How the two sides of an adapter meet.** `AbstractAdapter` says what a generator
does when it is asked, suspended, dropped or closed and when a connection may be
held. `LLMAdapter` implements it from below, with any consumer; `StreamingService`
implements it from above, with any provider. Neither side counts on anything of the
other that the contract does not say.

**Demo.** A scene is a sequence of steps, each in one part of it: before the `try`
block, in it, in `finally`, or after. `Throw` is what an exception does in each.
`scene` and `last`
are the loop over the scenes, `exc` an exception that waits for `finally` to end.
`Health`, `Infer`, `Send`, `Classify` are requests, `Attempt...` the loop of scene 5,
`Compose` and `ComposeFails` the docker commands, `Poll`, `PollSucceeds`, `WaitFails`
`_wait_for_health`; `Interrupt` is Ctrl-C, anywhere. `Boot`, `Refill` and
`Effects` are the stack, which is external. `before` and `trouble` are history
variables: the stack when the demo began, and where a step raised.

**RateLimiter.** `Check` reads the clock, `Count` is the MULTI/EXEC transaction
and the decision, `Remove` the separate ZREM; `CountFails`, `RemoveFails` and
`Crash` the faults. `entries` and `expires` are the sorted set and the EXPIRE of
its key. `MaxDelay` bounds how late a command may reach Redis.

**Application.** `Load`, `LoadFails`, `Started`, `CloseAdapter`, `CloseRedis`,
`CloseFails` are `lifespan`; `TurnAway`, `AskLimiter`, `AskModel`,
`AskUnknownModel`, `AskHealth` what happens to a request before it is first
suspended; the rest what happens then. `Handled` is the table of exception
handlers; `RaiseUnexpected` is any other exception, which reaches the outermost
middleware without `record_metrics` counting it. `Count` is `record_metrics` with
its exemption of `/metrics`, whose requests are `Scrape`. Each wrapper, client and
counter of the code is a variable. The two services are reduced here to what
they do with breaker and provider; their own modules have the details.

Operators under *Mutated forms* in the modules are plausible slips in the
same code. Nothing uses them: each is put in place of the definition it
resembles to see that the property it is meant for notices.

## 3. The runs

Every passing run is exhaustive over its instance. `now` is bounded by
`MaxTime`, requests by their sets, faults by `MaxFaults`, arrivals of
`/v1/infer` by `ArriveBy`, chunks by `MaxChunks`. `CHECK_DEADLOCK FALSE` is set
everywhere because all requests end and the bounded clock stops.

| Run (cfg) | Instance | Shows |
|---|---|---|
| `breaker` (`MCBreakerClients`) | 5 calls, threshold 2, window 2, recovery 4, 2 ticks/s | no opening without a threshold of failures in one window; the retry time is short by less than a second; `AbstractBreaker`, whose log is never pruned, is implemented |
| `infer` (`MCInferenceService`) | 3 requests, 1 key, prompt steps, the times in their shipped order: lock 1, wait 2, call up to 3; 1 fault of any kind, fair | followers have something to wait for; every request ends, and within one wait and one call |
| `infer_loose` (`MCInferenceClients`) | 3 requests, 2 keys, no timing assumption, 1 fault of any kind | answers fit their question; one leader per key, which releases its own lock, until Redis drops one; no newcomer calls through an open circuit; `AbstractInference` and `BreakerClients` are implemented |
| `stream` (`MCStreamingService`) | 2 streams of up to 2 chunks, threshold 1, fair | audit and breaker agree; the audit misses one token at most; `[DONE]` means complete; every started stream is audited and its connection closed, unless its client stalls for good; `BreakerClients` and `AbstractAdapter` are implemented |
| `adapter` (`MCLLMAdapter`) | 2 calls of either kind, either adapter, 1 connection, bodies of up to 2 lines, configs with and without reserved keys, fair but for the consumer | chunks are the contents, in order; the end of a call tells what happened; no call waits for good, whatever the clients do; `AbstractAdapter` is implemented |
| `limiter` (`MCRateLimiter`) | 4 requests, limit 2, window 5, delay 1, 1 fault | the limit holds for any window less the delay; the allowed are counted for a whole window; declines have a cause; waiting as told is rewarded |
| `app` (`MCApplication`) | 2 requests to any route, threshold 1, 2 models, fair | counters agree with answers; requests find loaded models and open clients; `/health` says "open" exactly while requests are refused; a shutdown ends, unless a stream's client stalls for good |
| `demo` (`MCDemo`) | any choice of scenes, run after run on the stack the last one left; 4 attempts, limit 2, 2 polls, fair | what the demo breaks it repairs or reports; every run ends with its client closed |

The properties of each run, in the order of its cfg (besides `TypeOK`):

- `breaker`: `OpeningIsJustified`, `RetryAfterIsShortByLessThanASecond`,
  `RefinesAbstractBreaker`.
- `infer`: `NobodyWaitsInVain`, `AnsweredInTime`, `EveryRequestEnds`.
- `infer_loose`: `AnswersFitTheQuestion`, `OneLeaderPerKey`, `LeaderHoldsTheLock`,
  `NoNewcomerCallsAnOpenCircuit`, `RefinesAbstractInference`, `RefinesBreakerClients`.
- `limiter`: `LimitHoldsUpToTheDelay`, `AllowedAreCounted`,
  `DeclinesHaveACause`, `WaitingIsRewarded`.
- `stream`: `AuditAgreesWithTheBreaker`, `AuditMissesOneTokenAtMost`,
  `DoneMeansComplete`, `RefinesBreakerClients`, `EveryStreamIsAudited`,
  `EveryConnectionCloses`, `DrivesTheAdapterAsAgreed`.
- `adapter`: `ChunksAreTheContents`, `TellsWhatHappened`, `NobodyWaitsForGood`,
  `KeepsTheContract`.
- `app`: `CountersTellTheTruth`, `RequestsFindWhatTheyUse`,
  `HealthTellsAdmission`, `ShutdownEnds`.
- `demo`: `BreaksNothingUnnoticed`, `EveryRunEnds`.

Why the bounds are enough. Each instance is the smallest in which the
interesting case happens, and a bit more. *breaker*: opening takes two failures,
so five calls leave room for a late failure and a late success from before the
opening, a refused call and a retry; the clock passes one whole window and two
recoveries. *infer*: a leader, a follower that becomes a
leader after the first one failed or lost its lock, and a newcomer; the last arrives at
1, when a lock taken at 0 has run out, and the clock goes on for a wait (2) and a call
(3) more. *infer_loose*: the
lock and the entry (1 tick each) run out under a call (2), a second leader begins, and the
first one's late release meets its lock. *stream*: two chunks are
the least that tell "the last token" from "all tokens", two streams the least
that meet at the breaker. *adapter*: one connection for two calls, so that one waits
for the other; two lines are the least that have an order, and that put something
after a `[DONE]` or a malformed line. *limiter*: limit 2 plus one declined plus one that
comes back; the window is long enough for the retry time to end inside the
clock. *app*: one request that opens the circuit and one that meets it open;
all else concerns a single request and the lifespan. *demo*: one process; the loop
of scene 5 reaches both of its ends, and a wait its deadline after a poll that
succeeds, one that fails, and none.

Symmetry is used for calls, requests and keys in runs without liveness properties
only.

**Fairness.** `InferenceService`: weak fairness of each request's steps and of
the clock: Redis commands and adapter calls end or raise (the HTTP client has a
timeout), the event loop runs what is ready, time passes. No request need arrive.
`StreamingService`: weak fairness of what a stream does while it is not suspended at
a `yield` (`Advance`), and of the event loop's finalizer; none of its consumer, which
need neither take an event nor drop the stream, since no code and no timeout of the
server makes it. `EveryStreamIsAudited` and `EveryConnectionCloses` therefore hold of
every stream but those whose client keeps them suspended for good (`Stalls`), and of
these they cannot hold: `adapter_stalled` shows it. `LLMAdapter`: weak
fairness of what happens of itself, since httpx's timeout ends every wait for a
connection, a response or a line; none of the consumer, which need not ask for the
next chunk. `Demo`: weak fairness of the script's steps (its requests have a
timeout of 35 s, docker is taken to return and the operator to press Enter); none
of the stack, whose app need not come up again.
`Application`: weak fairness of each admitted request but for the end of its stream
(`StreamEnds`), of uvicorn's draining and of the two closes in the shutdown; a close
may raise. No signal need come. uvicorn waits for open connections without a timeout
(`Dockerfile:31` sets none), so `ShutdownEnds` excepts a stream whose client stalls for
good.

### Disagreements between documents and code

Each of these runs is expected to find a violation.

| Run and property | Document | Code |
|---|---|---|
| `infer_herd` `OneCallPerHerd` | `DECISIONS.md:82` one LLM call instead of N | a request that missed the cache before the leader stored, and asks for the lock after it was released, becomes a leader without looking again |
| `infer_outlived` `OneLeaderAtATime` | `DECISIONS.md:82` the first request acquires the lock, every other one for the same input sees it and waits | the lock (10 s, `request_collapsing.py:15`) is not renewed while the leader's call goes on (up to `LLM_TIMEOUT`, 30 s): when it runs out, the next request leads too, and the first one's release deletes its lock |
| `adapter_stalled` `StalledStreamsAreClosed` | `DECISIONS.md:96` a client that stalls beyond `LLM_TIMEOUT` has its generator cancelled and the upstream connection closed | at a `yield` no timeout runs and nobody cancels: the connection is held as long as the client stalls |
| `app_refused_stream` `RefusedMeans503` | `DECISIONS.md:88` both endpoints return 503 while open; `main.py:67` the counter of rejections | a refused stream is 200 with an error event, and not in the counter |

Smaller observations, seen while modelling, for which no run is kept: the entry of a
declined request counts against others until its ZREM has run, and for a window if that
command fails, though `rate_limiter.py:41` says "declined requests must not consume
quota" and `DECISIONS.md:52` the same (`DeclinesHaveACause` says that nothing else of a
declined request does); a stream whose client stalls also keeps a shutdown from ending;
a connection error at `try_acquire` makes the request a follower that
polls for up to 15 s, while `DECISIONS.md:72` says that collapsing is skipped; a
body that ends without `[DONE]` is taken for a complete answer (`http.py:53`), and
`data:` without a space, which server-sent events allow, is skipped; the demo
leaves the stack broken if it is interrupted before the `try` of scenes 6 and 7
(`demo.py:201`, `demo.py:239`), and its scene 5 run twice in a minute raises, because
the first answer it gets is a 429; a failure
of a call admitted before the opening restarts the recovery timeout, so the
remaining time of an open circuit can grow (`circuit_breaker.py:53`;
`DECISIONS.md:180` says it decreases); `retry_after_s` is cut, not rounded up, so
it can be short by less than a second; a stream dropped at a `yield` is audited
without the token it had just sent (`AuditMissesOneTokenAtMost` says how much can
be missing); with transactions delayed, slightly more than the limit can pass in
one full window (`LimitHoldsUpToTheDelay` says which window holds); a follower
whose wait timed out calls the provider on a breaker check as old as its wait
(`NoNewcomerCallsAnOpenCircuit` says for whom the breaker holds); `/health` spells
`half-open`, `docs/manual-checks.md:274` `half_open`; a failed start-up leaves its
clients open; streams record no tokens; a 500 from an unexpected exception is in
no counter.

## 4. The proofs

TLAPS proves the following for all values of the constants that satisfy the
named assumptions; TLC evaluates the same assumptions in every run.

**`BreakerClients_proof`.** The inductive invariant is `BreakerInv`: types, the
coherence of the fields, `PruningLosesNothing`, `OpeningIsJustified`, and that
no failure lies in the future. `OpeningIsJustified` alone is not inductive: that
the list reaches the threshold says something about the history only because the
list holds every failure the window needs (`PruningLosesNothing`). From it:
`TypeCorrectness`, `Coherence`, `PruningIsSound`, `OpeningsAreJustified`;
`BreakerKeepsItsPromise`, the refinement of `AbstractBreaker`, where the pruned
list and the whole log have the same window and the three states the same
meaning as the opening time; and `RetryAfterIsHonest`, the arithmetic of the cut-off.
All of it with restarts of the process, after which nothing is owed to the failures
before.

**`InferenceService_proof`.** Each invariant is inductive next to `TypeOK`.
*Provenance* (what cache, lock and requests know about where an answer comes
from) holds whatever the timing, and gives `AnswersAreRight` and
`ServiceKeepsItsPromise`, the refinement of `AbstractInference`. *Schedule* (how
long each request has been where it is) assumes `Prompt` and gives
`RequestsAreAnsweredInTime`.
`OpenCircuitKeepsNewcomersOut` rests on *Gate*, who has passed the breaker since it
opened; `RedisTroubleOpensNothing` on *Blame*: each failure the breaker keeps is that
of a failed request of its own, so the failures inject into the failed requests.
`FollowersHaveALeader` assumes `Prompt`. *Attention* says that until the first fault
every lock is that of somebody who is at work on its key or has failed at it, and
that a leader about to release has left its answer in the cache; the answer
does not expire while somebody prompt waits for it.

**`InferenceClients_proof`.** `RequestsAreClients`: each step of `infer`, with what
is recorded of it, is one step of one client or none, a failed call of the provider
is the only one that reports a failure, and a crash is a restart (one lemma for what a
move of one request records, one for each action). The theorems of
`BreakerClients_proof` are then taken over by instantiating that module with
`call <- callOf` (`Breaker!...`): `BreakerOfInferIsSound`, `InferIsBlockedAsPromised`
(`infer` with its breaker implements `AbstractBreaker`) and `RefusalsAreHonest`, the
retry time of `CircuitOpenError`. That only the provider opens the circuit
(`OnlyTheProviderOpensTheCircuit`), which `InferenceService_proof` proves of the
requests directly, is a weaker form of `RequestsAreClients` and has no run.

*Leadership*, that a leader's lock is its own unless its key has lapsed, is inductive
next to `TypeOK`: `LeadershipIsKept` says what a step may do to a leader, and
`LeaderHoldsItAlone` that a lock which has not lapsed has one leader, so that neither
SET NX nor another request's DEL can touch it. It gives `LeadersReleaseTheirOwnLock` and
`OneLeader`. Nothing in this module assumes any timing, and any fault may happen.

**`RateLimiter_proof`.** `LimiterInv`: every entry stands for one request that
read that clock and is counted for a reason, and the key outlives it; checks are
on time; the allowed are counted for a window; the limit holds at every time.
An entry is evicted only by a transaction with a clock a window later, or
expires a window after the last transaction, so a transaction executed within
`MaxDelay` of its own clock finds everybody let through in the last
`Window - MaxDelay`. It gives `TheLimitHolds`, `AllowedRequestsCount` and
`DeclinedForACause`, for any finite set of requests and any faults.
`RetryAfterIsRewarded` needs the stronger `RewardInv`: an entry of an allowed request is
never missing while an older entry is there (`EntriesAreGapless`), the allowed
among the entries do not exceed the limit, however old, and whoever was declined last
was told to wait for the end of an entry whose request was allowed and has, itself
included, at most `Limit` allowed ones since (`ToldWithReason`); or of one that was
itself being declined, which is soon gone. When that entry leaves the window there is room. It is
the one place that needs `Limit > 0` (`settings.py:16`): with a limit of 0 there is no
time to wait for.

**`StreamingService_proof`.** `StreamInv` adds to the three audit properties what
a suspended stream has counted and reported so far (`Bookkeeping`): without it the
`finally` block could write down anything. It is proved for one stream at a time
(`InOrder`), as a step leaves every other stream alone. It gives
`AuditAndBreakerAgree`, `AuditIsShortByOneAtMost` and `CompletionIsTrue`, and
`StreamsAreClients` shows that streams are clients as `BreakerClients` describes
them, so its theorems hold of a breaker under streams, and are stated of them:
`BreakerOfStreamsIsSound`, `StreamsAreBlockedAsPromised`, `RefusedStreamsAreToldHonestly`. `StreamsDriveTheAdapterAsAgreed`
shows in the same way that they use the adapter as `AbstractAdapter` says: each step
of a stream moves one generator of the contract or none.

**`LLMAdapter_proof`.** `AdapterInv` has, besides types, three parts for each call: *Placed*, where its connection and its exception are at
each suspension point; *Said*, what it has read and raised by then, without which
nothing could be said of its end; and *Passed*, that its chunks are the contents it
has read. `StreamsAskForEvents` (no config changes what the provider is asked
for) and `Translation` (what the clauses make of each exception) are lemmas of their
own. It gives `ContentsAreRelayed`, `ConsumersAreTold` (which does not say that a good end
read `[DONE]`: a body that just ends is a good end to the code too) and `AdapterKeepsItsContract`,
for any number of calls and connections, bodies of any length and any config.

**`Application_proof`.** `AppInv`: where each request stands and what it has asked
for (`Routed`), `LoadsAreAwaited`, `ClientsAreClosedLast`, `OpenIsDated`, and
`CountersTellTheTruth`. Every step of a request is an answer, a suspension or an
unexpected exception (`RequestMoves`); the counters are followed through these
three and not through each action. `Routed` is what the counters need: that a
request not yet answered is in none of the sets they stand for, and that only
`/v1/infer` hits the cache or is refused with an answer. `OpenIsDated` is what
`HealthIsHonest` needs. It gives `CountersAreTrue`, `ServedModelsAreLoaded`,
`ClientsAreThereWhenNeeded`, `RequestsAreProvidedFor` and `HealthIsHonest` for any finite set of requests.

**`Demo_proof`.** `DemoInv` keeps books of the script: at each step of each scene,
what the scene may have broken by then (`HasBroken`), and the stack is never more
broken than that and what it was when the demo began. Four facts about the scenes are
enough for that, each checked scene by scene: a step leaves no more behind than the
books of the next one say; what may be broken anywhere in a `try` block may be broken
where its `finally` begins; when the `finally` has ended, nothing is; and a step after
it breaks nothing. An exception waits only in a `finally` block. It gives
`DemoCleansUp`, and `EveryStepIsForward`, the safety half of `EveryRunEnds`: no step of
the script goes back or leaves it where it is, and all it counts is bounded, so no run
has more than a bounded number of steps.

Only model-checked: the properties under fairness (`EveryRequestEnds`,
`EveryStreamIsAudited`, `EveryConnectionCloses`, `NobodyWaitsForGood`,
`ShutdownEnds`, `EveryRunEnds`), since liveness is out of TLAPS' reach. Every
invariant and every other action property or refinement of a passing run is a theorem.

## 5. What is not modelled

- Redis errors other than `ConnectionError` inside `infer`, malformed results of the
  adapter, and data loss of Redis under the limiter (which forgets its counts).
  In `Application` any other error is `RaiseUnexpected`.
- Clock jumps: `time.time()` in the limiter is taken to move with Redis' clock.
- Payload contents: the cache key is taken to be injective in model, input and
  config (SHA-256 of sorted JSON), chunks are counted, texts are opaque.
- Spans, log lines, response headers, request ids, tracing set-up.
- The classifier and its text processing (pure functions of one call); the numbers
  of `_extract_usage`, whose conversion errors are `AnswerInfer`'s `Exception`;
  `health_check` of the adapters, which nothing in `src/app` calls.
- The sanitiser of log fields, settings and schemas: formatting and validation
  without state.
- Load generator and training script: nothing in them outlives a step.
- What happens to an audit task after its dispatch, and the clients of a start-up
  that failed: no document promises anything, and the process ends.

## 6. Plan

1. Core: breaker, inference, streaming, limiter, application, with the proofs above. Done.
2. Extend: the adapters and their contract with the streaming service, the demo. Done.
   Left: several processes on one Redis; threads of the classifier at the pool's limit.
3. Prove more: invariants for all properties that are not about fairness, and
   `InferenceService` as a client of `BreakerClients`, as `StreamingService` is. Done.
   Left: the safety half of the other liveness properties (a measure that every step of
   a stream, a request or a shutdown brings down, as `EveryStepIsForward` does for the
   demo), and both services on one breaker as one theorem.

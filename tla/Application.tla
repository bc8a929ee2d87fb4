------------------------------ MODULE Application ------------------------------
(***************************************************************************)
(* The application around the services: start-up and shutdown (lifespan of *)
(* app/main.py, the model registries), the routes with their dependencies, *)
(* the exception handlers of app/api/exception_handlers.py, the metrics of *)
(* record_metrics, and GET /health, which shares the circuit breaker with  *)
(* the two inference routes.                                               *)
(*                                                                         *)
(* A request is one of the breaker's Calls.  It is suspended while Redis   *)
(* counts it or answers a ping, while a thread predicts, and while         *)
(* InferenceService or StreamingService work; modules of their own say     *)
(* what those do, here they only ask the breaker, call the provider, and   *)
(* return or raise.                                                        *)
(*                                                                         *)
(* An exception that has a handler becomes an answer inside                *)
(* record_metrics.  Exception itself is handled by the outermost           *)
(* middleware: on its way there it passes through record_metrics, which is *)
(* left without counting.                                                  *)
(***************************************************************************)
EXTENDS CircuitBreaker

CONSTANT Versions  \* LOCAL_WRAPPERS: the versions of the classifier

VARIABLES
    phase,         \* of the lifespan
    adapter,       \* the provider's client
    redis,         \* redis_client
    model,         \* how far the load() of each wrapper is
    modelsLoaded,  \* app.state.models_loaded
    pc,            \* where each request stands
    path,          \* request.url.path
    valid,         \* whether the body fits its schema
    answer,        \* the answer of each request, or None
    circuit,       \* llm_circuit of each health answer
    httpRequests,  \* HTTP_REQUESTS
    rateLimits,    \* RATE_LIMITS
    circuitOpens,  \* CIRCUIT_OPENS
    cacheHits,     \* CACHE_HITS
    tokens,        \* how often TOKENS was increased
    refused,       \* history: the requests the breaker refused
    paid           \* history: the requests of /v1/infer the provider answered

lifespanVars == <<phase, adapter, redis, model, modelsLoaded>>
counters == <<httpRequests, rateLimits, circuitOpens, cacheHits>>
requestVars == <<pc, path, valid, answer, circuit, counters, tokens, refused, paid>>
vars == <<now, breakerVars, lifespanVars, requestVars>>

Phase == {"starting", "serving", "draining", "closing", "stopped", "failed"}

Infer == "infer"
Stream == "infer_stream"
Classify == "classify"
Health == "health"
Metrics == "metrics"

\* _metric_path_label: what is not tracked is counted as "other".
Labels == {Infer, Stream, Classify, Health, "other"}
Paths == Labels \cup {Metrics}

\* Suspended in check_rate_limit, in InferenceService.infer before and during the
\* provider's call, in StreamingService.stream likewise, in predict, in ping.
PC == {"new", "limiting", "inferring", "calling", "opening", "streaming", "predicting",
       "pinging", "ended"}

\* What record_metrics can tell of a response: its status, and of its body the
\* error in it or that it says cache_hit.
Answer(status, body) == [status |-> status, body |-> body]
Ok == Answer(200, "any")
Cached == Answer(200, "cache_hit")
Unexpected == Answer(500, "internal_server_error")

\* The answer of the handler registered for each exception.
Handled ==
    [ RateLimitExceeded      |-> Answer(429, "rate_limit_exceeded"),
      CircuitOpenError       |-> Answer(503, "service_unavailable"),
      ModelVersionNotFound   |-> Answer(400, "model_version_not_found"),
      TimeoutError           |-> Answer(504, "LLM_provider_timeout"),
      UpstreamProviderError  |-> Answer(502, "upstream_provider_error"),
      ConnectionError        |-> Answer(503, "service_temporarily_degraded"),
      RequestValidationError |-> Answer(422, "any"),
      Unauthorized           |-> Answer(401, "any"),
      NotFound               |-> Answer(404, "any") ]

Answers == {Ok, Cached, Unexpected} \cup {Handled[e] : e \in DOMAIN Handled}

ASSUME ApplicationAssumption ==
    /\ IsFiniteSet(Calls)
    /\ None \notin Answers
    /\ None \notin State

TypeOK ==
    /\ BreakerTypeOK
    /\ phase \in Phase
    /\ adapter \in {"stub", "open", "closed"}
    /\ redis \in {"open", "closed"}
    /\ model \in [Versions -> {"loading", "loaded", "failed"}]
    /\ modelsLoaded \subseteq Versions
    /\ pc \in [Calls -> PC]
    /\ path \in [Calls -> Paths \cup {None}]
    /\ valid \in [Calls -> BOOLEAN]
    /\ answer \in [Calls -> Answers \cup {None}]
    /\ circuit \in [Calls -> State \cup {None}]
    /\ httpRequests \in [Labels \X (2 .. 5) -> Nat]
    /\ <<rateLimits, circuitOpens, cacheHits, tokens>> \in Nat \X Nat \X Nat \X Nat
    /\ refused \subseteq Calls
    /\ paid \subseteq Calls

\* The clients are built and all loads started before anything is awaited.
Init ==
    /\ now = 0
    /\ BreakerInit
    /\ phase = "starting"
    /\ adapter \in {"stub", "open"}
    /\ redis = "open"
    /\ model = [v \in Versions |-> "loading"]
    /\ modelsLoaded = {}
    /\ pc = [r \in Calls |-> "new"]
    /\ path = [r \in Calls |-> None]
    /\ valid = [r \in Calls |-> TRUE]
    /\ answer = [r \in Calls |-> None]
    /\ circuit = [r \in Calls |-> None]
    /\ httpRequests = [k \in Labels \X (2 .. 5) |-> 0]
    /\ rateLimits = 0 /\ circuitOpens = 0 /\ cacheHits = 0 /\ tokens = 0
    /\ refused = {}
    /\ paid = {}

-----------------------------------------------------------------------------
(* Mutated forms: slips one could make in this code.  Not part of the model. *)

CountsEvery503(r, a) ==
    /\ cacheHits' = IF path'[r] = Infer /\ a.body = "cache_hit" THEN cacheHits + 1 ELSE cacheHits
    /\ circuitOpens' = IF path'[r] = Infer /\ a.status = 503
                       THEN circuitOpens + 1 ELSE circuitOpens
    /\ IF path'[r] = Metrics
       THEN UNCHANGED <<httpRequests, rateLimits>>
       ELSE /\ httpRequests' = [httpRequests EXCEPT ![<<path'[r], a.status \div 100>>] = @ + 1]
            /\ rateLimits' = IF a.status = 429 THEN rateLimits + 1 ELSE rateLimits
ReadCircuitUnasked(r) == circuit' = [circuit EXCEPT ![r] = state] /\ UNCHANGED breakerVars
CloseAdapterOnSignal ==
    /\ phase = "draining" \/ phase = "closing"
    /\ adapter = "open"
    /\ adapter' = "closed"
    /\ UNCHANGED <<now, breakerVars, phase, redis, model, modelsLoaded, requestVars>>

CloseRedisAfterHttp ==
    /\ phase = "closing"
    /\ adapter = "closed"
    /\ redis' = "closed"
    /\ phase' = "stopped"
    /\ UNCHANGED <<now, breakerVars, adapter, model, modelsLoaded, requestVars>>

-----------------------------------------------------------------------------
(* Answers and metrics.                                                     *)

\* record_metrics, once a response is there.
Count(r, a) ==
    /\ cacheHits' = IF path'[r] = Infer /\ a.body = "cache_hit" THEN cacheHits + 1 ELSE cacheHits
    /\ circuitOpens' = IF path'[r] = Infer /\ a.status = 503 /\ a.body = "service_unavailable"
                       THEN circuitOpens + 1 ELSE circuitOpens
    /\ IF path'[r] = Metrics
       THEN UNCHANGED <<httpRequests, rateLimits>>
       ELSE /\ httpRequests' = [httpRequests EXCEPT ![<<path'[r], a.status \div 100>>] = @ + 1]
            /\ rateLimits' = IF a.status = 429 THEN rateLimits + 1 ELSE rateLimits

\* The response leaves the application; the request stands at label afterwards.
RespondAt(r, a, label) ==
    /\ answer' = [answer EXCEPT ![r] = a]
    /\ pc' = [pc EXCEPT ![r] = label]
    /\ Count(r, a)

Respond(r, a) == RespondAt(r, a, "ended")

\* An exception with a handler of its own.
Raise(r, exception) == Respond(r, Handled[exception])

\* Any other exception: record_metrics is left, the outermost middleware answers.
RaiseUnexpected(r) ==
    /\ answer' = [answer EXCEPT ![r] = Unexpected]
    /\ pc' = [pc EXCEPT ![r] = "ended"]
    /\ UNCHANGED counters

Suspend(r, label) ==
    /\ pc' = [pc EXCEPT ![r] = label]
    /\ UNCHANGED <<answer, counters>>

\* The request is suspended here; what it asked for does not change.
At(r, labels) == pc[r] \in labels /\ UNCHANGED <<path, valid>>

Unspent == UNCHANGED <<tokens, refused, paid>>
Elsewhere == UNCHANGED <<now, lifespanVars>>
Quiet == UNCHANGED <<circuit, breakerVars>> /\ Unspent /\ Elsewhere

-----------------------------------------------------------------------------
(* Start-up and shutdown.                                                   *)

\* A load() returns from its thread.
Load(v) ==
    /\ model[v] = "loading"
    /\ model' = [model EXCEPT ![v] = "loaded"]
    /\ UNCHANGED <<now, breakerVars, phase, adapter, redis, modelsLoaded, requestVars>>

\* A load() raises: gather raises too and the start-up is over; other threads go on,
\* and nobody closes the clients.
LoadFails(v) ==
    /\ model[v] = "loading"
    /\ model' = [model EXCEPT ![v] = "failed"]
    /\ phase' = IF phase = "starting" THEN "failed" ELSE phase
    /\ UNCHANGED <<now, breakerVars, adapter, redis, modelsLoaded, requestVars>>

\* gather has every result: the services are built and the lifespan yields.
Started ==
    /\ phase = "starting"
    /\ \A v \in Versions : model[v] # "loading"
    /\ phase' = "serving"
    /\ modelsLoaded' = Versions
    /\ UNCHANGED <<now, breakerVars, adapter, redis, model, requestVars>>

\* SIGTERM: uvicorn takes no more requests, lets the ones it has end and then
\* resumes the lifespan.
Terminate ==
    /\ phase = "serving"
    /\ phase' = "draining"
    /\ UNCHANGED <<now, breakerVars, adapter, redis, model, modelsLoaded, requestVars>>

Drained ==
    /\ phase = "draining"
    /\ \A r \in Calls : pc[r] \in {"new", "ended"}
    /\ phase' = "closing"
    /\ UNCHANGED <<now, breakerVars, adapter, redis, model, modelsLoaded, requestVars>>

\* adapter.aclose(): the stub has none.
CloseAdapter ==
    /\ phase = "closing"
    /\ adapter = "open"
    /\ adapter' = "closed"
    /\ UNCHANGED <<now, breakerVars, phase, redis, model, modelsLoaded, requestVars>>

\* redis_client.aclose(), after the adapter's.
CloseRedis ==
    /\ phase = "closing"
    /\ adapter # "open"
    /\ redis' = "closed"
    /\ phase' = "stopped"
    /\ UNCHANGED <<now, breakerVars, adapter, model, modelsLoaded, requestVars>>

\* Either aclose() raises: the lifespan ends there.
CloseFails ==
    /\ phase = "closing"
    /\ phase' = "failed"
    /\ UNCHANGED <<now, breakerVars, adapter, redis, model, modelsLoaded, requestVars>>

Tick ==
    /\ now < MaxTime
    /\ now' = now + 1
    /\ UNCHANGED <<breakerVars, lifespanVars, requestVars>>

-----------------------------------------------------------------------------
(* Arrivals.  A body that is no JSON is refused before the dependencies run,  *)
(* one that does not fit the schema only after they have.                    *)

Arrive(r, p, ok) ==
    /\ phase = "serving"
    /\ pc[r] = "new"
    /\ path' = [path EXCEPT ![r] = p]
    /\ valid' = [valid EXCEPT ![r] = ok]
    /\ Quiet

\* No such route, no JSON, or no known X-API-Key.
TurnAway(r) ==
    \/ Arrive(r, "other", TRUE) /\ Raise(r, "NotFound")
    \/ \E p \in {Infer, Stream, Classify} :
        \/ Arrive(r, p, FALSE) /\ Raise(r, "RequestValidationError")
        \/ Arrive(r, p, TRUE) /\ Raise(r, "Unauthorized")

\* check_rate_limit asks Redis before the body is looked at.
AskLimiter(r) ==
    \E p \in {Infer, Stream}, ok \in BOOLEAN : Arrive(r, p, ok) /\ Suspend(r, "limiting")

\* classify: a wrapper that is not loaded raises RuntimeError.
AskModel(r) ==
    \E v \in Versions :
        /\ Arrive(r, Classify, TRUE)
        /\ IF model[v] = "loaded" THEN Suspend(r, "predicting") ELSE RaiseUnexpected(r)

\* An X-Model-Version that the registry does not know.
AskUnknownModel(r) == Arrive(r, Classify, TRUE) /\ Raise(r, "ModelVersionNotFound")

AskHealth(r) == Arrive(r, Health, TRUE) /\ Suspend(r, "pinging")

\* GET /metrics: the Instrumentator's route answers at once.
Scrape(r) == Arrive(r, Metrics, TRUE) /\ Respond(r, Ok)

-----------------------------------------------------------------------------
(* Requests under way.                                                      *)

\* Redis has counted the request: a stream is answered 200 here, before its
\* generator has run at all.
LimiterAllows(r) ==
    /\ At(r, {"limiting"})
    /\ \/ ~valid[r] /\ Raise(r, "RequestValidationError")
       \/ valid[r] /\ path[r] = Infer /\ Suspend(r, "inferring")
       \/ valid[r] /\ path[r] = Stream /\ RespondAt(r, Ok, "opening")
    /\ Quiet

\* More than the limit, or no Redis.
LimiterRefuses(r) ==
    /\ At(r, {"limiting"})
    /\ Raise(r, "RateLimitExceeded") \/ Raise(r, "ConnectionError")
    /\ Quiet

\* InferenceService: the answer is in the cache, at first or after a wait.
ServeFromCache(r) ==
    /\ At(r, {"inferring", "calling"})
    /\ Respond(r, Cached)
    /\ Quiet

\* Both services ask is_open().
AskBreaker(r) ==
    /\ At(r, {"inferring", "opening"})
    /\ IsOpen
    /\ IF ~StillOpen
       THEN /\ Suspend(r, IF pc[r] = "inferring" THEN "calling" ELSE "streaming")
            /\ UNCHANGED refused
       ELSE /\ refused' = refused \cup {r}
            /\ \/ pc[r] = "inferring" /\ Raise(r, "CircuitOpenError")
               \/ pc[r] = "opening" /\ Suspend(r, "ended")
    /\ UNCHANGED <<circuit, tokens, paid>>
    /\ Elsewhere

\* The provider answers: usage is recorded at once; what is left may still raise.
ProviderAnswers(r) ==
    /\ At(r, {"calling"})
    /\ RecordSuccess
    /\ tokens' = tokens + 1
    /\ paid' = paid \cup {r}
    /\ Respond(r, Ok) \/ RaiseUnexpected(r)
    /\ UNCHANGED <<circuit, refused>>
    /\ Elsewhere

ProviderFails(r) ==
    /\ At(r, {"calling"})
    /\ RecordFailure(r)
    /\ Raise(r, "TimeoutError") \/ Raise(r, "UpstreamProviderError") \/ RaiseUnexpected(r)
    /\ UNCHANGED circuit
    /\ Unspent
    /\ Elsewhere

\* The stream's answer is long given: nothing of its end shows in a counter.
StreamEnds(r) ==
    /\ At(r, {"streaming"})
    /\ Suspend(r, "ended")
    /\ RecordSuccess \/ RecordFailure(r) \/ UNCHANGED breakerVars
    /\ UNCHANGED circuit
    /\ Unspent
    /\ Elsewhere

Predict(r) ==
    /\ At(r, {"predicting"})
    /\ Respond(r, Ok)
    /\ Quiet

\* The response of /health: is_open() is asked for its effect alone.
ReadCircuit(r) ==
    /\ IsOpen
    /\ circuit' = [circuit EXCEPT ![r] = state']

\* The ping is answered or fails; both are answered 200.
Pong(r) ==
    /\ At(r, {"pinging"})
    /\ ReadCircuit(r)
    /\ Respond(r, Ok)
    /\ Unspent
    /\ Elsewhere

\* Redis raises anything but ConnectionError, also at the lock, a prediction raises.
Break(r) ==
    /\ At(r, {"limiting", "inferring", "calling", "pinging", "predicting"})
    /\ RaiseUnexpected(r)
    /\ Quiet

-----------------------------------------------------------------------------

\* What goes on of itself: an admitted stream, which goes on as its client reads, does
\* not.
Progress(r) ==
    \/ LimiterAllows(r) \/ LimiterRefuses(r) \/ ServeFromCache(r) \/ AskBreaker(r)
    \/ ProviderAnswers(r) \/ ProviderFails(r) \/ Predict(r) \/ Pong(r) \/ Break(r)

Next ==
    \/ \E v \in Versions : Load(v) \/ LoadFails(v)
    \/ Started \/ Terminate \/ Drained \/ CloseAdapter \/ CloseRedis \/ CloseFails
    \/ Tick
    \/ \E r \in Calls :
        \/ TurnAway(r) \/ AskLimiter(r) \/ AskModel(r) \/ AskUnknownModel(r) \/ AskHealth(r)
        \/ Scrape(r) \/ Progress(r) \/ StreamEnds(r)

Spec == Init /\ [][Next]_vars

\* Redis, the provider and the threads answer or time out, the loop runs what is
\* ready.  Nobody has to send a request or a signal, and no client has to read its
\* stream: nothing in the code or the server bounds how long one stays suspended.
FairSpec ==
    /\ Spec
    /\ WF_vars(Drained) /\ WF_vars(CloseAdapter) /\ WF_vars(CloseRedis)
    /\ \A r \in Calls : WF_vars(Progress(r))

-----------------------------------------------------------------------------
(* Properties.                                                              *)

\* Whose answers record_metrics counts: all but unexpected errors, which pass it by,
\* and those of /metrics, which it exempts.
Metered == {r \in Calls : answer[r] # None /\ answer[r] # Unexpected /\ path[r] # Metrics}

\* The counters tell the truth about the answers: each one but those of /metrics is
\* counted once under its path and class, a rejection by the breaker on /v1/infer is
\* told from one for want of Redis, and tokens are recorded for every answer of the
\* provider to /v1/infer, also if the request fails afterwards.  A stream's answer is
\* the 200 it was given, whatever becomes of the stream.
CountersTellTheTruth ==
    /\ \A p \in Labels, k \in 2 .. 5 :
         httpRequests[<<p, k>>] =
           Cardinality({r \in Metered : path[r] = p /\ answer[r].status \div 100 = k})
    /\ rateLimits = Cardinality({r \in Metered : answer[r].status = 429})
    /\ circuitOpens = Cardinality({r \in refused : path[r] = Infer})
    /\ cacheHits = Cardinality({r \in Metered : answer[r] = Cached})
    /\ tokens = Cardinality(paid)

\* Requests meet the models that /health lists, all of them loaded, whatever
\* became of the loads before.
ListedModelsAreLoaded ==
    /\ \A v \in modelsLoaded : model[v] = "loaded"
    /\ phase = "serving" => modelsLoaded = Versions

\* No request under way finds its client closed, and after an orderly shutdown
\* no client is open.
ClientsOutliveTheirUsers ==
    /\ \A r \in Calls :
        /\ pc[r] \in {"limiting", "inferring", "pinging"} => redis = "open"
        /\ pc[r] \in {"inferring", "calling", "opening", "streaming"} => adapter # "closed"
    /\ phase = "stopped" => redis = "closed" /\ adapter # "open"

\* The lifespan frames the requests: none is under way before what it uses is
\* there, nor after it is gone.
RequestsFindWhatTheyUse == ListedModelsAreLoaded /\ ClientsOutliveTheirUsers

\* /health says "open" if and only if a request that asked at that moment would
\* be refused: never of a circuit whose recovery is due.
HealthTellsAdmission ==
    [][\A r \in Calls : circuit'[r] # circuit[r] => (circuit'[r] = Open <=> StillOpen)]_vars

\* A stream that its client keeps suspended for good.
Stalls(r) == <>[](pc[r] = "streaming")

\* A shutdown comes to its end, with either adapter: nothing but a stalled stream
\* keeps uvicorn waiting, and both clients are closed unless closing one raises.
ShutdownEnds ==
    \/ phase = "draining" ~> phase \in {"stopped", "failed"}
    \/ \E r \in Calls : Stalls(r)

-----------------------------------------------------------------------------
(* What DECISIONS.md says of an open circuit, which the code does not do.   *)

\* "While open, /v1/infer and /v1/infer/stream return 503 immediately".
RefusedMeans503 == \A r \in refused : answer[r].status = 503
=============================================================================

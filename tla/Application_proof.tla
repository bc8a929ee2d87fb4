--------------------------- MODULE Application_proof ---------------------------
(***************************************************************************)
(* Theorems about the application, for any finite number of requests and   *)
(* any versions of the classifier.                                         *)
(*                                                                         *)
(* AppInv is the inductive invariant.  A step either belongs to the        *)
(* lifespan and leaves the requests alone, or is a step of one request     *)
(* that is answered, suspended or lost to an unexpected exception          *)
(* (RequestMoves); the counters are looked at once for each of these three *)
(* ways to move and not once for each action.                              *)
(***************************************************************************)
EXTENDS Application, FiniteSetTheorems, TLAPS

-----------------------------------------------------------------------------
(* The fields keep their types.                                             *)

LEMMA BreakerStepsKeepTypes ==
    ASSUME BreakerTypeOK, UNCHANGED now, NEW r \in Calls,
           IsOpen \/ RecordFailure(r) \/ RecordSuccess \/ UNCHANGED breakerVars
    PROVE  BreakerTypeOK'
<1> DEFINE newest == [call |-> r, at |-> now]
<1>1. newest \in Failure /\ IsFiniteSet(failures \cup {newest})
    BY FS_AddElement DEF BreakerTypeOK, Failure
<1>2. CASE IsOpen
    BY <1>2 DEF IsOpen, BreakerTypeOK, State, HalfOpen
<1>3. CASE RecordFailure(r)
  <2>1. /\ failures' = InWindow(failures \cup {newest})
        /\ state' \in {Open, state} /\ openedAt' \in {now, openedAt}
    BY <1>3 DEF RecordFailure
  <2>2. IsFiniteSet(failures')
    BY <1>1, <2>1, FS_Subset DEF InWindow
  <2> QED
    BY <1>1, <2>1, <2>2 DEF BreakerTypeOK, InWindow, State
<1>4. CASE RecordSuccess
    BY <1>4, FS_EmptySet DEF RecordSuccess, breakerVars, BreakerTypeOK, State, Closed
<1>5. CASE UNCHANGED breakerVars
    BY <1>5 DEF breakerVars, BreakerTypeOK
<1> QED
    BY <1>2, <1>3, <1>4, <1>5

Codes == {200, 400, 401, 404, 422, 429, 500, 502, 503, 504}

LEMMA HandledExceptions ==
    \A e \in DOMAIN Handled :
        /\ Handled[e].status \in Codes \ {200, 500}
        /\ Handled[e].body # "cache_hit"
        /\ Handled[e].body = "service_unavailable" => e = "CircuitOpenError"
<1>1. DOMAIN Handled =
        {"RateLimitExceeded", "CircuitOpenError", "ModelVersionNotFound", "TimeoutError",
         "UpstreamProviderError", "ConnectionError", "RequestValidationError",
         "Unauthorized", "NotFound"}
    BY DEF Handled
<1> QED
    BY <1>1 DEF Codes, Handled, Answer

\* What record_metrics finds in the answers there are.
LEMMA AnswersMeasured ==
    /\ \A e \in DOMAIN Handled : Handled[e] \in Answers \ {Ok, Cached, Unexpected}
    /\ Ok \in Answers \ {Cached, Unexpected}
    /\ Cached \in Answers \ {Unexpected} /\ Unexpected \in Answers
    /\ None \notin Answers
    /\ \A a \in Answers : /\ a.status \in Codes
                          /\ a.status \div 100 \in 2 .. 5
                          /\ a.body = "cache_hit" <=> a = Cached
                          /\ a.body = "service_unavailable" => a = Handled["CircuitOpenError"]
    /\ Handled["CircuitOpenError"].status = 503
    /\ Handled["CircuitOpenError"].body = "service_unavailable"
<1>1. /\ Ok.status = 200 /\ Ok.body = "any"
      /\ Unexpected.status = 500 /\ Unexpected.body = "internal_server_error"
      /\ Cached.status = 200 /\ Cached.body = "cache_hit"
    BY DEF Ok, Cached, Unexpected, Answer
<1>2. \A e \in DOMAIN Handled : Handled[e] \in Answers \ {Ok, Cached, Unexpected}
    BY <1>1, HandledExceptions DEF Answers
<1>3. \A n \in Codes : n \in Int /\ n \div 100 \in 2 .. 5
    BY DEF Codes
<1>4. ASSUME NEW a \in Answers
      PROVE  /\ a.status \in Codes
             /\ a.body = "cache_hit" <=> a = Cached
             /\ a.body = "service_unavailable" => a = Handled["CircuitOpenError"]
  <2>1. CASE a \in {Ok, Cached, Unexpected}
    BY <1>1, <2>1 DEF Codes
  <2>2. CASE \E e \in DOMAIN Handled : a = Handled[e]
    BY <1>1, <2>2, HandledExceptions
  <2> QED
    BY <2>1, <2>2 DEF Answers
<1>5. /\ "CircuitOpenError" \in DOMAIN Handled
      /\ Handled["CircuitOpenError"].status = 503
      /\ Handled["CircuitOpenError"].body = "service_unavailable"
    BY DEF Handled, Answer
<1> QED
    BY <1>1, <1>2, <1>3, <1>4, <1>5, ApplicationAssumption DEF Answers

-----------------------------------------------------------------------------
(* A step of one request.                                                   *)

\* A request is answered, or lost to an unexpected exception, or suspended.
Outcome(r) ==
    \/ \E a \in Answers \ {Unexpected}, label \in {"opening", "ended"} : RespondAt(r, a, label)
    \/ RaiseUnexpected(r)
    \/ \E label \in PC : Suspend(r, label)

\* What a step leaves in the histories.
Booked(r) ==
    \/ UNCHANGED <<tokens, refused, paid>>
    \/ refused' = refused \cup {r} /\ UNCHANGED <<tokens, paid>>
    \/ tokens' = tokens + 1 /\ paid' = paid \cup {r} /\ UNCHANGED refused

BreakerMoves(r) == IsOpen \/ RecordFailure(r) \/ RecordSuccess \/ UNCHANGED breakerVars

\* Everything a step of request r may do.
RequestMoves(r) ==
    /\ Outcome(r)
    /\ Booked(r)
    /\ BreakerMoves(r)
    /\ circuit' = circuit \/ ReadCircuit(r)
    /\ UNCHANGED <<now, lifespanVars>>

\* A step with which a request arrives, and one of a request under way.
Arrives(r) ==
    TurnAway(r) \/ AskLimiter(r) \/ AskModel(r) \/ AskUnknownModel(r) \/ AskHealth(r) \/ Scrape(r)
Proceeds(r) == Progress(r) \/ StreamEnds(r)

LEMMA ArrivalsMove ==
    ASSUME NEW r \in Calls, Arrives(r)
    PROVE  RequestMoves(r) /\ \E p \in Paths, ok \in BOOLEAN : Arrive(r, p, ok)
<1>1. {Infer, Stream, Classify, Health, Metrics, "other"} \subseteq Paths
    BY DEF Paths, Labels
<1>2. \E p \in Paths, ok \in BOOLEAN : Arrive(r, p, ok)
    BY <1>1 DEF Arrives, TurnAway, AskLimiter, AskModel, AskUnknownModel, AskHealth, Scrape
<1>3. \/ \E e \in DOMAIN Handled : Raise(r, e)
      \/ RaiseUnexpected(r)
      \/ Respond(r, Ok)
      \/ \E label \in PC : Suspend(r, label)
  <2>1. {"NotFound", "RequestValidationError", "Unauthorized", "ModelVersionNotFound"}
          \subseteq DOMAIN Handled
    BY DEF Handled
  <2>2. {"limiting", "predicting", "pinging"} \subseteq PC
    BY DEF PC
  <2> QED
    BY <2>1, <2>2 DEF Arrives, TurnAway, AskLimiter, AskModel, AskUnknownModel, AskHealth, Scrape
<1>4. Ok \in Answers \ {Unexpected} /\ \A e \in DOMAIN Handled : Handled[e] \in Answers \ {Unexpected}
    BY AnswersMeasured
<1>5. Outcome(r)
    BY <1>3, <1>4 DEF Outcome, Raise, Respond
<1> QED
    BY <1>2, <1>5
    DEF RequestMoves, Arrive, Quiet, Unspent, Elsewhere, Booked, BreakerMoves

LEMMA ProgressMoves ==
    ASSUME NEW r \in Calls, Proceeds(r)
    PROVE  RequestMoves(r) /\ UNCHANGED <<path, valid>>
                           /\ pc[r] \notin {"new", "ended"}
<1>1. \A e \in DOMAIN Handled : Raise(r, e) => Outcome(r)
    BY AnswersMeasured DEF Raise, Respond, Outcome
<1>2. {"RequestValidationError", "RateLimitExceeded", "ConnectionError", "CircuitOpenError",
       "TimeoutError", "UpstreamProviderError"} \subseteq DOMAIN Handled
    BY DEF Handled
<1>3. /\ Respond(r, Ok) \/ Respond(r, Cached) \/ RespondAt(r, Ok, "opening") => Outcome(r)
      /\ RaiseUnexpected(r) => Outcome(r)
    BY AnswersMeasured DEF Respond, Outcome
<1>4. \A label \in {"inferring", "calling", "streaming", "ended"} :
        Suspend(r, label) => Outcome(r)
    BY DEF Outcome, PC
<1>5. Quiet => /\ Booked(r) /\ BreakerMoves(r)
               /\ circuit' = circuit
               /\ UNCHANGED <<now, lifespanVars>>
    BY DEF Quiet, Unspent, Elsewhere, Booked, BreakerMoves
<1>6. ASSUME LimiterAllows(r) \/ LimiterRefuses(r) PROVE RequestMoves(r)
  <2>1. Outcome(r)
    BY <1>1, <1>2, <1>3, <1>4, <1>6 DEF LimiterAllows, LimiterRefuses
  <2> QED
    BY <1>5, <1>6, <2>1 DEF LimiterAllows, LimiterRefuses, RequestMoves
<1>7. ASSUME ServeFromCache(r) \/ Predict(r) \/ Break(r) PROVE RequestMoves(r)
    BY <1>3, <1>5, <1>7 DEF ServeFromCache, Predict, Break, RequestMoves
<1>8. ASSUME Pong(r) PROVE RequestMoves(r)
    BY <1>3, <1>8 DEF Pong, ReadCircuit, RequestMoves, Unspent, Elsewhere, Booked, BreakerMoves
<1>9. ASSUME AskBreaker(r) PROVE RequestMoves(r)
  <2>1. Outcome(r)
    BY <1>1, <1>2, <1>4, <1>9 DEF AskBreaker
  <2>2. Booked(r) /\ BreakerMoves(r)
    BY <1>9 DEF AskBreaker, Booked, BreakerMoves
  <2> QED
    BY <1>9, <2>1, <2>2 DEF AskBreaker, RequestMoves, Elsewhere
<1>10. ASSUME ProviderAnswers(r) \/ ProviderFails(r) \/ StreamEnds(r) PROVE RequestMoves(r)
  <2>1. Outcome(r)
    BY <1>1, <1>2, <1>3, <1>4, <1>10 DEF ProviderAnswers, ProviderFails, StreamEnds
  <2>2. Booked(r) /\ BreakerMoves(r)
    BY <1>10 DEF ProviderAnswers, ProviderFails, StreamEnds, Booked, BreakerMoves, Unspent
  <2> QED
    BY <1>10, <2>1, <2>2 DEF ProviderAnswers, ProviderFails, StreamEnds, RequestMoves, Elsewhere
<1>11. UNCHANGED <<path, valid>> /\ pc[r] \notin {"new", "ended"}
    BY DEF Proceeds, Progress, LimiterAllows, LimiterRefuses, ServeFromCache, AskBreaker,
           ProviderAnswers, ProviderFails, StreamEnds, Predict, Pong, Break, At
<1> QED
    BY <1>6, <1>7, <1>8, <1>9, <1>10, <1>11 DEF Proceeds, Progress

LEMMA RequestsKeepTypes ==
    ASSUME TypeOK, NEW r \in Calls, RequestMoves(r), path'[r] \in Paths,
           path' \in [Calls -> Paths \cup {None}], valid' \in [Calls -> BOOLEAN]
    PROVE  TypeOK'
<1>1. BreakerTypeOK'
    BY BreakerStepsKeepTypes DEF RequestMoves, BreakerMoves, TypeOK
<1>2. circuit' \in [Calls -> State \cup {None}]
    BY <1>1 DEF RequestMoves, ReadCircuit, TypeOK, BreakerTypeOK
<1>3. /\ tokens' \in Nat
      /\ refused' \subseteq Calls
      /\ paid' \subseteq Calls
    BY DEF RequestMoves, Booked, TypeOK
<1>4. /\ pc' \in [Calls -> PC]
      /\ answer' \in [Calls -> Answers \cup {None}]
  <2> USE DEF TypeOK, RequestMoves
  <2>1. ASSUME NEW a \in Answers, NEW label \in {"opening", "ended"}, RespondAt(r, a, label)
        PROVE  pc' \in [Calls -> PC] /\ answer' \in [Calls -> Answers \cup {None}]
    BY <2>1 DEF RespondAt, PC
  <2>2. CASE RaiseUnexpected(r)
    BY <2>2, AnswersMeasured DEF RaiseUnexpected, PC
  <2>3. ASSUME NEW label \in PC, Suspend(r, label)
        PROVE  pc' \in [Calls -> PC] /\ answer' \in [Calls -> Answers \cup {None}]
    BY <2>3 DEF Suspend
  <2> QED
    BY <2>1, <2>2, <2>3 DEF Outcome
<1>5. /\ httpRequests' \in [Labels \X (2 .. 5) -> Nat]
      /\ rateLimits' \in Nat /\ circuitOpens' \in Nat /\ cacheHits' \in Nat
  <2> USE DEF TypeOK
  <2>1. ASSUME NEW a \in Answers, Count(r, a)
        PROVE  /\ httpRequests' \in [Labels \X (2 .. 5) -> Nat]
               /\ rateLimits' \in Nat /\ circuitOpens' \in Nat /\ cacheHits' \in Nat
    BY <2>1, AnswersMeasured DEF Count, Paths
  <2> QED
    BY <2>1 DEF RequestMoves, Outcome, RespondAt, RaiseUnexpected, Suspend, counters
<1> QED
    BY <1>1, <1>2, <1>3, <1>4, <1>5 DEF RequestMoves, TypeOK, lifespanVars

LEMMA InitIsTyped == Init => TypeOK
    BY FS_EmptySet, BreakerAssumption
    DEF Init, BreakerInit, TypeOK, BreakerTypeOK, State, Closed, PC, Phase

-----------------------------------------------------------------------------
(* Where a request stands, and what it has asked for.                       *)

RoutedAt(r) ==
    /\ pc[r] # "new" => path[r] \in Paths
    /\ pc[r] \notin {"new", "ended"} => path[r] \in Labels
    /\ pc[r] \in {"inferring", "calling"} => path[r] = Infer
    /\ pc[r] \in {"opening", "streaming"} => path[r] = Stream
    /\ answer[r] # None <=> pc[r] \in {"opening", "streaming", "ended"}
    /\ r \in refused \cup paid => pc[r] = "ended"

Routed == \A r \in Calls : RoutedAt(r)

LEMMA OthersStay ==
    ASSUME TypeOK, NEW r \in Calls, RequestMoves(r), NEW q \in Calls, q # r,
           path' = path \/ \E p \in Paths : path' = [path EXCEPT ![r] = p]
    PROVE  /\ pc'[q] = pc[q] /\ path'[q] = path[q] /\ answer'[q] = answer[q]
           /\ q \in refused' <=> q \in refused
           /\ q \in paid' <=> q \in paid
    BY DEF TypeOK, RequestMoves, Outcome, Booked, RespondAt, RaiseUnexpected, Suspend

LEMMA WhereMovesLead ==
    ASSUME TypeOK, NEW r \in Calls
    PROVE  /\ \A e \in DOMAIN Handled : Raise(r, e) => pc'[r] = "ended" /\ answer'[r] # None
           /\ \A a \in {Ok, Cached} : Respond(r, a) => pc'[r] = "ended" /\ answer'[r] # None
           /\ RespondAt(r, Ok, "opening") => pc'[r] = "opening" /\ answer'[r] # None
           /\ RaiseUnexpected(r) => pc'[r] = "ended" /\ answer'[r] # None
           /\ \A label \in PC : Suspend(r, label) => pc'[r] = label /\ answer'[r] = answer[r]
    BY AnswersMeasured DEF TypeOK, Raise, Respond, RespondAt, RaiseUnexpected, Suspend

LEMMA InitIsRouted == Init => Routed
    BY DEF Init, Routed, RoutedAt

LEMMA StepKeepsTypesAndRoutes == TypeOK /\ Routed /\ [Next]_vars => TypeOK' /\ Routed'
<1> SUFFICES ASSUME TypeOK, Routed, [Next]_vars PROVE TypeOK' /\ Routed'
    OBVIOUS
<1>a. UNCHANGED requestVars => Routed'
    BY DEF Routed, RoutedAt, requestVars
<1>1. ASSUME NEW v \in Versions, Load(v) \/ LoadFails(v) PROVE TypeOK' /\ Routed'
    BY <1>1, <1>a
    DEF Load, LoadFails, TypeOK, Phase, BreakerTypeOK, breakerVars, requestVars, counters
<1>2. ASSUME Started \/ Terminate \/ Drained PROVE TypeOK' /\ Routed'
    BY <1>2, <1>a
    DEF Started, Terminate, Drained, TypeOK, Phase, BreakerTypeOK, breakerVars, requestVars,
        counters
<1>3. ASSUME CloseAdapter \/ CloseRedis \/ CloseFails PROVE TypeOK' /\ Routed'
    BY <1>3, <1>a
    DEF CloseAdapter, CloseRedis, CloseFails, TypeOK, Phase, BreakerTypeOK, breakerVars,
        requestVars, counters
<1>4. ASSUME Tick \/ UNCHANGED vars PROVE TypeOK' /\ Routed'
    BY <1>4, <1>a
    DEF Tick, vars, TypeOK, BreakerTypeOK, breakerVars, lifespanVars, requestVars, counters
<1>b. ASSUME NEW r \in Calls, RequestMoves(r), RoutedAt(r)',
             path' = path \/ \E p \in Paths : path' = [path EXCEPT ![r] = p]
      PROVE  Routed'
    BY <1>b, OthersStay DEF Routed, RoutedAt
<1>5. ASSUME NEW r \in Calls, Arrives(r)
      PROVE  TypeOK' /\ Routed'
  <2>1. PICK p \in Paths, ok \in BOOLEAN : Arrive(r, p, ok)
    BY <1>5, ArrivalsMove
  <2>2. RequestMoves(r) /\ TypeOK'
    BY <1>5, <2>1, ArrivalsMove, RequestsKeepTypes DEF Arrive, TypeOK
  <2>3. answer[r] = None /\ r \notin refused' \cup paid'
    BY <2>1 DEF Routed, RoutedAt, Arrive, Quiet, Unspent
  <2>4. \/ pc'[r] = "ended" /\ answer'[r] # None
        \/ /\ pc'[r] \in {"limiting", "predicting", "pinging"} /\ answer'[r] = answer[r]
           /\ path'[r] \in Labels
    <3>1. {"NotFound", "RequestValidationError", "Unauthorized", "ModelVersionNotFound"}
            \subseteq DOMAIN Handled
      BY DEF Handled
    <3>2. {"limiting", "predicting", "pinging"} \subseteq PC
      BY DEF PC
    <3>3. \A q, fits : Arrive(r, q, fits) /\ q \in Paths => path'[r] = q
      BY DEF Arrive, TypeOK
    <3>4. {Infer, Stream, Classify, Health} \subseteq Labels /\ Labels \subseteq Paths
      BY DEF Labels, Paths
    <3> QED
      BY <1>5, <3>1, <3>2, <3>3, <3>4, WhereMovesLead
      DEF Arrives, TurnAway, AskLimiter, AskModel, AskUnknownModel, AskHealth, Scrape
  <2>5. RoutedAt(r)'
    BY <2>1, <2>3, <2>4 DEF RoutedAt, Arrive, TypeOK
  <2> QED
    BY <1>b, <2>1, <2>2, <2>5 DEF Arrive
<1>6. ASSUME NEW r \in Calls, Proceeds(r) PROVE TypeOK' /\ Routed'
  <2>1. RequestMoves(r) /\ UNCHANGED <<path, valid>> /\ pc[r] \notin {"new", "ended"}
    BY <1>6, ProgressMoves
  <2>2. TypeOK'
    BY <2>1, RequestsKeepTypes DEF Routed, RoutedAt, TypeOK
  <2>3. RoutedAt(r)'
    <3> USE DEF RoutedAt, Routed, At, Quiet, Unspent, Elsewhere, TypeOK
    <3>1. {"RequestValidationError", "RateLimitExceeded", "ConnectionError",
           "CircuitOpenError", "TimeoutError", "UpstreamProviderError"} \subseteq DOMAIN Handled
      BY DEF Handled
    <3>2. {"inferring", "calling", "streaming", "ended"} \subseteq PC
      BY DEF PC
    <3>3. CASE LimiterAllows(r) \/ LimiterRefuses(r)
      BY <2>1, WhereMovesLead, <3>1, <3>2, <3>3 DEF LimiterAllows, LimiterRefuses
    <3>4. CASE ServeFromCache(r) \/ Predict(r) \/ Pong(r) \/ Break(r)
      BY <2>1, WhereMovesLead, <3>4 DEF ServeFromCache, Predict, Pong, Break
    <3>5. CASE AskBreaker(r)
      BY <2>1, WhereMovesLead, <3>1, <3>2, <3>5 DEF AskBreaker
    <3>6. CASE ProviderAnswers(r) \/ ProviderFails(r)
      BY <2>1, WhereMovesLead, <3>1, <3>6 DEF ProviderAnswers, ProviderFails
    <3>7. CASE StreamEnds(r)
      BY <2>1, WhereMovesLead, <3>2, <3>7 DEF StreamEnds
    <3> QED
      BY <1>6, <3>3, <3>4, <3>5, <3>6, <3>7 DEF Proceeds, Progress
  <2> QED
    BY <1>b, <2>1, <2>2, <2>3
<1> QED
    BY <1>1, <1>2, <1>3, <1>4, <1>5, <1>6 DEF Next, Arrives, Proceeds

\* Every variable of the application keeps its type.
THEOREM TypeCorrectness == Spec => []TypeOK
<1>1. Spec => [](TypeOK /\ Routed)
    BY InitIsTyped, InitIsRouted, StepKeepsTypesAndRoutes, PTL DEF Spec
<1> QED
    BY <1>1, PTL

-----------------------------------------------------------------------------
(* The counters.                                                            *)

\* The requests that each counter stands for.
Seen(p, k) == {r \in Metered : path[r] = p /\ answer[r].status \div 100 = k}
Limited == {r \in Metered : answer[r].status = 429}
Refusals == {r \in refused : path[r] = Infer}
Hits == {r \in Metered : answer[r] = Cached}

CountedRight ==
    /\ \A p \in Labels, k \in 2 .. 5 : httpRequests[<<p, k>>] = Cardinality(Seen(p, k))
    /\ rateLimits = Cardinality(Limited)
    /\ circuitOpens = Cardinality(Refusals)
    /\ cacheHits = Cardinality(Hits)
    /\ tokens = Cardinality(paid)

LEMMA TruthIsCountedRight == CountersTellTheTruth <=> CountedRight
    BY DEF CountersTellTheTruth, CountedRight, Seen, Limited, Refusals, Hits

LEMMA OneMore ==
    ASSUME NEW S \in SUBSET Calls, NEW r \in Calls, r \notin S
    PROVE  Cardinality(S \cup {r}) = Cardinality(S) + 1
<1>1. IsFiniteSet(S)
    BY ApplicationAssumption, FS_Subset
<1> QED
    BY <1>1, FS_AddElement

LEMMA MetricsHasNoLabel == Metrics \notin Labels
    BY DEF Metrics, Labels, Infer, Stream, Classify, Health

LEMMA CountingAnAnswer ==
    ASSUME TypeOK, CountedRight, NEW r \in Calls, NEW a \in Answers \ {Unexpected},
           Count(r, a), answer' = [answer EXCEPT ![r] = a], answer[r] = None,
           path'[r] \in Labels, \A q \in Calls \ {r} : path'[q] = path[q],
           a = Cached => path'[r] = Infer,
           r \notin refused, refused' \in {refused, refused \cup {r}},
           r \in refused' <=> a = Handled["CircuitOpenError"],
           a = Handled["CircuitOpenError"] => path'[r] = Infer
    PROVE  /\ \A p \in Labels, k \in 2 .. 5 : httpRequests'[<<p, k>>] = Cardinality(Seen(p, k)')
           /\ rateLimits' = Cardinality(Limited')
           /\ circuitOpens' = Cardinality(Refusals')
           /\ cacheHits' = Cardinality(Hits')
<1>1. /\ Metered \subseteq Calls /\ r \notin Metered
      /\ Metered' = Metered \cup {r}
      /\ answer'[r] = a
      /\ \A q \in Metered : answer'[q] = answer[q] /\ path'[q] = path[q]
      /\ path'[r] # Metrics
    BY AnswersMeasured, MetricsHasNoLabel DEF Metered, TypeOK
<1>2. ASSUME NEW p \in Labels, NEW k \in 2 .. 5
      PROVE  httpRequests'[<<p, k>>] = Cardinality(Seen(p, k)')
  <2>1. Seen(p, k) \subseteq Calls /\ r \notin Seen(p, k)
    BY <1>1 DEF Seen
  <2>2. CASE path'[r] = p /\ a.status \div 100 = k
    <3>1. Seen(p, k)' = Seen(p, k) \cup {r}
      BY <1>1, <2>2 DEF Seen
    <3>2. httpRequests'[<<p, k>>] = httpRequests[<<p, k>>] + 1
      BY <1>1, <2>2 DEF Count, TypeOK
    <3>3. Cardinality(Seen(p, k) \cup {r}) = Cardinality(Seen(p, k)) + 1
      BY <2>1, OneMore
    <3>4. httpRequests[<<p, k>>] = Cardinality(Seen(p, k))
      BY DEF CountedRight
    <3> QED
      BY <3>1, <3>2, <3>3, <3>4
  <2>3. CASE ~(path'[r] = p /\ a.status \div 100 = k)
    <3>1. Seen(p, k)' = Seen(p, k)
      BY <1>1, <2>3 DEF Seen
    <3>2. <<path'[r], a.status \div 100>> # <<p, k>>
      BY <2>3
    <3>3. httpRequests'[<<p, k>>] = httpRequests[<<p, k>>]
      BY <1>1, <3>2, AnswersMeasured DEF Count, TypeOK
    <3> QED
      BY <3>1, <3>3 DEF CountedRight
  <2> QED
    BY <2>2, <2>3
<1>3. rateLimits' = Cardinality(Limited')
  <2>1. Limited \subseteq Calls /\ r \notin Limited
    BY <1>1 DEF Limited
  <2>2. Limited' = IF a.status = 429 THEN Limited \cup {r} ELSE Limited
    BY <1>1 DEF Limited
  <2> QED
    BY <1>1, <2>1, <2>2, OneMore DEF Count, CountedRight
<1>4. circuitOpens' = Cardinality(Refusals')
  <2>1. Refusals \subseteq Calls /\ r \notin Refusals
    BY DEF Refusals, TypeOK
  <2>2. Refusals' = IF a = Handled["CircuitOpenError"] THEN Refusals \cup {r} ELSE Refusals
    BY DEF Refusals, TypeOK
  <2>3. path'[r] = Infer /\ a.status = 503 /\ a.body = "service_unavailable"
          <=> a = Handled["CircuitOpenError"]
    BY AnswersMeasured
  <2> QED
    BY <2>1, <2>2, <2>3, OneMore DEF Count, CountedRight
<1>5. cacheHits' = Cardinality(Hits')
  <2>1. Hits \subseteq Calls /\ r \notin Hits
    BY <1>1 DEF Hits
  <2>2. Hits' = IF a = Cached THEN Hits \cup {r} ELSE Hits
    BY <1>1 DEF Hits
  <2>3. path'[r] = Infer /\ a.body = "cache_hit" <=> a = Cached
    BY AnswersMeasured
  <2> QED
    BY <2>1, <2>2, <2>3, OneMore DEF Count, CountedRight
<1> QED
    BY <1>2, <1>3, <1>4, <1>5

LEMMA NotCounting ==
    ASSUME TypeOK, CountedRight, NEW r \in Calls, UNCHANGED counters,
           answer' = answer \/ answer' = [answer EXCEPT ![r] = Unexpected],
           answer' # answer \/ path' # path => answer[r] = None /\ r \notin refused,
           \A q \in Calls \ {r} : path'[q] = path[q],
           \/ refused' = refused
           \/ refused' = refused \cup {r} /\ path'[r] # Infer
    PROVE  /\ \A p \in Labels, k \in 2 .. 5 : httpRequests'[<<p, k>>] = Cardinality(Seen(p, k)')
           /\ rateLimits' = Cardinality(Limited')
           /\ circuitOpens' = Cardinality(Refusals')
           /\ cacheHits' = Cardinality(Hits')
<1>1. /\ Metered' = Metered
      /\ \A q \in Metered : answer'[q] = answer[q] /\ path'[q] = path[q]
    BY AnswersMeasured DEF Metered, TypeOK
<1>2. Refusals' = Refusals
    BY DEF Refusals, TypeOK
<1>3. Limited' = Limited /\ Hits' = Hits
    BY <1>1 DEF Limited, Hits
<1>4. \A p \in Labels, k \in 2 .. 5 : Seen(p, k)' = Seen(p, k)
    BY <1>1 DEF Seen
<1> QED
    BY <1>2, <1>3, <1>4 DEF CountedRight, counters

\* An answer of /metrics is in no counter.
LEMMA ScrapesAreNotCounted ==
    ASSUME TypeOK, Routed, CountedRight, NEW r \in Calls, Scrape(r)
    PROVE  CountedRight'
<1>1. /\ answer[r] = None /\ UNCHANGED <<tokens, refused, paid>>
      /\ path' = [path EXCEPT ![r] = Metrics]
      /\ answer' = [answer EXCEPT ![r] = Ok]
      /\ Count(r, Ok)
    BY DEF Scrape, Arrive, Quiet, Unspent, Respond, RespondAt, Routed, RoutedAt
<1>2. path'[r] = Metrics /\ \A q \in Calls \ {r} : path'[q] = path[q] /\ answer'[q] = answer[q]
    BY <1>1 DEF TypeOK
<1>3. UNCHANGED counters
    BY <1>1, <1>2 DEF Count, counters, Metrics, Infer
<1>4. /\ Metered' = Metered
      /\ \A q \in Metered : answer'[q] = answer[q] /\ path'[q] = path[q]
    BY <1>1, <1>2, AnswersMeasured DEF Metered
<1>5. Refusals' = Refusals
  <2>1. r \notin refused
    BY DEF Scrape, Arrive, Routed, RoutedAt
  <2> QED
    BY <1>1, <1>2, <2>1 DEF Refusals, TypeOK
<1>6. Limited' = Limited /\ Hits' = Hits /\ \A p \in Labels, k \in 2 .. 5 : Seen(p, k)' = Seen(p, k)
    BY <1>4 DEF Limited, Hits, Seen
<1> QED
    BY <1>1, <1>3, <1>5, <1>6 DEF CountedRight, counters

LEMMA ArrivalsAreCounted ==
    ASSUME TypeOK, Routed, CountedRight, NEW r \in Calls, Arrives(r)
    PROVE  CountedRight'
<1>a. SUFFICES ASSUME ~Scrape(r) PROVE CountedRight'
    BY ScrapesAreNotCounted
<1>1. PICK p \in Labels, ok \in BOOLEAN : Arrive(r, p, ok)
  <2>1. {Infer, Stream, Classify, Health, "other"} \subseteq Labels
    BY DEF Labels
  <2> QED
    BY <1>a, <2>1 DEF Arrives, TurnAway, AskLimiter, AskModel, AskUnknownModel, AskHealth
<1>2. /\ answer[r] = None /\ r \notin refused /\ refused' = refused
      /\ path'[r] \in Labels /\ \A q \in Calls \ {r} : path'[q] = path[q]
      /\ tokens' = tokens /\ paid' = paid
    BY <1>1 DEF Arrive, Quiet, Unspent, Routed, RoutedAt, TypeOK
<1>3. \/ \E e \in DOMAIN Handled \ {"CircuitOpenError"} : Raise(r, e)
      \/ RaiseUnexpected(r)
      \/ \E label \in PC : Suspend(r, label)
  <2>1. {"NotFound", "RequestValidationError", "Unauthorized", "ModelVersionNotFound"}
          \subseteq DOMAIN Handled \ {"CircuitOpenError"}
    BY DEF Handled
  <2>2. {"limiting", "predicting", "pinging"} \subseteq PC
    BY DEF PC
  <2> QED
    BY <1>a, <2>1, <2>2
    DEF Arrives, TurnAway, AskLimiter, AskModel, AskUnknownModel, AskHealth
<1>4. CASE \E e \in DOMAIN Handled \ {"CircuitOpenError"} : Raise(r, e)
  <2>1. PICK e \in DOMAIN Handled \ {"CircuitOpenError"} : Raise(r, e)
    BY <1>4
  <2>2. Handled[e] \in Answers \ {Unexpected, Cached, Handled["CircuitOpenError"]}
    BY AnswersMeasured, HandledExceptions
  <2> QED
    BY <1>2, <2>1, <2>2, CountingAnAnswer DEF Raise, Respond, RespondAt, CountedRight
<1>5. CASE RaiseUnexpected(r) \/ \E label \in PC : Suspend(r, label)
    BY <1>2, <1>5, NotCounting DEF RaiseUnexpected, Suspend, CountedRight, counters
<1> QED
    BY <1>3, <1>4, <1>5

LEMMA ProgressIsCounted ==
    ASSUME TypeOK, Routed, CountedRight, NEW r \in Calls, Proceeds(r)
    PROVE  CountedRight'
<1>1. /\ path' = path /\ path[r] \in Labels /\ r \notin refused /\ r \notin paid
    BY ProgressMoves DEF Routed, RoutedAt
<1>2. tokens' = Cardinality(paid')
  <2>1. Booked(r)
    BY ProgressMoves DEF RequestMoves
  <2> QED
    BY <1>1, <2>1, OneMore DEF Booked, TypeOK, CountedRight
<1> DEFINE Right == /\ \A p \in Labels, k \in 2 .. 5 :
                         httpRequests'[<<p, k>>] = Cardinality(Seen(p, k)')
                    /\ rateLimits' = Cardinality(Limited')
                    /\ circuitOpens' = Cardinality(Refusals')
                    /\ cacheHits' = Cardinality(Hits')
<1> SUFFICES Right
    BY <1>2 DEF CountedRight
<1>3. ASSUME NEW a \in Answers \ {Unexpected}, NEW label, RespondAt(r, a, label),
             answer[r] = None, refused' = refused, a # Handled["CircuitOpenError"],
             a = Cached => path[r] = Infer
      PROVE  Right
    BY <1>1, <1>3, CountingAnAnswer DEF RespondAt
<1>4. ASSUME RaiseUnexpected(r), answer[r] = None, refused' = refused
      PROVE  Right
    BY <1>1, <1>4, NotCounting DEF RaiseUnexpected
<1>5. ASSUME NEW label, Suspend(r, label), 
             refused' = refused \/ (refused' = refused \cup {r} /\ path[r] # Infer)
      PROVE  Right
    BY <1>1, <1>5, NotCounting DEF Suspend, counters
<1>6. \A e \in DOMAIN Handled \ {"CircuitOpenError"} :
        Handled[e] \in Answers \ {Unexpected, Cached, Handled["CircuitOpenError"]}
    BY AnswersMeasured, HandledExceptions
<1>7. {"RequestValidationError", "RateLimitExceeded", "ConnectionError", "TimeoutError",
       "UpstreamProviderError"} \subseteq DOMAIN Handled \ {"CircuitOpenError"}
    BY DEF Handled
<1>8. \A e \in {"RequestValidationError", "RateLimitExceeded", "ConnectionError",
                "TimeoutError", "UpstreamProviderError"} :
        Raise(r, e) /\ answer[r] = None /\ refused' = refused => Right
    BY <1>3, <1>6, <1>7 DEF Raise, Respond
<1>9. /\ Ok \in Answers \ {Unexpected, Cached, Handled["CircuitOpenError"]}
      /\ Cached \in Answers \ {Unexpected, Handled["CircuitOpenError"]}
  <2>1. "CircuitOpenError" \in DOMAIN Handled
    BY DEF Handled
  <2> QED
    BY <2>1, AnswersMeasured
<1>10. pc[r] \in {"limiting", "inferring", "calling", "predicting", "pinging"} =>
         answer[r] = None
    BY DEF Routed, RoutedAt
<1>11. pc[r] \in {"inferring", "calling"} => path[r] = Infer
    BY DEF Routed, RoutedAt
<1>12. pc[r] = "opening" => path[r] # Infer
    BY DEF Routed, RoutedAt, Infer, Stream
<1> HIDE DEF Right
<1> USE DEF At, Quiet, Unspent
<1>13. CASE LimiterAllows(r) \/ LimiterRefuses(r)
    BY <1>3, <1>5, <1>8, <1>9, <1>10, <1>13 DEF LimiterAllows, LimiterRefuses
<1>14. CASE ServeFromCache(r) \/ Predict(r) \/ Pong(r) \/ Break(r)
    BY <1>3, <1>4, <1>9, <1>10, <1>11, <1>14
    DEF ServeFromCache, Predict, Pong, Break, Respond
<1>15. CASE AskBreaker(r)
  <2>1. ASSUME NEW label, Suspend(r, label), refused' = refused
        PROVE  Right
    BY <1>5, <2>1
  <2>2. ASSUME NEW label, Suspend(r, label), refused' = refused \cup {r}, pc[r] = "opening"
        PROVE  Right
    BY <1>5, <1>12, <2>2
  <2>3. CASE pc[r] = "inferring" /\ refused' = refused \cup {r} /\ Raise(r, "CircuitOpenError")
    <3> DEFINE a == Handled["CircuitOpenError"]
    <3>1. a \in Answers \ {Unexpected, Cached}
      <4>1. "CircuitOpenError" \in DOMAIN Handled
        BY DEF Handled
      <4> QED
        BY <4>1, AnswersMeasured
    <3>2. Count(r, a) /\ answer' = [answer EXCEPT ![r] = a]
      BY <2>3 DEF Raise, Respond, RespondAt
    <3>3. answer[r] = None /\ path'[r] = Infer /\ r \in refused'
      BY <1>1, <1>10, <1>11, <2>3
    <3> HIDE DEF a
    <3> QED
      BY <1>1, <2>3, <3>1, <3>2, <3>3, CountingAnAnswer DEF Right, a
  <2> QED
    BY <1>15, <2>1, <2>2, <2>3 DEF AskBreaker
<1>16. CASE ProviderAnswers(r)
    BY <1>3, <1>4, <1>9, <1>10, <1>16 DEF ProviderAnswers, Respond
<1>17. CASE ProviderFails(r)
    BY <1>4, <1>8, <1>10, <1>17 DEF ProviderFails
<1>18. CASE StreamEnds(r)
    BY <1>5, <1>18 DEF StreamEnds
<1> QED
    BY <1>13, <1>14, <1>15, <1>16, <1>17, <1>18 DEF Proceeds, Progress

-----------------------------------------------------------------------------
(* The lifespan, and who is under way in which phase of it.                 *)

UnderWay(r) == pc[r] \notin {"new", "ended"}

LoadsAreAwaited ==
    /\ phase = "starting" => modelsLoaded = {} /\ \A v \in Versions : model[v] # "failed"
    /\ phase \in {"serving", "draining", "closing", "stopped"} => modelsLoaded = Versions
    /\ \A v \in modelsLoaded : model[v] = "loaded"

ClientsAreClosedLast ==
    /\ phase \notin {"serving", "draining"} => \A r \in Calls : ~UnderWay(r)
    /\ phase \in {"starting", "serving", "draining"} => redis = "open" /\ adapter # "closed"
    /\ phase = "stopped" => redis = "closed" /\ adapter # "open"

\* An open circuit knows since when.
OpenIsDated == state = Open => openedAt # None

AppInv ==
    /\ TypeOK
    /\ Routed
    /\ CountersTellTheTruth
    /\ LoadsAreAwaited
    /\ ClientsAreClosedLast
    /\ OpenIsDated

LEMMA InitIsInv == Init => AppInv
<1> SUFFICES ASSUME Init PROVE AppInv
    OBVIOUS
<1>1. TypeOK /\ Routed
    BY InitIsTyped, InitIsRouted
<1>2. LoadsAreAwaited /\ ClientsAreClosedLast
    BY DEF Init, LoadsAreAwaited, ClientsAreClosedLast, UnderWay
<1>3. OpenIsDated
    BY DEF Init, BreakerInit, OpenIsDated, Closed, Open
<1>4. CountedRight
  <2>1. Metered = {} /\ refused = {} /\ paid = {}
    BY DEF Init, Metered
  <2>2. /\ \A p \in Labels, k \in 2 .. 5 : Seen(p, k) = {} /\ httpRequests[<<p, k>>] = 0
        /\ Limited = {} /\ Refusals = {} /\ Hits = {}
    BY <2>1 DEF Init, Seen, Limited, Refusals, Hits
  <2> QED
    BY <2>1, <2>2, FS_EmptySet DEF Init, CountedRight
<1> QED
    BY <1>1, <1>2, <1>3, <1>4, TruthIsCountedRight DEF AppInv

LEMMA BreakerStaysDated ==
    ASSUME TypeOK, OpenIsDated, NEW r \in Calls, BreakerMoves(r)
    PROVE  OpenIsDated'
<1>1. CASE IsOpen
    BY <1>1 DEF IsOpen, OpenIsDated, HalfOpen, Open
<1>2. CASE RecordFailure(r)
  <2>1. (state' = Open /\ openedAt' = now) \/ UNCHANGED <<state, openedAt>>
    BY <1>2 DEF RecordFailure
  <2> QED
    BY <2>1, BreakerAssumption DEF OpenIsDated, TypeOK, BreakerTypeOK
<1>3. CASE RecordSuccess
    BY <1>3 DEF RecordSuccess, OpenIsDated, breakerVars, Closed, Open
<1>4. CASE UNCHANGED breakerVars
    BY <1>4 DEF OpenIsDated, breakerVars
<1> QED
    BY <1>1, <1>2, <1>3, <1>4 DEF BreakerMoves

LEMMA StepKeepsInv == AppInv /\ [Next]_vars => AppInv'
<1> SUFFICES ASSUME AppInv, [Next]_vars PROVE AppInv'
    OBVIOUS
<1> USE DEF AppInv
<1>1. TypeOK' /\ Routed'
    BY StepKeepsTypesAndRoutes
<1>2. ASSUME UNCHANGED <<breakerVars, requestVars>>
      PROVE  CountersTellTheTruth' /\ OpenIsDated'
    BY <1>2 DEF CountersTellTheTruth, Metered, OpenIsDated, breakerVars, requestVars, counters
<1>3. ASSUME NEW v \in Versions, Load(v) \/ LoadFails(v)
      PROVE  LoadsAreAwaited' /\ ClientsAreClosedLast' /\ UNCHANGED <<breakerVars, requestVars>>
    BY <1>3
    DEF Load, LoadFails, LoadsAreAwaited, ClientsAreClosedLast, UnderWay, TypeOK, Phase,
        requestVars
<1>4. ASSUME Started \/ Terminate \/ Drained
      PROVE  LoadsAreAwaited' /\ ClientsAreClosedLast' /\ UNCHANGED <<breakerVars, requestVars>>
    BY <1>4
    DEF Started, Terminate, Drained, LoadsAreAwaited, ClientsAreClosedLast, UnderWay, TypeOK,
        Phase, requestVars
<1>5. ASSUME CloseAdapter \/ CloseRedis \/ CloseFails
      PROVE  LoadsAreAwaited' /\ ClientsAreClosedLast' /\ UNCHANGED <<breakerVars, requestVars>>
    BY <1>5
    DEF CloseAdapter, CloseRedis, CloseFails, LoadsAreAwaited, ClientsAreClosedLast, UnderWay,
        TypeOK, Phase, requestVars
<1>6. ASSUME Tick \/ UNCHANGED vars
      PROVE  LoadsAreAwaited' /\ ClientsAreClosedLast' /\ UNCHANGED <<breakerVars, requestVars>>
    BY <1>6
    DEF Tick, vars, LoadsAreAwaited, ClientsAreClosedLast, UnderWay, lifespanVars, requestVars
<1>7. ASSUME NEW r \in Calls, RequestMoves(r)
      PROVE  LoadsAreAwaited' /\ OpenIsDated'
    BY <1>7, BreakerStaysDated DEF RequestMoves, LoadsAreAwaited, lifespanVars
<1>8. ASSUME NEW r \in Calls, RequestMoves(r), phase \in {"serving", "draining"}
      PROVE  ClientsAreClosedLast'
    BY <1>8 DEF RequestMoves, ClientsAreClosedLast, lifespanVars
<1>9. ASSUME NEW r \in Calls, Arrives(r)
      PROVE  AppInv'
  <2>1. RequestMoves(r) /\ phase = "serving"
    BY <1>9, ArrivalsMove DEF Arrive
  <2>2. CountersTellTheTruth'
    <3>1. CountedRight'
      BY <1>9, ArrivalsAreCounted, TruthIsCountedRight
    <3>2. (CountersTellTheTruth <=> CountedRight)'
      BY TruthIsCountedRight, PTL
    <3> QED
      BY <3>1, <3>2
  <2> QED
    BY <1>1, <1>7, <1>8, <2>1, <2>2
<1>10. ASSUME NEW r \in Calls, Proceeds(r) PROVE AppInv'
  <2>1. RequestMoves(r) /\ UnderWay(r)
    BY <1>10, ProgressMoves DEF UnderWay
  <2>2. phase \in {"serving", "draining"}
    BY <2>1 DEF ClientsAreClosedLast
  <2>3. CountersTellTheTruth'
    <3>1. CountedRight'
      BY <1>10, ProgressIsCounted, TruthIsCountedRight
    <3>2. (CountersTellTheTruth <=> CountedRight)'
      BY TruthIsCountedRight, PTL
    <3> QED
      BY <3>1, <3>2
  <2> QED
    BY <1>1, <1>7, <1>8, <2>1, <2>2, <2>3
<1> QED
    BY <1>1, <1>2, <1>3, <1>4, <1>5, <1>6, <1>9, <1>10 DEF Next, Arrives, Proceeds

\* AppInv holds of every state of the application.
THEOREM ApplicationInvariant == Spec => []AppInv
    BY InitIsInv, StepKeepsInv, PTL DEF Spec

\* However many requests overlap and however they end, each counter says how many
\* of the answers are of its kind, and no refusal by the breaker is lost among the
\* other 503s.
THEOREM CountersAreTrue == Spec => []CountersTellTheTruth
<1>1. AppInv => CountersTellTheTruth
    BY DEF AppInv
<1> QED
    BY <1>1, ApplicationInvariant, PTL

\* Requests are served only once all loads have succeeded, whatever the order in
\* which their threads return.
THEOREM ServedModelsAreLoaded == Spec => []ListedModelsAreLoaded
<1>1. AppInv => ListedModelsAreLoaded
    BY DEF AppInv, LoadsAreAwaited, ListedModelsAreLoaded
<1> QED
    BY <1>1, ApplicationInvariant, PTL

\* The lifespan closes a client only after the last request that may use it.
THEOREM ClientsAreThereWhenNeeded == Spec => []ClientsOutliveTheirUsers
<1>1. AppInv => ClientsOutliveTheirUsers
    BY DEF AppInv, ClientsAreClosedLast, UnderWay, ClientsOutliveTheirUsers
<1> QED
    BY <1>1, ApplicationInvariant, PTL

\* So the lifespan frames the requests it serves.
THEOREM RequestsAreProvidedFor == Spec => []RequestsFindWhatTheyUse
<1>1. ListedModelsAreLoaded /\ ClientsOutliveTheirUsers => RequestsFindWhatTheyUse
    BY DEF RequestsFindWhatTheyUse
<1> QED
    BY <1>1, ServedModelsAreLoaded, ClientsAreThereWhenNeeded, PTL

\* What /health says of the circuit is what a request would meet at that moment.
THEOREM HealthIsHonest == Spec => HealthTellsAdmission
<1> DEFINE Told == \A r \in Calls : circuit'[r] # circuit[r] => (circuit'[r] = Open <=> StillOpen)
<1>1. AppInv /\ [Next]_vars => [Told]_vars
  <2> SUFFICES ASSUME AppInv, Next PROVE Told
    OBVIOUS
  <2>1. ASSUME NEW q \in Calls, RequestMoves(q) PROVE Told
    <3>1. circuit' = circuit \/ ReadCircuit(q)
      BY <2>1 DEF RequestMoves
    <3>2. CASE ReadCircuit(q)
      <4>1. state' = Open <=> StillOpen
        BY <3>2, BreakerAssumption
        DEF ReadCircuit, IsOpen, RecoveryDue, StillOpen, HalfOpen, Open, AppInv, OpenIsDated,
            TypeOK, BreakerTypeOK
      <4> QED
        BY <3>2, <4>1 DEF ReadCircuit, AppInv, TypeOK
    <3> QED
      BY <3>1, <3>2
  <2>2. CASE UNCHANGED circuit
    BY <2>2
  <2>3. ASSUME NEW v \in Versions, Load(v) \/ LoadFails(v) PROVE UNCHANGED circuit
    BY <2>3 DEF Load, LoadFails, requestVars
  <2>4. Started \/ Terminate \/ Drained \/ CloseAdapter \/ CloseRedis \/ CloseFails \/ Tick
          => UNCHANGED circuit
    BY DEF Started, Terminate, Drained, CloseAdapter, CloseRedis, CloseFails, Tick, requestVars
  <2> QED
    BY <2>1, <2>2, <2>3, <2>4, ArrivalsMove, ProgressMoves DEF Next, Arrives, Proceeds
<1> QED
    BY <1>1, ApplicationInvariant, PTL DEF Spec, HealthTellsAdmission
=============================================================================

------------------------------ MODULE LLMAdapter ------------------------------
(***************************************************************************)
(* The adapters of app/adapters: HttpLLMAdapter, whose calls share one     *)
(* httpx.AsyncClient with a bounded pool of connections, and the stub.     *)
(*                                                                         *)
(* A step runs from one suspension to the next: waiting for a connection,  *)
(* for the response, for a line of its body, for the connection to be      *)
(* given back, or at the yield of stream() for the consumer.  Only the     *)
(* first three have httpx's timeout.  The consumer may leave a generator   *)
(* at its yield; the event loop's finalizer then closes it.                *)
(*                                                                         *)
(* The provider chooses its answer as it is read: a status, and for a      *)
(* stream the next line, each with a content of its own, so that a content *)
(* is told from another by its place.                                      *)
(***************************************************************************)
EXTENDS Integers, Sequences, FiniteSets

CONSTANTS
    Calls,           \* calls of infer() and stream()
    MaxConnections,  \* httpx.Limits: the connections of one client
    MaxLines,        \* bound on the lines of a body
    StubTokens,      \* range(10) of the stub
    Configs,         \* the configs of requests: None, or functions of keys
    ModelKey, MessagesKey, StreamKey,  \* the keys of _RESERVED_CONFIG_KEYS
    None

ReservedKeys == {ModelKey, MessagesKey, StreamKey}

ASSUME LLMAdapterAssumption ==
    /\ IsFiniteSet(Calls)
    /\ MaxConnections \in Nat \ {0}
    /\ MaxLines \in Nat
    /\ StubTokens \in Nat \ {0}
    /\ Cardinality(ReservedKeys) = 3

VARIABLES
    adapter,  \* settings.llm_adapter
    client,   \* the httpx client
    pc,       \* where each call stands
    kind,     \* infer or stream
    config,   \* the config of its request
    lines,    \* what has been read of the body
    chunks,   \* what has been yielded
    held,     \* the calls that hold a connection
    raised,   \* the exception that ended the call's work, if any
    outcome   \* what the consumer was told, if anything

vars == <<adapter, client, pc, kind, config, lines, chunks, held, raised, outcome>>

\* Waiting for a connection, the response, a line; closing the response; asleep.
Running == {"queued", "asking", "reading", "leaving", "sleeping"}
PC == {"new", "yielded", "dropped", "over"} \cup Running

\* "body" is an answer that is no event stream.  "other" lines do not begin with
\* "data: ", "empty" ones have no content, "malformed" ones no delta or no JSON.
SSELine == {"other", "empty", "content", "done", "malformed"}
Line == SSELine \cup {"body"}

\* Exceptions, and the classes in the except clauses that each one belongs to.
Classes ==
    [ PoolTimeout    |-> {"TimeoutException", "HTTPError"},
      ReadTimeout    |-> {"TimeoutException", "HTTPError"},
      TransportError |-> {"HTTPError"},
      HTTPStatusError |-> {"HTTPStatusError", "HTTPError"},
      TimeoutError   |-> {},
      Exception      |-> {},
      CancelledError |-> {},
      GeneratorExit  |-> {} ]
Exceptions == DOMAIN Classes

ASSUME NoneAssumption == None \notin Exceptions

Outcome == {"ended", "UpstreamProviderError", "TimeoutError", "Exception", "CancelledError",
            "GeneratorExit"}

TypeOK ==
    /\ adapter \in {"http", "stub"}
    /\ client \in {"open", "closed"}
    /\ pc \in [Calls -> PC]
    /\ kind \in [Calls -> {"infer", "stream"}]
    /\ config \in [Calls -> Configs]
    /\ lines \in [Calls -> Seq(Line)]
    /\ chunks \in [Calls -> Seq(Nat)]
    /\ held \subseteq Calls
    /\ raised \in [Calls -> Exceptions \cup {None}]
    /\ outcome \in [Calls -> Outcome \cup {None}]

Init ==
    /\ adapter \in {"http", "stub"}
    /\ client = "open"
    /\ pc = [c \in Calls |-> "new"]
    /\ kind \in [Calls -> {"infer", "stream"}]
    /\ config \in [Calls -> Configs]
    /\ lines = [c \in Calls |-> <<>>]
    /\ chunks = [c \in Calls |-> <<>>]
    /\ held = {}
    /\ raised = [c \in Calls |-> None]
    /\ outcome = [c \in Calls |-> None]

-----------------------------------------------------------------------------
(* The payload: the request's config, but the adapter's own fields.         *)

Own(k, streaming) ==
    CASE k = ModelKey    -> [type |-> "model"]
      [] k = MessagesKey -> [type |-> "input"]
      [] k = StreamKey   -> [type |-> "flag", is |-> streaming]

\* Mutated: payload.update(config) and nothing after it.
BuildPayloadConfigWins(g, streaming) ==
    LET passed == IF g = None THEN {} ELSE DOMAIN g
    IN [k \in ReservedKeys \cup passed |-> IF k \in passed THEN g[k] ELSE Own(k, streaming)]

BuildPayload(g, streaming) ==
    LET passed == IF g = None THEN {} ELSE DOMAIN g \ ReservedKeys
    IN [k \in ReservedKeys \cup passed |-> IF k \in passed THEN g[k] ELSE Own(k, streaming)]

Payload(c) == BuildPayload(config[c], kind[c] = "stream")

\* The provider answers as it was asked: with an event stream, or with one body.
AskedForEvents(c) == Payload(c)[StreamKey] = [type |-> "flag", is |-> TRUE]

-----------------------------------------------------------------------------
(* How a call ends.                                                         *)

\* Mutated: the base class first, and without the last clause.
ClausesBaseFirst == << <<"HTTPError", "UpstreamProviderError">>,
                       <<"TimeoutException", "TimeoutError">>,
                       <<"HTTPStatusError", "UpstreamProviderError">> >>
ClausesWithoutBase == << <<"TimeoutException", "TimeoutError">>,
                         <<"HTTPStatusError", "UpstreamProviderError">> >>

\* The except clauses, in their order, and what each raises.
Clauses == << <<"TimeoutException", "TimeoutError">>,
              <<"HTTPStatusError", "UpstreamProviderError">>,
              <<"HTTPError", "UpstreamProviderError">> >>

\* The first clause that fits; an exception that none fits passes.
Caught(e) ==
    LET fits == {i \in DOMAIN Clauses : Clauses[i][1] \in Classes[e]}
    IN IF fits = {} THEN e ELSE Clauses[CHOOSE i \in fits : \A j \in fits : i <= j][2]

GoTo(c, label) == pc' = [pc EXCEPT ![c] = label]
Told(c, what) == outcome' = [outcome EXCEPT ![c] = what] /\ GoTo(c, "over")
Ends(c) == Told(c, "ended") /\ UNCHANGED raised
Raises(c, e) == raised' = [raised EXCEPT ![c] = e] /\ Told(c, Caught(e))
Release(c) == held' = held \ {c}
Request == <<adapter, client, kind, config>>

\* The body of "async with" is left, in order or with an exception: the response
\* is closed first.
Leave(c) == GoTo(c, "leaving") /\ UNCHANGED <<held, raised, outcome>>
LeaveWith(c, e) ==
    /\ GoTo(c, "leaving")
    /\ raised' = [raised EXCEPT ![c] = e]
    /\ UNCHANGED <<held, outcome>>

-----------------------------------------------------------------------------
(* Mutated forms: slips one could make in this code.  Not part of the model. *)

NoPoolTimeout(c) == FALSE  \* timeout=None
AcloseAtOnce ==  \* before the yield of the lifespan
    /\ adapter = "http" /\ client = "open"
    /\ client' = "closed"
    /\ held' = {}
    /\ UNCHANGED <<adapter, pc, kind, config, lines, chunks, raised, outcome>>

-----------------------------------------------------------------------------
(* The HTTP adapter.                                                        *)

\* A call waits for a connection until one is free, or the timeout is over.
CallHttp(c) ==
    /\ adapter = "http" /\ client = "open"
    /\ pc[c] = "new"
    /\ GoTo(c, "queued")
    /\ UNCHANGED <<Request, lines, chunks, held, raised, outcome>>

Connect(c) ==
    /\ pc[c] = "queued"
    /\ Cardinality(held) < MaxConnections
    /\ held' = held \cup {c}
    /\ GoTo(c, "asking")
    /\ UNCHANGED <<Request, lines, chunks, raised, outcome>>

PoolIsExhausted(c) ==
    /\ pc[c] = "queued"
    /\ Cardinality(held) >= MaxConnections
    /\ Raises(c, "PoolTimeout")
    /\ UNCHANGED <<Request, lines, chunks, held>>

\* Neither post() nor stream() get a response: httpx frees the connection.
AskFails(c) ==
    /\ pc[c] = "asking"
    /\ Raises(c, "ReadTimeout") \/ Raises(c, "TransportError")
    /\ Release(c)
    /\ UNCHANGED <<Request, lines, chunks>>

\* infer: post() has read the whole body and given the connection back.
AnswerInfer(c) ==
    /\ pc[c] = "asking" /\ kind[c] = "infer"
    /\ \/ Raises(c, "HTTPStatusError")
       \/ Raises(c, "Exception")
       \/ ~AskedForEvents(c) /\ Ends(c)
    /\ Release(c)
    /\ UNCHANGED <<Request, lines, chunks>>

\* stream: only the head of the response is there.
AnswerStream(c) ==
    /\ pc[c] = "asking" /\ kind[c] = "stream"
    /\ \/ LeaveWith(c, "HTTPStatusError")
       \/ GoTo(c, "reading") /\ UNCHANGED <<held, raised, outcome>>
    /\ UNCHANGED <<Request, lines, chunks>>

\* One line of the body.
Read(c, l) ==
    /\ pc[c] = "reading"
    /\ Len(lines[c]) < MaxLines
    /\ l \in (IF AskedForEvents(c) THEN SSELine ELSE {"body"})
    /\ lines' = [lines EXCEPT ![c] = Append(@, l)]

Skip(c) ==
    /\ \E l \in {"other", "body", "empty"} : Read(c, l)
    /\ UNCHANGED <<Request, pc, chunks, held, raised, outcome>>

YieldContent(c) ==
    /\ Read(c, "content")
    /\ chunks' = [chunks EXCEPT ![c] = Append(@, Len(lines'[c]))]
    /\ GoTo(c, "yielded")
    /\ UNCHANGED <<Request, held, raised, outcome>>

ReadDone(c) == Read(c, "done") /\ Leave(c) /\ UNCHANGED <<Request, chunks>>

ReadMalformed(c) == Read(c, "malformed") /\ LeaveWith(c, "Exception") /\ UNCHANGED <<Request, chunks>>

\* The body ends, with [DONE] or without: the loop is over.
BodyEnds(c) ==
    /\ pc[c] = "reading"
    /\ Leave(c)
    /\ UNCHANGED <<Request, lines, chunks>>

ReadFails(c) ==
    /\ pc[c] = "reading"
    /\ LeaveWith(c, "ReadTimeout") \/ LeaveWith(c, "TransportError")
    /\ UNCHANGED <<Request, lines, chunks>>

\* The response is closed: now the except clauses look at what was raised.
CloseResponse(c) ==
    /\ pc[c] = "leaving"
    /\ Release(c)
    /\ Told(c, IF raised[c] = None THEN "ended" ELSE Caught(raised[c]))
    /\ UNCHANGED <<Request, lines, chunks, raised>>

-----------------------------------------------------------------------------
(* The stub: it fails at once or never.                                     *)

CallStub(c) ==
    /\ adapter = "stub"
    /\ pc[c] = "new"
    /\ \/ Raises(c, "TimeoutError")
       \/ GoTo(c, "sleeping") /\ UNCHANGED <<raised, outcome>>
    /\ UNCHANGED <<Request, lines, chunks, held>>

Awake(c) ==
    /\ pc[c] = "sleeping"
    /\ IF kind[c] = "infer" \/ Len(chunks[c]) = StubTokens
       THEN Ends(c) /\ UNCHANGED chunks
       ELSE /\ chunks' = [chunks EXCEPT ![c] = Append(@, Len(@))]
            /\ GoTo(c, "yielded")
            /\ UNCHANGED <<raised, outcome>>
    /\ UNCHANGED <<Request, lines, held>>

-----------------------------------------------------------------------------
(* The consumer, the event loop, and the lifespan.                          *)

Resume(c) ==
    /\ pc[c] = "yielded"
    /\ GoTo(c, IF adapter = "http" THEN "reading" ELSE "sleeping")
    /\ UNCHANGED <<Request, lines, chunks, held, raised, outcome>>

Drop(c) ==
    /\ pc[c] = "yielded"
    /\ GoTo(c, "dropped")
    /\ UNCHANGED <<Request, lines, chunks, held, raised, outcome>>

\* GeneratorExit is raised at the yield of a dropped generator.
Finalize(c) ==
    /\ pc[c] = "dropped"
    /\ IF adapter = "http" THEN LeaveWith(c, "GeneratorExit")
       ELSE Raises(c, "GeneratorExit") /\ UNCHANGED held
    /\ UNCHANGED <<Request, lines, chunks>>

\* CancelledError at an await; the closing of a response is shielded from it.
Cancel(c) ==
    /\ \/ pc[c] \in {"queued", "asking", "sleeping"} /\ Raises(c, "CancelledError") /\ Release(c)
       \/ pc[c] = "reading" /\ LeaveWith(c, "CancelledError")
    /\ UNCHANGED <<Request, lines, chunks>>

\* adapter.aclose() of the lifespan: no request is left, only dropped generators.
Aclose ==
    /\ adapter = "http" /\ client = "open"
    /\ \A c \in Calls : pc[c] \in {"new", "dropped", "over"} \/ raised[c] = "GeneratorExit"
    /\ client' = "closed"
    /\ held' = {}
    /\ UNCHANGED <<adapter, pc, kind, config, lines, chunks, raised, outcome>>

\* What happens of itself.
Step(c) ==
    \/ Connect(c) \/ PoolIsExhausted(c) \/ AskFails(c) \/ AnswerInfer(c) \/ AnswerStream(c)
    \/ Skip(c) \/ YieldContent(c) \/ ReadDone(c) \/ ReadMalformed(c) \/ BodyEnds(c)
    \/ ReadFails(c) \/ CloseResponse(c) \/ Awake(c) \/ Finalize(c)

Next ==
    \/ \E c \in Calls :
        CallHttp(c) \/ CallStub(c) \/ Step(c) \/ Resume(c) \/ Drop(c) \/ Cancel(c)
    \/ Aclose

Spec == Init /\ [][Next]_vars

\* httpx's timeouts end every wait for the provider or for a connection, and the
\* loop runs what is ready.  Whether a consumer ever asks for the next chunk is up to
\* the client at the far end.
FairSpec == Spec /\ \A c \in Calls : WF_vars(Step(c))

-----------------------------------------------------------------------------
(* Properties.                                                              *)

\* Nothing of what the provider said is lost, repeated, reordered or made up:
\* the chunks are the contents read, in their order.
ChunksAreTheContents ==
    adapter = "http" => \A c \in Calls :
        /\ \A i, j \in DOMAIN chunks[c] : i < j => chunks[c][i] < chunks[c][j]
        /\ {chunks[c][i] : i \in DOMAIN chunks[c]}
             = {i \in DOMAIN lines[c] : lines[c][i] \in {"content", "body"}}

\* The consumer is told what happened to the call: of a timeout by TimeoutError, of
\* any other error of httpx by UpstreamProviderError, of a line nobody can understand
\* by an exception, and of a good end only if nothing was raised.  A call that read
\* [DONE] stopped there and ended well.  The converse is not said, since the code does
\* not know it: a body that just ends, without [DONE], is a good end too.
TellsWhatHappened ==
    \A c \in Calls : pc[c] = "over" =>
        /\ outcome[c] = "ended" <=> raised[c] = None
        /\ outcome[c] = "TimeoutError"
             <=> raised[c] \in {"PoolTimeout", "ReadTimeout", "TimeoutError"}
        /\ outcome[c] = "UpstreamProviderError"
             <=> raised[c] \in {"TransportError", "HTTPStatusError"}
        /\ \A i \in DOMAIN lines[c] :
             /\ lines[c][i] = "malformed" => outcome[c] = "Exception"
             /\ lines[c][i] = "done" => outcome[c] = "ended" /\ i = Len(lines[c])

\* A client that stalls may cost others an error, but keeps nobody waiting: what
\* waits for a connection, a line or the provider gets on or is told of a timeout,
\* and a generator its consumer has left is closed, its connection with it.
NobodyWaitsForGood ==
    \A c \in Calls : pc[c] \in Running \cup {"dropped"} ~> pc[c] \in {"yielded", "over"}

\* The contract of BaseLLMAdapter.stream, which StreamingService relies on.  A
\* generator that GeneratorExit is closing is still one that was dropped.
EndAs(what) ==
    CASE what = "ended"                 -> "exhausted"
      [] what = "TimeoutError"          -> "timeout"
      [] what = "UpstreamProviderError" -> "upstream_error"
      [] what = "Exception"             -> "error"
      [] OTHER                          -> "abandoned"
GenState(label, e, what) ==
    IF label = "leaving" /\ e = "GeneratorExit" THEN "dropped"
    ELSE CASE label = "new"        -> "created"
           [] label \in Running    -> "running"
           [] label = "yielded"    -> "suspended"
           [] label = "dropped"    -> "dropped"
           [] label = "over"       -> EndAs(what)
genOf == [c \in Calls |-> GenState(pc[c], raised[c], outcome[c])]
yieldedOf == [c \in Calls |-> Len(chunks[c])]

Contract == INSTANCE AbstractAdapter WITH gen <- genOf, yielded <- yieldedOf, connected <- held
KeepsTheContract == Contract!Spec

-----------------------------------------------------------------------------
(* What DECISIONS.md says of stalled clients, which the code does not do.   *)

\* "If the client stalls long enough to exceed it, the generator catches the
\* cancellation and closes the upstream LLM connection."
StalledStreamsAreClosed == \A c \in Calls : pc[c] = "yielded" ~> c \notin held
=============================================================================

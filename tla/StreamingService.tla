--------------------------- MODULE StreamingService ---------------------------
(***************************************************************************)
(* POST /v1/infer/stream: the generator StreamingService.stream of         *)
(* app/services/streaming_service.py, one for each call of the circuit     *)
(* breaker, which it EXTENDs.                                              *)
(*                                                                         *)
(* A step runs from one suspension of the generator to the next: it waits  *)
(* for the adapter's next chunk, for is_disconnected(), or at a yield for  *)
(* the server to take the event.  Whoever consumes it may cancel it at an  *)
(* await (CancelledError) or drop it at a yield, where it is then closed   *)
(* (GeneratorExit): the client left, or the server shuts down.  Breaker    *)
(* operations do not suspend.  Chunks are counted, not told apart.         *)
(*                                                                         *)
(* The adapter's generator (HttpLLMAdapter.stream) is external: it yields  *)
(* up to MaxChunks chunks and ends or raises.  An exception that passes    *)
(* through it closes its connection; if it is dropped at its yield, the    *)
(* event loop's finalizer closes it some time later.                       *)
(***************************************************************************)
EXTENDS CircuitBreaker

CONSTANT MaxChunks  \* bound on the chunks of a stream

ASSUME ChunkAssumption == MaxChunks \in Nat

VARIABLES
    pc,       \* where each stream stands
    arrived,  \* chunks the adapter has yielded
    sent,     \* chunks yielded to the server
    tokens,   \* len(tokens)
    status,   \* stream_status
    conn,     \* the connection to the provider
    audit,    \* what _audit_log was given
    told,     \* what each refused stream was told, and when
    reports,  \* history: what the breaker was told about each stream
    log       \* history: every failure since the circuit last closed

streamVars == <<pc, arrived, sent, tokens, status, conn, audit, told>>
historyVars == <<reports, log>>
vars == <<now, breakerVars, streamVars, historyVars>>

\* Suspended at an await, and at a yield: of a chunk, of [DONE], of an error event.
Awaiting == {"pulling", "checking"}
Yielding == {"yielding", "finishing", "erring"}
PC == {"new", "refused", "ended"} \cup Awaiting \cup Yielding

ProviderError == {"timeout", "upstream_error", "error"}
Status == {"cancelled", "success"} \cup ProviderError

Audit == [tokens : Nat, status : Status]
Answer == [at : Nat, retry : Nat, openedAt : Nat]

ASSUME NoneAssumption == None \notin Audit

TypeOK ==
    /\ BreakerTypeOK
    /\ pc \in [Calls -> PC]
    /\ arrived \in [Calls -> Nat]
    /\ sent \in [Calls -> Nat]
    /\ tokens \in [Calls -> Nat]
    /\ status \in [Calls -> Status]
    /\ conn \in [Calls -> {"none", "open", "dropped", "closed"}]
    /\ audit \in [Calls -> Audit \cup {None}]
    /\ told \in [Calls -> Answer \cup {None}]
    /\ reports \in [Calls -> SUBSET {"success", "failure"}]
    /\ log \subseteq Failure
    /\ IsFiniteSet(log)

Init ==
    /\ now = 0
    /\ BreakerInit
    /\ pc = [c \in Calls |-> "new"]
    /\ arrived = [c \in Calls |-> 0]
    /\ sent = [c \in Calls |-> 0]
    /\ tokens = [c \in Calls |-> 0]
    /\ status = [c \in Calls |-> "cancelled"]
    /\ conn = [c \in Calls |-> "none"]
    /\ audit = [c \in Calls |-> None]
    /\ told = [c \in Calls |-> None]
    /\ reports = [c \in Calls |-> {}]
    /\ log = {}

-----------------------------------------------------------------------------
(* Mutated forms: slips one could make in this code.  Not part of the model. *)

FinallyUnlessCancelled(c, how) ==
    /\ pc' = [pc EXCEPT ![c] = "ended"]
    /\ audit' = IF how = "cancelled" THEN audit
                ELSE [audit EXCEPT ![c] = [tokens |-> tokens[c], status |-> how]]
FinallyCountsArrived(c, how) ==
    /\ pc' = [pc EXCEPT ![c] = "ended"]
    /\ audit' = [audit EXCEPT ![c] = [tokens |-> arrived[c], status |-> how]]

-----------------------------------------------------------------------------
(* Steps shared by the actions below.                                       *)

GoTo(c, label) == pc' = [pc EXCEPT ![c] = label]

\* The finally block: dispatch the audit, and the generator is over.
Finally(c, how) ==
    /\ GoTo(c, "ended")
    /\ audit' = [audit EXCEPT ![c] = [tokens |-> tokens[c], status |-> how]]

Connection(c, how) == conn' = [conn EXCEPT ![c] = how]

\* The breaker hears of the stream's outcome.
ReportFailure(c) ==
    /\ RecordFailure(c)
    /\ reports' = [reports EXCEPT ![c] = @ \cup {"failure"}]
    /\ log' = log \cup {[call |-> c, at |-> now]}

ReportSuccess(c) ==
    /\ RecordSuccess
    /\ reports' = [reports EXCEPT ![c] = @ \cup {"success"}]
    /\ log' = IF state' = Closed /\ state # Closed THEN {} ELSE log

Silent == UNCHANGED <<breakerVars, historyVars>>

-----------------------------------------------------------------------------
(* Mutated forms of the actions, likewise.                                  *)

CompleteForgetsStatus(c) ==
    /\ pc[c] = "pulling"
    /\ ReportSuccess(c)
    /\ GoTo(c, "finishing")
    /\ Connection(c, "closed")
    /\ UNCHANGED <<now, arrived, sent, tokens, status, audit, told>>
FindClientGoneFallsThrough(c) ==
    /\ pc[c] = "checking"
    /\ ReportSuccess(c)
    /\ status' = [status EXCEPT ![c] = "success"]
    /\ GoTo(c, "finishing")
    /\ Connection(c, "dropped")
    /\ UNCHANGED <<now, arrived, sent, tokens, audit, told>>
FindClientGoneHoldsOn(c) ==
    /\ pc[c] = "checking"
    /\ Finally(c, status[c])
    /\ Silent
    /\ UNCHANGED <<now, arrived, sent, tokens, status, conn, told>>
CancelMisspelt(c) ==
    /\ pc[c] \in Awaiting
    /\ status' = [status EXCEPT ![c] = "canceled"]
    /\ Finally(c, "canceled")
    /\ Connection(c, IF pc[c] = "pulling" THEN "closed" ELSE "dropped")
    /\ Silent
    /\ UNCHANGED <<now, arrived, sent, tokens, told>>
CloseCountsAsFailure(c) ==
    /\ pc[c] \in Yielding
    /\ ReportFailure(c)
    /\ Finally(c, status[c])
    /\ conn' = IF pc[c] = "yielding" THEN [conn EXCEPT ![c] = "dropped"] ELSE conn
    /\ UNCHANGED <<now, arrived, sent, tokens, status, told>>

-----------------------------------------------------------------------------
(* The generator.                                                           *)

\* is_open() lets the stream through; the adapter connects.
Admit(c) ==
    /\ pc[c] = "new"
    /\ ~StillOpen
    /\ IsOpen
    /\ GoTo(c, "pulling")
    /\ Connection(c, "open")
    /\ UNCHANGED <<now, arrived, sent, tokens, status, audit, told, historyVars>>

\* One event with retry_after_s, and nothing else: no audit either.
Refuse(c) ==
    /\ pc[c] = "new"
    /\ StillOpen
    /\ IsOpen
    /\ GoTo(c, "refused")
    /\ told' = [told EXCEPT ![c] =
                  [at |-> now, retry |-> RetryAfter \div TicksPerSecond, openedAt |-> openedAt]]
    /\ UNCHANGED <<now, arrived, sent, tokens, status, conn, audit, historyVars>>

\* The adapter yields a chunk; is_disconnected() is asked.
Pull(c) ==
    /\ pc[c] = "pulling"
    /\ arrived[c] < MaxChunks
    /\ arrived' = [arrived EXCEPT ![c] = @ + 1]
    /\ GoTo(c, "checking")
    /\ Silent
    /\ UNCHANGED <<now, sent, tokens, status, conn, audit, told>>

\* The client is gone: the loop is left, the adapter's generator dropped.
FindClientGone(c) ==
    /\ pc[c] = "checking"
    /\ Finally(c, status[c])
    /\ Connection(c, "dropped")
    /\ Silent
    /\ UNCHANGED <<now, arrived, sent, tokens, status, told>>

\* The client is there: the chunk is yielded.
Send(c) ==
    /\ pc[c] = "checking"
    /\ sent' = [sent EXCEPT ![c] = @ + 1]
    /\ GoTo(c, "yielding")
    /\ Silent
    /\ UNCHANGED <<now, arrived, tokens, status, conn, audit, told>>

\* The server asks for more: only now does the chunk enter tokens.
Resume(c) ==
    /\ pc[c] = "yielding"
    /\ tokens' = [tokens EXCEPT ![c] = @ + 1]
    /\ GoTo(c, "pulling")
    /\ Silent
    /\ UNCHANGED <<now, arrived, sent, status, conn, audit, told>>

\* The adapter has no more chunks: success is recorded, then [DONE] yielded.
Complete(c) ==
    /\ pc[c] = "pulling"
    /\ ReportSuccess(c)
    /\ status' = [status EXCEPT ![c] = "success"]
    /\ GoTo(c, "finishing")
    /\ Connection(c, "closed")
    /\ UNCHANGED <<now, arrived, sent, tokens, audit, told>>

\* TimeoutError or UpstreamProviderError: failure is recorded, then an error
\* event yielded.
ProviderFails(c) ==
    /\ pc[c] = "pulling"
    /\ ReportFailure(c)
    /\ \E e \in {"timeout", "upstream_error"} : status' = [status EXCEPT ![c] = e]
    /\ GoTo(c, "erring")
    /\ Connection(c, "closed")
    /\ UNCHANGED <<now, arrived, sent, tokens, audit, told>>

\* Any other exception, a malformed chunk for one: it leaves the generator.
Raise(c) ==
    /\ pc[c] = "pulling"
    /\ ReportFailure(c)
    /\ status' = [status EXCEPT ![c] = "error"]
    /\ Finally(c, "error")
    /\ Connection(c, "closed")
    /\ UNCHANGED <<now, arrived, sent, tokens, told>>

\* The server takes [DONE] or the error event: the finally block runs.
Exhaust(c) ==
    /\ pc[c] \in {"finishing", "erring"}
    /\ Finally(c, status[c])
    /\ Silent
    /\ UNCHANGED <<now, arrived, sent, tokens, status, conn, told>>

\* CancelledError at an await.  In the adapter it closes the connection on its
\* way out, at is_disconnected() it leaves the adapter's generator behind.
Cancel(c) ==
    /\ pc[c] \in Awaiting
    /\ status' = [status EXCEPT ![c] = "cancelled"]
    /\ Finally(c, "cancelled")
    /\ Connection(c, IF pc[c] = "pulling" THEN "closed" ELSE "dropped")
    /\ Silent
    /\ UNCHANGED <<now, arrived, sent, tokens, told>>

\* GeneratorExit at a yield: no except clause catches it, stream_status stays.
Close(c) ==
    /\ pc[c] \in Yielding
    /\ Finally(c, status[c])
    /\ conn' = IF pc[c] = "yielding" THEN [conn EXCEPT ![c] = "dropped"] ELSE conn
    /\ Silent
    /\ UNCHANGED <<now, arrived, sent, tokens, status, told>>

\* The event loop's finalizer closes the adapter's generator.
Finalize(c) ==
    /\ conn[c] = "dropped"
    /\ Connection(c, "closed")
    /\ Silent
    /\ UNCHANGED <<now, pc, arrived, sent, tokens, status, audit, told>>

Tick ==
    /\ now < MaxTime
    /\ now' = now + 1
    /\ Silent
    /\ UNCHANGED streamVars

\* What happens of itself, once the stream is admitted: the adapter's chunk or its
\* end, and the answer of is_disconnected().
Advance(c) ==
    \/ Pull(c) \/ FindClientGone(c) \/ Send(c) \/ Complete(c) \/ ProviderFails(c) \/ Raise(c)

\* What takes a stream from a yield: its consumer asks for more, or drops it.
Consume(c) == Resume(c) \/ Exhaust(c) \/ Close(c)

Next ==
    \/ \E c \in Calls :
        Admit(c) \/ Refuse(c) \/ Advance(c) \/ Consume(c) \/ Cancel(c) \/ Finalize(c)
    \/ Tick

Spec == Init /\ [][Next]_vars

\* A read from the provider ends or times out, and the event loop runs what is ready
\* and its finalizers.  Nothing makes a client read: a consumer may leave its stream
\* suspended at a yield for good.
FairSpec == Spec /\ \A c \in Calls : WF_vars(Advance(c)) /\ WF_vars(Finalize(c))

-----------------------------------------------------------------------------
(* Properties.                                                              *)

\* The audit log and the breaker tell one story: a stream is audited as a
\* success if and only if the breaker heard of one success, as a provider
\* error if it heard of one failure, and as cancelled if it heard nothing.
AuditAgreesWithTheBreaker ==
    \A c \in Calls : audit[c] # None =>
        reports[c] = CASE audit[c].status = "success"       -> {"success"}
                       [] audit[c].status \in ProviderError -> {"failure"}
                       [] audit[c].status = "cancelled"     -> {}

\* No token is audited that was not sent; at most the last one sent is missing,
\* and none is missing from an audit that does not say "cancelled".
AuditMissesOneTokenAtMost ==
    \A c \in Calls : audit[c] # None =>
        /\ audit[c].tokens \in {sent[c], sent[c] - 1}
        /\ audit[c].status # "cancelled" => audit[c].tokens = sent[c]

\* A client that sees [DONE] has been sent every chunk the provider produced.
DoneMeansComplete ==
    \A c \in Calls : pc[c] = "finishing" \/ (audit[c] # None /\ audit[c].status = "success")
        => sent[c] = arrived[c] /\ tokens[c] = sent[c]

\* What holds between the suspension points, the reason for the three above.
Bookkeeping ==
    \A c \in Calls :
        /\ pc[c] \in {"new", "refused", "pulling"} \cup {"finishing", "erring"} =>
             arrived[c] = sent[c] /\ sent[c] = tokens[c]
        /\ pc[c] = "checking" => arrived[c] = sent[c] + 1 /\ sent[c] = tokens[c]
        /\ pc[c] = "yielding" => arrived[c] = sent[c] /\ sent[c] = tokens[c] + 1
        /\ pc[c] \in {"new", "refused", "pulling", "checking", "yielding"} =>
             reports[c] = {} /\ status[c] = "cancelled"
        /\ pc[c] = "finishing" => reports[c] = {"success"} /\ status[c] = "success"
        /\ pc[c] = "erring" => reports[c] = {"failure"} /\ status[c] \in ProviderError
        /\ audit[c] # None <=> pc[c] = "ended"

\* What a stream is to the breaker.
ClientState(label) ==
    CASE label = "new"                                -> "new"
      [] label = "refused"                            -> "rejected"
      [] label \in {"pulling", "checking", "yielding"} -> "inflight"
      [] OTHER                                        -> "ended"
callOf == [c \in Calls |-> ClientState(pc[c])]

\* To the breaker, the streams are the clients that BreakerClients describes, so
\* what is proved of that module holds here.
Clients == INSTANCE BreakerClients WITH call <- callOf
RefinesBreakerClients == Clients!Spec

\* What a stream is to the adapter: its generator, whose connection outlives it
\* only where the stream has left it at a yield.
OverAs(how) ==
    CASE how = "success"   -> "exhausted"
      [] how = "cancelled" -> "abandoned"
      [] OTHER             -> how
GenState(label, how) ==
    CASE label \in {"new", "refused"}          -> "created"
      [] label = "pulling"                     -> "running"
      [] label \in {"checking", "yielding"}    -> "suspended"
      [] label \in {"finishing", "erring", "ended"} -> OverAs(how)
genOf ==
    [c \in Calls |-> IF conn[c] = "dropped" THEN "dropped" ELSE GenState(pc[c], status[c])]
connectedOf == {c \in Calls : conn[c] \in {"open", "dropped"}}

\* The stream and the adapter's generator it drives keep the contract that
\* LLMAdapter keeps: no chunk is asked of a generator that is over or that was
\* left, and one that is over holds no connection.
Adapter == INSTANCE AbstractAdapter
    WITH gen <- genOf, yielded <- arrived, connected <- connectedOf
DrivesTheAdapterAsAgreed == Adapter!Spec

\* A client that keeps its stream suspended for good.
Stalls(c) == <>[](pc[c] \in Yielding)

\* The generator's finally block runs however the stream ends, once it started; only
\* a stalled client can keep it from running.
EveryStreamIsAudited ==
    \A c \in Calls : (pc[c] = "pulling" ~> audit[c] # None) \/ Stalls(c)

\* No connection to the provider is left open by a stream that is over, or by one
\* whose client goes on reading or goes away.
EveryConnectionCloses ==
    \A c \in Calls : (conn[c] = "open" ~> conn[c] = "closed") \/ Stalls(c)
=============================================================================

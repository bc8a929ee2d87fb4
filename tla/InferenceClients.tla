---------------------------- MODULE InferenceClients ----------------------------
(***************************************************************************)
(* InferenceService with a record of what nobody keeps in the code.        *)
(*                                                                         *)
(* The requests of infer are clients as BreakerClients describes them, and *)
(* that module speaks of what refused clients were told and of failures    *)
(* long forgotten.  Whether a leader may count on its lock depends on what *)
(* Redis has dropped since it took it.  All three are recorded along with  *)
(* each step, and none of them decides a step.                             *)
(***************************************************************************)
EXTENDS InferenceService

VARIABLES
    told,  \* what each refused request was told, and when
    log,   \* history variable: every failure since the circuit last closed
    lapsed \* history variable: the keys whose lock Redis dropped under a leader,
           \* each until nobody leads for it

recordVars == <<told, log, lapsed>>

Moves(r, from, to) == pc[r] = from /\ pc'[r] = to

\* CircuitOpenError(int(get_retry_after())), with the times it was computed from.
Refusal == [at |-> now, retry |-> RetryAfter \div TicksPerSecond, openedAt |-> openedAt]

\* A recovery or a new process forgets the failures.
Forgets ==
    \/ state # Closed /\ state' = Closed
    \/ \E r \in Requests : pc[r] # "lost" /\ pc'[r] = "lost"

\* A leader loses the lock it holds in a step that no request takes: the TTL runs
\* out, or Redis restarts.
LosesItsLock(r) ==
    /\ hasLock[r] /\ lock[key[r]] # None /\ lock[key[r]].by = r
    /\ lock'[key[r]] = None
    /\ UNCHANGED pc

Lapsing == lapsed \cup {key[r] : r \in {s \in Requests : LosesItsLock(s)}}

Record ==
    /\ told' = [r \in Requests |-> IF Moves(r, "checking", "refused") THEN Refusal ELSE told[r]]
    /\ log' = IF Forgets
              THEN {}
              ELSE log \cup {[call |-> r, at |-> now] :
                                r \in {s \in Requests : Moves(s, "calling", "failed")}}
    /\ lapsed' = {k \in Lapsing : \E r \in Requests : hasLock'[r] /\ key[r] = k}

RecordedInit ==
    /\ Init
    /\ told = [r \in Requests |-> None]
    /\ log = {}
    /\ lapsed = {}

RecordedNext == Next /\ Record

RecordedSpec == RecordedInit /\ [][RecordedNext]_<<vars, recordVars>>

-----------------------------------------------------------------------------
(* Properties.                                                              *)

\* The thundering-herd guard: at most one request per cache key is between
\* try_acquire and release, and only a lock that Redis dropped under its leader lets
\* a second one in.
OneLeaderPerKey ==
    \A r, s \in Requests :
        hasLock[r] /\ hasLock[s] /\ SameKey(r, s) => r = s \/ key[r] \in lapsed

\* No request takes a lock from its leader or deletes it, however late a release
\* comes: until its own release is done, a leader's lock in Redis is its own and
\* runs from the moment its call began, or Redis has dropped it.  A DEL without an
\* owner check meets another leader's lock only after such a drop.  Inductive, the
\* reason for OneLeaderPerKey.
LeaderHoldsTheLock ==
    \A r \in Requests :
        /\ pc[r] = "releasing" => hasLock[r]
        /\ hasLock[r] =>
            /\ pc[r] \in {"calling", "storing", "releasing"}
            /\ \/ key[r] \in lapsed
               \/ lock[key[r]] = [by |-> r, until |-> since[r] + LockTTL]

\* What a request is to the breaker: one that is answered from the cache, or dies
\* with its process, ends without a report.
ClientState(label) ==
    CASE label \in {"new", "lookup", "checking"}          -> "new"
      [] label = "refused"                                -> "rejected"
      [] label \in {"acquiring", "waiting", "calling"}    -> "inflight"
      [] OTHER                                            -> "ended"
callOf == [r \in Requests |-> ClientState(pc[r])]

\* To the breaker, the requests are the clients that BreakerClients describes: each
\* asks once and reports at most once, a failure of the provider and nothing else,
\* however Redis fails and whenever the process dies.
Clients == INSTANCE BreakerClients WITH call <- callOf
RefinesBreakerClients == Clients!Spec
=============================================================================

--------------------------------- MODULE Demo ---------------------------------
(***************************************************************************)
(* scripts/demo.py: the guided demo, which breaks the compose stack on     *)
(* purpose in two of its scenes and repairs it again.                      *)
(*                                                                         *)
(* A scene is a sequence of steps: requests, compose commands, waits for   *)
(* /health.  Each returns or raises; the steps of the try block of scenes  *)
(* 6 and 7 are followed by those of its finally block either way.  The     *)
(* operator may interrupt any step, and start the demo again on whatever   *)
(* stack the last run has left.                                            *)
(*                                                                         *)
(* The stack is external: the app's container, the failure rate its stub   *)
(* was created with, Redis, and what the limiter leaves the second key.    *)
(***************************************************************************)
EXTENDS Integers, Sequences

CONSTANTS
    Attempts,   \* requests of scene 5, 79
    RateLimit,  \* RATE_LIMIT_RPM
    Polls,      \* polls of /health that fit into timeout_s
    None

ASSUME DemoAssumption == Attempts \in Nat /\ RateLimit \in Nat /\ Polls \in Nat

VARIABLES
    proc,      \* the process of the demo
    scene,     \* the current scene
    last,      \* the last scene: the loop is over one scene, or over all of them
    at,        \* the step of the current scene
    exc,       \* an exception that waits for a finally block to end
    polled,    \* polls made by _wait_for_health
    attempt,   \* requests made by scene 5
    firstOk,   \* whether one of them was let through
    client,    \* runner.client
    outcome,   \* how main() ended
    stack,     \* app, stub and redis
    quota,     \* what the limiter leaves the second key
    before,    \* history: the stack when the demo began
    trouble    \* history: the parts of a scene in which a step has raised

scriptVars == <<proc, scene, last, at, exc, polled, attempt, firstOk, client, outcome>>
historyVars == <<before, trouble>>
vars == <<scriptVars, stack, quota, historyVars>>

Stack == [app : {"starting", "ready"}, stub : {"healthy", "failing"}, redis : {"ok", "down"}]
Exception == {"HTTPError", "RuntimeError", "TimeoutError", "Other", "KeyboardInterrupt"}

-----------------------------------------------------------------------------
(* The scenes.                                                              *)

In(part, op, arg) == [part |-> part, op |-> op, arg |-> arg]

Setup(op, arg)   == In("setup", op, arg)    \* before a try block
Try(op)          == In("try", op, "none")
Finally(op, arg) == In("finally", op, arg)
Rest(op)         == In("rest", op, "none")  \* after it, or where there is none

SceneCover == <<>>
SceneContext == << Rest("health") >>
SceneInferHappyPath == << Rest("infer") >>
SceneCacheHit == << Rest("infer"), Rest("infer") >>
SceneClassifyWrappers == << Rest("classify"), Rest("classify") >>
SceneRateLimit == << Rest("flood") >>

\* _post_infer raises for a status that is an error, _infer_response does not.
SceneCircuitBreaker == <<
    Setup("compose", "upFailingApp"), Setup("wait", "any"),
    Try("send"), Try("send"), Try("send"), Try("send"), Try("send"), Try("send"), Try("health"),
    Finally("compose", "upHealthyApp"), Finally("wait", "ok"),
    Rest("infer") >>

SceneRedisDegradation == <<
    Setup("compose", "stopRedis"), Setup("compose", "restartApp"), Setup("wait", "down"),
    Try("health"), Try("send"),
    Finally("compose", "upRedis"), Finally("compose", "restartApp"), Finally("wait", "ok"),
    Rest("health") >>

Scene(n) ==
    CASE n = 1 -> SceneContext
      [] n = 2 -> SceneInferHappyPath
      [] n = 3 -> SceneCacheHit
      [] n = 4 -> SceneClassifyWrappers
      [] n = 5 -> SceneRateLimit
      [] n = 6 -> SceneCircuitBreaker
      [] n = 7 -> SceneRedisDegradation
      [] OTHER -> SceneCover

Steps == Scene(scene)
AtStep == proc = "running" /\ at <= Len(Steps)
PartOf == Steps[at].part
Does(op, arg) == AtStep /\ Steps[at].op = op /\ Steps[at].arg = arg
Requests(op) == Does(op, "none")

TypeOK ==
    /\ proc \in {"idle", "running", "exited"}
    /\ scene \in 0..7 /\ last \in 0..7 /\ scene <= last
    /\ at \in 1..(Len(Steps) + 1)
    /\ exc \in Exception \cup {None}
    /\ polled \in 0..Polls
    /\ attempt \in 0..Attempts
    /\ firstOk \in BOOLEAN
    /\ client \in {"open", "closed"}
    /\ outcome \in {"exit0", "exit1", "raised", None}
    /\ stack \in Stack
    /\ quota \in 0..RateLimit
    /\ before \in Stack
    /\ trouble \subseteq {"setup", "try", "finally", "rest", "pause"}

Init ==
    /\ proc = "idle"
    /\ scene = 0 /\ last = 0 /\ at = 1 /\ exc = None
    /\ polled = 0 /\ attempt = 0 /\ firstOk = FALSE
    /\ client = "closed" /\ outcome = None
    /\ stack = [app |-> "ready", stub |-> "healthy", redis |-> "ok"]
    /\ quota = RateLimit
    /\ before = stack /\ trouble = {}

-----------------------------------------------------------------------------
(* How a step ends.                                                         *)

\* main(): the except clause, what passes it, and the finally clause.
Exit(how) ==
    /\ proc' = "exited"
    /\ outcome' = how
    /\ client' = "closed"
    /\ scene' = 0 /\ last' = 0 /\ at' = 1 /\ exc' = None

Main(e) ==
    IF e \in {"HTTPError", "RuntimeError", "TimeoutError"} THEN "exit1" ELSE "raised"

Fresh == polled' = 0 /\ attempt' = 0 /\ firstOk' = FALSE

\* Where the finally block of a scene begins.
FinallyOf(n) ==
    CHOOSE i \in 2..Len(Scene(n)) : Scene(n)[i].part = "finally" /\ Scene(n)[i - 1].part = "try"

\* Mutated: no finally, the stack is repaired when all went well.
ThrowPastFinally(e, part) ==
    /\ trouble' = trouble \cup {part}
    /\ Fresh
    /\ UNCHANGED <<quota, before>>
    /\ Exit(Main(e))

\* An exception leaves the scene, by way of the finally block if one is due.
Throw(e, part) ==
    /\ trouble' = trouble \cup {part}
    /\ Fresh
    /\ UNCHANGED <<quota, before>>
    /\ IF part = "try"
       THEN /\ exc' = e
            /\ at' = FinallyOf(scene)
            /\ UNCHANGED <<proc, scene, last, client, outcome>>
       ELSE Exit(Main(e))

\* The step returns.  At the end of the finally block a waiting exception goes on.
Return ==
    /\ Fresh
    /\ UNCHANGED historyVars
    /\ IF exc # None /\ Steps[at + 1].part # "finally"
       THEN Exit(Main(exc))
       ELSE at' = at + 1 /\ UNCHANGED <<proc, scene, last, exc, client, outcome>>

Fails(e) == Throw(e, PartOf) /\ UNCHANGED stack

\* No connection, no answer in time, or one whose status or body is no good.
RequestFails == Fails("HTTPError") \/ Fails("Other")
Serves == stack.app = "ready"
Infers == Serves /\ stack.redis = "ok" /\ stack.stub = "healthy"

-----------------------------------------------------------------------------
(* Steps.                                                                   *)

\* One scene, --scene, or all of them.
Start ==
    /\ proc \in {"idle", "exited"}
    /\ proc' = "running"
    /\ scene' \in 0..7
    /\ last' = scene' \/ (scene' = 0 /\ last' = 7)
    /\ at' = 1
    /\ client' = "open" /\ outcome' = None
    /\ before' = stack /\ trouble' = {}
    /\ Fresh
    /\ UNCHANGED <<exc, stack, quota>>

Health ==
    /\ Requests("health")
    /\ (Serves /\ Return /\ UNCHANGED <<stack, quota>>) \/ RequestFails

Infer ==
    /\ Requests("infer")
    /\ (Infers /\ Return /\ UNCHANGED <<stack, quota>>) \/ RequestFails

Send ==
    /\ Requests("send")
    /\ (Serves /\ Return /\ UNCHANGED <<stack, quota>>) \/ RequestFails

Classify ==
    /\ Requests("classify")
    /\ (Serves /\ Return /\ UNCHANGED <<stack, quota>>) \/ RequestFails

\* One request of scene 5: let through, answered with another error, declined.
Attempt ==
    /\ Requests("flood") /\ attempt < Attempts
    /\ Serves
    /\ attempt' = attempt + 1
    /\ stack.redis = "ok" => quota > 0
    /\ quota' = IF stack.redis = "ok" THEN quota - 1 ELSE quota
    /\ firstOk' = (firstOk \/ Infers)
    /\ UNCHANGED <<proc, scene, last, at, exc, polled, client, outcome, stack, historyVars>>

AttemptDeclined ==
    /\ Requests("flood") /\ attempt < Attempts
    /\ Serves /\ stack.redis = "ok" /\ quota = 0
    /\ IF firstOk THEN Return /\ UNCHANGED <<stack, quota>> ELSE Fails("RuntimeError")

AttemptFails ==
    /\ Requests("flood") /\ attempt < Attempts
    /\ RequestFails

AttemptsAreUsedUp ==
    /\ Requests("flood") /\ attempt = Attempts
    /\ Fails("RuntimeError")

-----------------------------------------------------------------------------
(* Compose commands.                                                        *)

\* "up" of the app creates its container again where its environment or image is
\* new, and starts Redis, which it depends on.
UpApp(rate) ==
    {[app |-> a, stub |-> rate, redis |-> "ok"] :
        a \in {"starting"} \cup (IF stack.stub = rate THEN {stack.app} ELSE {})}

Effects(cmd) ==
    CASE cmd = "upFailingApp" -> UpApp("failing")
      [] cmd = "upHealthyApp" -> UpApp("healthy")
      [] cmd = "stopRedis"     -> {[stack EXCEPT !.redis = "down"]}
      [] cmd = "upRedis"       -> {[stack EXCEPT !.redis = "ok"]}
      [] cmd = "restartApp"    -> {[stack EXCEPT !.app = "starting"]}

Commands == {"upFailingApp", "upHealthyApp", "stopRedis", "upRedis", "restartApp"}

Compose ==
    \E cmd \in Commands :
        /\ Does("compose", cmd)
        /\ stack' \in Effects(cmd)
        /\ Return
        /\ UNCHANGED quota

\* A return code that is not 0, with or without effect; or docker cannot be run.
ComposeFails ==
    \E cmd \in Commands :
        /\ Does("compose", cmd)
        /\ \/ stack' \in Effects(cmd) \cup {stack} /\ Throw("RuntimeError", PartOf)
           \/ Fails("Other")

-----------------------------------------------------------------------------
(* _wait_for_health.                                                        *)

Waits(expected) == Does("wait", expected)
Polled(count) ==
    /\ polled' = count
    /\ UNCHANGED <<proc, scene, last, at, exc, attempt, firstOk, client, outcome, stack, quota,
                   historyVars>>

\* Mutated: a deadline that every second poll sets anew; one that is compared with <=.
PollForGood ==
    \E expected \in {"any", "ok", "down"} :
        Waits(expected) /\ polled < Polls /\ Polled((polled + 1) % 2)
PollTooLong ==
    \E expected \in {"any", "ok", "down"} :
        Waits(expected) /\ polled <= Polls /\ Polled(polled + 1)

\* An HTTPError, or another state of Redis than the one waited for.
Poll ==
    \E expected \in {"any", "ok", "down"} :
        Waits(expected) /\ polled < Polls /\ Polled(polled + 1)

PollSucceeds ==
    \E expected \in {"any", "ok", "down"} :
        /\ Waits(expected) /\ polled < Polls
        /\ Serves /\ expected \in {"any", stack.redis}
        /\ Return
        /\ UNCHANGED <<stack, quota>>

\* The deadline is over, or the answer is not JSON.
WaitFails ==
    \E expected \in {"any", "ok", "down"} :
        /\ Waits(expected)
        /\ (polled = Polls /\ Fails("TimeoutError")) \/ (polled < Polls /\ Fails("Other"))

-----------------------------------------------------------------------------
(* Between the scenes; the operator; the stack.                             *)

AtPause == proc = "running" /\ at > Len(Steps)

\* Enter, or --auto.  After the last scene main() returns.
Pause ==
    /\ AtPause
    /\ IF scene < last
       THEN /\ scene' = scene + 1 /\ at' = 1
            /\ UNCHANGED <<proc, last, exc, client, outcome>>
       ELSE Exit("exit0")
    /\ UNCHANGED <<polled, attempt, firstOk, stack, quota, historyVars>>

\* input() finds no terminal.
PauseFails == AtPause /\ Throw("Other", "pause") /\ UNCHANGED stack

\* Ctrl-C, which a compose command gets too.
Interrupt ==
    \/ AtPause /\ Throw("KeyboardInterrupt", "pause") /\ UNCHANGED stack
    \/ /\ AtStep
       /\ \/ UNCHANGED stack
          \/ \E cmd \in Commands : Does("compose", cmd) /\ stack' \in Effects(cmd)
       /\ Throw("KeyboardInterrupt", PartOf)

\* The container comes up, if it does; a minute passes.
Boot ==
    /\ stack.app = "starting"
    /\ stack' = [stack EXCEPT !.app = "ready"]
    /\ UNCHANGED <<scriptVars, quota, historyVars>>

Refill ==
    /\ quota < RateLimit
    /\ quota' \in (quota + 1)..RateLimit
    /\ UNCHANGED <<scriptVars, stack, historyVars>>

Step ==
    \/ Health \/ Infer \/ Send \/ Classify
    \/ Attempt \/ AttemptDeclined \/ AttemptFails \/ AttemptsAreUsedUp
    \/ Compose \/ ComposeFails \/ Poll \/ PollSucceeds \/ WaitFails
    \/ Pause \/ PauseFails

Next == Start \/ Step \/ Interrupt \/ Boot \/ Refill

Spec == Init /\ [][Next]_vars

\* Requests have a timeout, docker is taken to return, and the operator to press
\* Enter.  Nothing is assumed of the stack: a container may never come up.
FairSpec == Spec /\ WF_vars(Step)

-----------------------------------------------------------------------------
(* Properties.                                                              *)

Broken(s) == {f \in DOMAIN s : s[f] # [app |-> "ready", stub |-> "healthy", redis |-> "ok"][f]}

\* What the demo breaks it repairs, whatever happens while it shows it: a stack
\* that is worse after the demo than before was left so by a step before a try
\* block or of a finally block that raised, and the exit status says so.
BreaksNothingUnnoticed ==
    proc = "exited" /\ ~(Broken(stack) \subseteq Broken(before)) =>
        outcome # "exit0" /\ trouble \cap {"setup", "finally"} # {}

\* What the demo has broken, or may have, when it is about to do step i of scene n.
HasBroken(n, i) ==
    CASE n = 6 /\ i \in 2..10 -> {"app", "stub"}
      [] n = 6 /\ i = 11       -> {"app"}
      [] n = 7 /\ i = 2        -> {"redis"}
      [] n = 7 /\ i \in 3..6  -> {"redis", "app"}
      [] n = 7 /\ i \in 7..8  -> {"app"}
      [] OTHER                 -> {}

\* The inductive invariant behind it: what is broken at each step, and that an
\* exception waits for the end of a finally block only.
DemoInv ==
    /\ TypeOK
    /\ proc = "running" => Broken(stack) \subseteq Broken(before) \cup HasBroken(scene, at)
    /\ exc # None => AtStep /\ PartOf = "finally"
    /\ BreaksNothingUnnoticed

\* A demo comes to its end, even if the app does not come up again, and closes its
\* client on every way out.
EveryRunEnds == proc = "running" ~> (proc = "exited" /\ client = "closed")
=============================================================================

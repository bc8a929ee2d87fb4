------------------------------ MODULE Demo_proof ------------------------------
(***************************************************************************)
(* Theorems about the demo script, for any number of attempts and polls    *)
(* and any limit.                                                          *)
(***************************************************************************)
EXTENDS Demo, TLAPS

-----------------------------------------------------------------------------
(* The script.                                                              *)

Op == {"health", "infer", "send", "classify", "flood", "compose", "wait"}
StepPart == {"setup", "try", "finally", "rest"}

\* What a compose command breaks, and what it repairs.
Breaks(cmd) ==
    CASE cmd = "upFailingApp"               -> {"app", "stub"}
      [] cmd \in {"upHealthyApp", "restartApp"} -> {"app"}
      [] cmd = "stopRedis"                  -> {"redis"}
      [] OTHER                              -> {}
Repairs(cmd) ==
    CASE cmd = "upFailingApp" -> {"redis"}
      [] cmd = "upHealthyApp" -> {"stub", "redis"}
      [] cmd = "upRedis"      -> {"redis"}
      [] OTHER                -> {}

\* A finally block does not end a scene, and begins after the try block.
LEMMA PartsOfScenes ==
    ASSUME NEW n \in 0..7
    PROVE  /\ Len(Scene(n)) \in Nat
           /\ \A i \in 1..Len(Scene(n)) :
               /\ Scene(n)[i].part \in StepPart
               /\ Scene(n)[i].part = "finally" => i < Len(Scene(n))
               /\ Scene(n)[i].part = "try" => n \in {6, 7}
<1> USE DEF In, Setup, Try, Finally, Rest, StepPart
<1>1. CASE n \in 0..5
    BY <1>1 DEF Scene, SceneCover, SceneContext, SceneInferHappyPath, SceneCacheHit,
                SceneClassifyWrappers, SceneRateLimit
<1>2. CASE n = 6
    BY <1>2 DEF Scene, SceneCircuitBreaker
<1>3. CASE n = 7
    BY <1>3 DEF Scene, SceneRedisDegradation
<1> QED
    BY <1>1, <1>2, <1>3

LEMMA FinallyAfterTry ==
    ASSUME NEW n \in {6, 7}
    PROVE  /\ FinallyOf(n) = IF n = 6 THEN 10 ELSE 6
           /\ FinallyOf(n) \in 1..Len(Scene(n))
           /\ Scene(n)[FinallyOf(n)].part = "finally"
           /\ \A i \in 1..Len(Scene(n)) : Scene(n)[i].part = "try" =>
                i < FinallyOf(n) /\ HasBroken(n, i) \subseteq HasBroken(n, FinallyOf(n))
<1> USE DEF In, Setup, Try, Finally, Rest
<1>1. CASE n = 6
  <2>1. /\ Len(Scene(n)) = 12
        /\ \A i \in 1..12 :
            /\ Scene(n)[i].part = "try" <=> i \in 3..9
            /\ Scene(n)[i].part = "finally" <=> i \in 10..11
    BY <1>1 DEF Scene, SceneCircuitBreaker
  <2>2. FinallyOf(n) = 10
    BY <2>1 DEF FinallyOf
  <2>3. \A i \in 3..10 : HasBroken(n, i) = {"app", "stub"}
    BY <1>1 DEF HasBroken
  <2>4. FinallyOf(n) \in 1..Len(Scene(n)) /\ Scene(n)[FinallyOf(n)].part = "finally"
    BY <2>1, <2>2
  <2>5. ASSUME NEW i \in 1..Len(Scene(n)), Scene(n)[i].part = "try"
        PROVE  i < FinallyOf(n) /\ HasBroken(n, i) \subseteq HasBroken(n, FinallyOf(n))
    BY <2>1, <2>2, <2>3, <2>5
  <2> QED
    BY <1>1, <2>2, <2>4, <2>5
<1>2. CASE n = 7
    BY <1>2 DEF Scene, SceneRedisDegradation, FinallyOf, HasBroken
<1> QED
    BY <1>1, <1>2

LEMMA ScriptKeepsBooks ==
    ASSUME NEW n \in 0..7
    PROVE  /\ HasBroken(n, 1) = {} /\ HasBroken(n, Len(Scene(n)) + 1) = {}
           /\ \A i \in 1..Len(Scene(n)) :
               /\ Scene(n)[i].op \notin {"compose", "wait"} =>
                    HasBroken(n, i) \subseteq HasBroken(n, i + 1)
               /\ Scene(n)[i].op = "wait" =>
                    HasBroken(n, i) \subseteq HasBroken(n, i + 1) \cup {"app"}
               /\ \A cmd \in Commands : Scene(n)[i].op = "compose" /\ Scene(n)[i].arg = cmd =>
                    (HasBroken(n, i) \ Repairs(cmd)) \cup Breaks(cmd) \subseteq HasBroken(n, i + 1)
               /\ Scene(n)[i].part = "rest" => HasBroken(n, i) = {}
               /\ Scene(n)[i].part = "finally" /\ Scene(n)[i + 1].part # "finally" =>
                    HasBroken(n, i + 1) = {}
<1> USE DEF In, Setup, Try, Finally, Rest
<1>1. CASE n \in 0..5
    BY <1>1 DEF Scene, SceneCover, SceneContext, SceneInferHappyPath, SceneCacheHit,
                SceneClassifyWrappers, SceneRateLimit, HasBroken
<1>2. CASE n = 6
    BY <1>2 DEF Scene, SceneCircuitBreaker, HasBroken, Commands, Breaks, Repairs
<1>3. CASE n = 7
    BY <1>3 DEF Scene, SceneRedisDegradation, HasBroken, Commands, Breaks, Repairs
<1>4. n \in 0..5 \/ n = 6 \/ n = 7
    OBVIOUS
<1> QED
    BY <1>1, <1>2, <1>3, <1>4, Zenon

\* Compose commands are run before a try block and in its finally block only.
LEMMA CommandsArePrepared ==
    ASSUME NEW n \in 0..7, NEW i \in 1..Len(Scene(n)), Scene(n)[i].op = "compose"
    PROVE  Scene(n)[i].part \notin {"try", "rest"}
<1> USE DEF In, Setup, Try, Finally, Rest
<1>1. CASE n \in 0..5
    BY <1>1 DEF Scene, SceneCover, SceneContext, SceneInferHappyPath, SceneCacheHit,
                SceneClassifyWrappers, SceneRateLimit
<1>2. CASE n = 6
    BY <1>2 DEF Scene, SceneCircuitBreaker
<1>3. CASE n = 7
    BY <1>3 DEF Scene, SceneRedisDegradation
<1> QED
    BY <1>1, <1>2, <1>3

-----------------------------------------------------------------------------
(* The stack.                                                               *)

LEMMA BrokenParts ==
    ASSUME NEW s \in Stack
    PROVE  /\ Broken(s) \subseteq {"app", "stub", "redis"}
           /\ "app" \in Broken(s) <=> s.app # "ready"
           /\ "stub" \in Broken(s) <=> s.stub # "healthy"
           /\ "redis" \in Broken(s) <=> s.redis # "ok"
    BY DEF Broken, Stack

LEMMA EffectsAreAsTold ==
    ASSUME stack \in Stack, NEW cmd \in Commands, NEW s \in Effects(cmd)
    PROVE  s \in Stack /\ Broken(s) \subseteq (Broken(stack) \ Repairs(cmd)) \cup Breaks(cmd)
<1>1. s \in Stack
    BY DEF Effects, UpApp, Commands, Stack
<1> QED
    BY <1>1, BrokenParts DEF Effects, UpApp, Commands, Repairs, Breaks, Stack

-----------------------------------------------------------------------------
(* Types.                                                                   *)

\* Where a step can lead: on in the scene, to its finally block, or out.
LEMMA StepsLead ==
    ASSUME TypeOK, AtStep
    PROVE  /\ scene \in 0..7 /\ Len(Steps) \in Nat /\ at \in 1..Len(Steps)
           /\ PartOf \in StepPart
           /\ PartOf = "try" => FinallyOf(scene) \in 1..Len(Steps)
           /\ PartOf = "finally" => at + 1 \in 1..Len(Steps)
<1>1. scene \in 0..7
    BY DEF TypeOK
<1>2. Len(Steps) \in Nat /\ at \in 1..Len(Steps)
    BY <1>1, PartsOfScenes DEF Steps, AtStep, TypeOK
<1>3. PartOf \in StepPart
    BY <1>1, <1>2, PartsOfScenes DEF Steps, PartOf
<1>4. PartOf = "try" => FinallyOf(scene) \in 1..Len(Steps)
    BY <1>1, <1>2, PartsOfScenes, FinallyAfterTry DEF Steps, PartOf
<1>5. PartOf = "finally" => at + 1 \in 1..Len(Steps)
  <2>1. Steps[at].part = "finally" => at < Len(Steps)
    BY <1>1, <1>2, PartsOfScenes DEF Steps
  <2> QED
    BY <1>2, <2>1 DEF PartOf
<1> QED
    BY <1>1, <1>2, <1>3, <1>4, <1>5

\* The types of what a step of the script changes.
ScriptTypeOK ==
    /\ proc \in {"idle", "running", "exited"}
    /\ scene \in 0..7 /\ last \in 0..7 /\ scene <= last
    /\ at \in 1..(Len(Steps) + 1)
    /\ exc \in Exception \cup {None}
    /\ client \in {"open", "closed"}
    /\ outcome \in {"exit0", "exit1", "raised", None}

LEMMA FreshIsTyped ==
    ASSUME Fresh
    PROVE  polled' \in 0..Polls /\ attempt' \in 0..Attempts /\ firstOk' \in BOOLEAN
<1>1. polled' = 0 /\ attempt' = 0 /\ firstOk' = FALSE
    BY DEF Fresh
<1>2. 0 \in 0..Polls /\ 0 \in 0..Attempts /\ FALSE \in BOOLEAN
    BY DemoAssumption
<1> QED
    BY <1>1, <1>2

LEMMA ExitIsTyped ==
    ASSUME NEW how \in {"exit0", "exit1", "raised"}, Exit(how)
    PROVE  ScriptTypeOK'
<1>1. Len(Scene(0)) \in Nat
    BY PartsOfScenes
<1>2. Len(Steps') \in Nat
    BY <1>1 DEF Steps, Exit
<1> QED
    BY <1>2 DEF ScriptTypeOK, Exit

LEMMA ThrowIsTyped ==
    ASSUME TypeOK, NEW e \in Exception, NEW part \in StepPart \cup {"pause"}, Throw(e, part),
           part = "try" => AtStep /\ PartOf = "try"
    PROVE  ScriptTypeOK' /\ trouble' \subseteq StepPart \cup {"pause"}
<1>1. CASE part = "try"
  <2>1. /\ exc' = e /\ at' = FinallyOf(scene)
        /\ UNCHANGED <<proc, scene, last, client, outcome>>
    BY <1>1 DEF Throw
  <2>2. FinallyOf(scene) \in 1..Len(Steps) /\ Len(Steps) \in Nat
    BY <1>1, StepsLead
  <2>3. Steps' = Steps
    BY <2>1 DEF Steps
  <2> QED
    BY <2>1, <2>2, <2>3 DEF ScriptTypeOK, TypeOK, Throw, StepPart
<1>2. CASE part # "try"
  <2>1. Exit(Main(e)) /\ Main(e) \in {"exit0", "exit1", "raised"}
    BY <1>2 DEF Throw, Main
  <2> QED
    BY <2>1, ExitIsTyped DEF Throw, TypeOK, StepPart
<1> QED
    BY <1>1, <1>2

LEMMA ReturnIsTyped ==
    ASSUME TypeOK, AtStep, Return
    PROVE  ScriptTypeOK'
<1>1. CASE Exit(Main(exc))
  <2>1. Main(exc) \in {"exit0", "exit1", "raised"}
    BY DEF Main
  <2> QED
    BY <1>1, <2>1, ExitIsTyped
<1>2. CASE at' = at + 1 /\ UNCHANGED <<proc, scene, last, exc, client, outcome>>
  <2>1. Len(Steps) \in Nat /\ at \in 1..Len(Steps)
    BY StepsLead
  <2>2. Steps' = Steps
    BY <1>2 DEF Steps
  <2> QED
    BY <1>2, <2>1, <2>2 DEF ScriptTypeOK, TypeOK
<1> QED
    BY <1>1, <1>2 DEF Return

LEMMA StepTypeOK == TypeOK /\ [Next]_vars => TypeOK'
<1> SUFFICES ASSUME TypeOK, [Next]_vars PROVE TypeOK'
    OBVIOUS
<1>1. ASSUME ScriptTypeOK', stack' \in Stack, quota' \in 0..RateLimit, before' \in Stack,
             Fresh \/ UNCHANGED <<polled, attempt, firstOk>>,
             trouble' \subseteq StepPart \cup {"pause"}
      PROVE  TypeOK'
  <2>1. polled' \in 0..Polls /\ attempt' \in 0..Attempts /\ firstOk' \in BOOLEAN
    BY <1>1, FreshIsTyped DEF TypeOK
  <2> QED
    BY <1>1, <2>1 DEF TypeOK, ScriptTypeOK, StepPart
<1>2. stack \in Stack /\ quota \in 0..RateLimit /\ before \in Stack
      /\ trouble \subseteq StepPart \cup {"pause"}
    BY DEF TypeOK, StepPart
\* A step that returns, and one that raises.
<1>3. ASSUME AtStep, Return, stack' \in Stack, UNCHANGED quota PROVE TypeOK'
    BY <1>1, <1>2, <1>3, ReturnIsTyped DEF Return, historyVars
<1>4. ASSUME AtStep, NEW e \in Exception, Throw(e, PartOf), stack' \in Stack PROVE TypeOK'
    BY <1>1, <1>2, <1>4, ThrowIsTyped, StepsLead DEF Throw
<1>5. ASSUME AtStep, NEW e \in Exception, Fails(e) PROVE TypeOK'
    BY <1>2, <1>4, <1>5 DEF Fails
<1>6. ASSUME AtStep, RequestFails PROVE TypeOK'
    BY <1>5, <1>6 DEF RequestFails, Exception
<1>7. ASSUME NEW cmd \in Commands, stack' \in Effects(cmd) PROVE stack' \in Stack
    BY <1>2, <1>7, EffectsAreAsTold
<1>8. CASE Start
  <2>1. Len(Steps') \in Nat /\ at' = 1
    BY <1>8, PartsOfScenes DEF Start, Steps
  <2>2. ScriptTypeOK'
    BY <1>8, <2>1 DEF Start, ScriptTypeOK, TypeOK
  <2> QED
    BY <1>1, <1>2, <1>8, <2>2 DEF Start
<1>9. CASE Health \/ Infer \/ Send \/ Classify
    BY <1>2, <1>3, <1>6, <1>9 DEF Health, Infer, Send, Classify, Requests, Does
<1>10. CASE Attempt
    BY <1>2, <1>10, DemoAssumption DEF Attempt, TypeOK, Steps, historyVars
<1>11. CASE AttemptDeclined \/ AttemptFails \/ AttemptsAreUsedUp
    BY <1>2, <1>3, <1>5, <1>6, <1>11
    DEF AttemptDeclined, AttemptFails, AttemptsAreUsedUp, Requests, Does, Exception
<1>12. CASE Compose
    BY <1>2, <1>3, <1>7, <1>12 DEF Compose, Does
<1>13. CASE ComposeFails
    BY <1>2, <1>4, <1>5, <1>7, <1>13 DEF ComposeFails, Does, Exception
<1>14. CASE Poll
    BY <1>2, <1>14, DemoAssumption DEF Poll, Polled, TypeOK, Steps, historyVars
<1>15. CASE PollSucceeds
    BY <1>2, <1>3, <1>15 DEF PollSucceeds, Waits, Does
<1>16. CASE WaitFails
    BY <1>5, <1>16 DEF WaitFails, Waits, Does, Exception
<1>17. CASE Pause
  <2>1. CASE Exit("exit0")
    BY <1>1, <1>2, <1>17, <2>1, ExitIsTyped DEF Pause, historyVars
  <2>2. CASE scene < last /\ scene' = scene + 1 /\ at' = 1
             /\ UNCHANGED <<proc, last, exc, client, outcome>>
    <3>1. scene' \in 0..7 /\ scene' <= last /\ last \in 0..7
      BY <2>2 DEF TypeOK
    <3>2. Len(Steps') \in Nat
      BY <3>1, PartsOfScenes DEF Steps
    <3>3. ScriptTypeOK'
      BY <2>2, <3>1, <3>2 DEF ScriptTypeOK, TypeOK
    <3> QED
      BY <1>1, <1>2, <1>17, <3>3 DEF Pause, historyVars
  <2> QED
    BY <1>17, <2>1, <2>2 DEF Pause
<1>18. CASE PauseFails
    BY <1>1, <1>2, <1>18, ThrowIsTyped DEF PauseFails, Throw, Exception
<1>19. CASE Interrupt
  <2>1. CASE AtPause /\ Throw("KeyboardInterrupt", "pause") /\ UNCHANGED stack
    BY <1>1, <1>2, <2>1, ThrowIsTyped DEF Throw, Exception
  <2>2. CASE AtStep /\ Throw("KeyboardInterrupt", PartOf)
             /\ (UNCHANGED stack \/ \E cmd \in Commands : stack' \in Effects(cmd))
    BY <1>2, <1>4, <1>7, <2>2 DEF Exception
  <2> QED
    BY <1>19, <2>1, <2>2 DEF Interrupt
<1>20. CASE Boot \/ Refill \/ UNCHANGED vars
  <2>1. stack' \in Stack
    BY <1>2, <1>20 DEF Boot, Refill, vars, Stack
  <2> QED
    BY <1>2, <1>20, <2>1, DemoAssumption
    DEF Boot, Refill, vars, scriptVars, historyVars, TypeOK, Steps
<1> QED
    BY <1>8, <1>9, <1>10, <1>11, <1>12, <1>13, <1>14, <1>15, <1>16, <1>17, <1>18, <1>19, <1>20
    DEF Next, Step

LEMMA InitTypeOK == Init => TypeOK
<1> SUFFICES ASSUME Init PROVE TypeOK
    OBVIOUS
<1>1. Len(Steps) \in Nat
    BY PartsOfScenes DEF Init, Steps
<1> QED
  <2>1. firstOk \in BOOLEAN
    BY DEF Init
  <2>2. stack \in Stack /\ before \in Stack
    BY DEF Init, Stack
  <2>3. /\ polled \in 0..Polls /\ attempt \in 0..Attempts /\ quota \in 0..RateLimit
        /\ at \in 1..(Len(Steps) + 1) /\ scene \in 0..7 /\ last \in 0..7 /\ scene <= last
    BY <1>1, DemoAssumption DEF Init
  <2> QED
    BY <2>1, <2>2, <2>3 DEF Init, TypeOK

\* The script never leaves its scenes, and its bounds are kept.
THEOREM TypeCorrectness == Spec => []TypeOK
    BY InitTypeOK, StepTypeOK, PTL DEF Spec

-----------------------------------------------------------------------------
(* What is broken, and what is known of it.                                 *)

Worse == Broken(stack) \ Broken(before)

\* The demo is over: nothing is worse, or it has said so.
LEMMA ExitIsHonest ==
    ASSUME TypeOK', NEW how, Exit(how),
           Worse' = {} \/ (how # "exit0" /\ trouble' \cap {"setup", "finally"} # {})
    PROVE  DemoInv'
<1>1. proc' = "exited" /\ outcome' = how /\ exc' = None
    BY DEF Exit
<1>2. BreaksNothingUnnoticed'
    BY <1>1 DEF BreaksNothingUnnoticed, Worse
<1> QED
    BY <1>1, <1>2 DEF DemoInv

\* A step that raises.
LEMMA ThrowKeepsInv ==
    ASSUME DemoInv, TypeOK', NEW e \in Exception, Throw(e, PartOf), AtStep,
           PartOf \in {"try", "rest"} => Broken(stack') \subseteq Broken(stack)
    PROVE  DemoInv'
<1>1. TypeOK /\ scene \in 0..7 /\ at \in 1..Len(Steps) /\ PartOf \in StepPart
    BY StepsLead DEF DemoInv
<1>2. Broken(stack) \subseteq Broken(before) \cup HasBroken(scene, at) /\ before' = before
    BY DEF DemoInv, AtStep, Throw
<1>3. CASE PartOf = "try"
  <2>1. /\ exc' = e /\ at' = FinallyOf(scene)
        /\ UNCHANGED <<proc, scene, last, client, outcome>>
    BY <1>3 DEF Throw
  <2>2. /\ FinallyOf(scene) \in 1..Len(Steps)
        /\ Steps[FinallyOf(scene)].part = "finally"
        /\ HasBroken(scene, at) \subseteq HasBroken(scene, FinallyOf(scene))
    BY <1>1, <1>3, PartsOfScenes, FinallyAfterTry DEF Steps, PartOf
  <2>3. Steps' = Steps /\ proc = "running" /\ Len(Steps) \in Nat
    BY <1>1, <2>1, PartsOfScenes DEF Steps, AtStep
  <2>4. AtStep' /\ PartOf' = "finally"
    BY <2>1, <2>2, <2>3 DEF AtStep, PartOf
  <2>5. Broken(stack') \subseteq Broken(before') \cup HasBroken(scene', at')
    BY <1>2, <1>3, <2>1, <2>2
  <2>6. BreaksNothingUnnoticed'
    BY <2>1, <2>3 DEF BreaksNothingUnnoticed
  <2> QED
    BY <2>4, <2>5, <2>6 DEF DemoInv
<1>4. CASE PartOf \in {"setup", "finally"}
  <2>1. Exit(Main(e)) /\ Main(e) # "exit0" /\ trouble' \cap {"setup", "finally"} # {}
    BY <1>4 DEF Throw, Main
  <2> QED
    BY <2>1, ExitIsHonest
<1>5. CASE PartOf = "rest"
  <2>1. HasBroken(scene, at) = {}
    BY <1>1, <1>5, ScriptKeepsBooks DEF Steps, PartOf
  <2>2. Exit(Main(e)) /\ Worse' = {}
    BY <1>2, <1>5, <2>1 DEF Throw, Worse
  <2> QED
    BY <2>2, ExitIsHonest
<1> QED
    BY <1>1, <1>3, <1>4, <1>5 DEF StepPart

\* A step that returns, with the books of the script kept.
LEMMA ReturnKeepsInv ==
    ASSUME DemoInv, TypeOK', AtStep, Return,
           Broken(stack') \subseteq Broken(before) \cup HasBroken(scene, at + 1)
    PROVE  DemoInv'
<1>1. TypeOK /\ scene \in 0..7 /\ at \in 1..Len(Steps) /\ before' = before
      /\ Len(Steps) \in Nat
    BY StepsLead DEF DemoInv, Return, historyVars
<1>2. exc # None => PartOf = "finally"
    BY DEF DemoInv
<1>3. CASE exc # None /\ Steps[at + 1].part # "finally"
  <2>1. HasBroken(scene, at + 1) = {}
    BY <1>1, <1>2, <1>3, ScriptKeepsBooks DEF Steps, PartOf
  <2>2. Exit(Main(exc)) /\ Worse' = {}
    BY <1>1, <1>3, <2>1 DEF Return, Worse
  <2> QED
    BY <2>2, ExitIsHonest
<1>4. CASE ~(exc # None /\ Steps[at + 1].part # "finally")
  <2>1. at' = at + 1 /\ UNCHANGED <<proc, scene, last, exc, client, outcome>>
    BY <1>4 DEF Return
  <2>2. Steps' = Steps /\ proc = "running"
    BY <2>1 DEF Steps, AtStep
  <2>3. exc' # None => AtStep' /\ PartOf' = "finally"
    <3> SUFFICES ASSUME exc # None PROVE AtStep' /\ PartOf' = "finally"
      BY <2>1
    <3>1. at + 1 \in 1..Len(Steps)
      BY <1>1, <1>2, StepsLead
    <3> QED
      BY <1>1, <1>4, <2>1, <2>2, <3>1 DEF AtStep, PartOf
  <2>4. BreaksNothingUnnoticed'
    BY <2>1, <2>2 DEF BreaksNothingUnnoticed
  <2> QED
    BY <1>1, <2>1, <2>3, <2>4 DEF DemoInv
<1> QED
    BY <1>3, <1>4

\* A step that leaves the script where it is, and the stack no worse.
LEMMA StayingKeepsInv ==
    ASSUME DemoInv, TypeOK', Broken(stack') \subseteq Broken(stack),
           UNCHANGED <<proc, scene, at, exc, outcome, before, trouble>>
    PROVE  DemoInv'
<1>1. Steps' = Steps
    BY DEF Steps
<1>2. (AtStep <=> AtStep') /\ PartOf' = PartOf
    BY <1>1 DEF AtStep, PartOf
<1>3. BreaksNothingUnnoticed'
    BY DEF DemoInv, BreaksNothingUnnoticed
<1> QED
    BY <1>2, <1>3 DEF DemoInv

LEMMA StepKeepsInv == DemoInv /\ [Next]_vars => DemoInv'
<1> SUFFICES ASSUME DemoInv, [Next]_vars PROVE DemoInv'
    OBVIOUS
<1>1. TypeOK /\ TypeOK' /\ scene \in 0..7 /\ stack \in Stack /\ stack' \in Stack
    BY StepTypeOK DEF DemoInv, TypeOK
<1>2. proc = "running" => Broken(stack) \subseteq Broken(before) \cup HasBroken(scene, at)
    BY DEF DemoInv
\* Requests, and the flood of scene 5.
<1>3. ASSUME AtStep, Steps[at].op \notin {"compose", "wait"}, Return, UNCHANGED stack
      PROVE  DemoInv'
  <2>1. HasBroken(scene, at) \subseteq HasBroken(scene, at + 1)
    BY <1>1, <1>3, StepsLead, ScriptKeepsBooks DEF Steps
  <2> QED
    BY <1>1, <1>2, <1>3, <2>1, ReturnKeepsInv DEF AtStep
<1>4. ASSUME AtStep, NEW e \in Exception, Fails(e) PROVE DemoInv'
    BY <1>1, <1>4, ThrowKeepsInv DEF Fails
<1>5. ASSUME AtStep, RequestFails PROVE DemoInv'
    BY <1>4, <1>5 DEF RequestFails, Exception
<1>6. CASE Start
  <2>1. /\ proc' = "running" /\ at' = 1 /\ exc' = exc /\ before' = stack /\ stack' = stack
        /\ scene' \in 0..7 /\ proc \in {"idle", "exited"}
    BY <1>6 DEF Start
  <2>2. exc' = None
    BY <2>1 DEF DemoInv, AtStep
  <2> QED
    BY <1>1, <2>1, <2>2 DEF DemoInv, BreaksNothingUnnoticed
<1>7. CASE Health \/ Infer \/ Send \/ Classify
    BY <1>3, <1>5, <1>7 DEF Health, Infer, Send, Classify, Requests, Does
<1>8. CASE AttemptDeclined \/ AttemptFails \/ AttemptsAreUsedUp
    BY <1>3, <1>4, <1>5, <1>8
    DEF AttemptDeclined, AttemptFails, AttemptsAreUsedUp, Requests, Does, Exception
<1>9. CASE Attempt \/ Poll
    BY <1>1, <1>9, StayingKeepsInv DEF Attempt, Poll, Polled, historyVars
\* A compose command breaks and repairs what the script takes it to.
<1>10. ASSUME NEW cmd \in Commands, Does("compose", cmd), stack' \in Effects(cmd)
       PROVE  /\ Broken(stack') \subseteq Broken(before) \cup HasBroken(scene, at + 1)
              /\ PartOf \notin {"try", "rest"}
  <2>1. AtStep /\ at \in 1..Len(Steps) /\ Steps[at].op = "compose" /\ Steps[at].arg = cmd
    BY <1>1, <1>10, StepsLead DEF Does
  <2>2. (HasBroken(scene, at) \ Repairs(cmd)) \cup Breaks(cmd) \subseteq HasBroken(scene, at + 1)
    BY <1>1, <2>1, ScriptKeepsBooks DEF Steps
  <2>3. Broken(stack') \subseteq (Broken(stack) \ Repairs(cmd)) \cup Breaks(cmd)
    BY <1>1, <1>10, EffectsAreAsTold
  <2>4. PartOf \notin {"try", "rest"}
    BY <1>1, <2>1, CommandsArePrepared DEF Steps, PartOf
  <2> QED
    BY <1>2, <2>1, <2>2, <2>3, <2>4 DEF AtStep
<1>11. CASE Compose
    BY <1>1, <1>10, <1>11, ReturnKeepsInv DEF Compose, Does
<1>12. CASE ComposeFails
  <2>1. PICK cmd \in Commands : Does("compose", cmd)
                /\ \/ stack' \in Effects(cmd) \cup {stack} /\ Throw("RuntimeError", PartOf)
                   \/ Fails("Other")
    BY <1>12 DEF ComposeFails
  <2>2. AtStep /\ "RuntimeError" \in Exception /\ "Other" \in Exception
    BY <2>1 DEF Does, Exception
  <2>3. CASE Fails("Other")
    BY <1>4, <2>2, <2>3
  <2>4. CASE stack' \in Effects(cmd) \cup {stack} /\ Throw("RuntimeError", PartOf)
    BY <1>1, <1>10, <2>1, <2>2, <2>4, ThrowKeepsInv
  <2> QED
    BY <2>1, <2>3, <2>4
\* The app answers: it is up again.
<1>13. CASE PollSucceeds
  <2>1. AtStep /\ Steps[at].op = "wait" /\ Serves /\ Return /\ UNCHANGED stack
    BY <1>13 DEF PollSucceeds, Waits, Does
  <2>2. HasBroken(scene, at) \subseteq HasBroken(scene, at + 1) \cup {"app"}
    BY <1>1, <2>1, StepsLead, ScriptKeepsBooks DEF Steps
  <2>3. "app" \notin Broken(stack)
    BY <1>1, <2>1, BrokenParts DEF Serves
  <2> QED
    BY <1>1, <1>2, <2>1, <2>2, <2>3, ReturnKeepsInv DEF AtStep
<1>14. CASE WaitFails
    BY <1>4, <1>14 DEF WaitFails, Waits, Does, Exception
\* At the end of a scene nothing is broken.
<1>15. ASSUME AtPause PROVE HasBroken(scene, at) = {} /\ Worse = {}
  <2>1. at = Len(Scene(scene)) + 1 /\ proc = "running"
    <3>1. Len(Scene(scene)) \in Nat
      BY <1>1, PartsOfScenes
    <3>2. at \in 1..(Len(Scene(scene)) + 1) /\ at > Len(Scene(scene)) /\ proc = "running"
      BY <1>1, <1>15 DEF AtPause, TypeOK, Steps
    <3> QED
      BY <3>1, <3>2
  <2> QED
    BY <1>1, <1>2, <2>1, ScriptKeepsBooks DEF Worse
<1>16. CASE Pause
  <2>1. UNCHANGED <<stack, before, trouble>> /\ AtPause
    BY <1>16 DEF Pause, historyVars
  <2>2. CASE Exit("exit0")
    BY <1>1, <1>15, <2>1, <2>2, ExitIsHonest DEF Worse
  <2>3. CASE scene' = scene + 1 /\ at' = 1 /\ UNCHANGED <<proc, last, exc, client, outcome>>
    <3>1. exc' = None
      <4>1. Len(Steps) \in Nat /\ at \in 1..(Len(Steps) + 1)
        BY <1>1, PartsOfScenes DEF TypeOK, Steps
      <4>2. ~AtStep
        BY <2>1, <4>1 DEF AtStep, AtPause
      <4> QED
        BY <2>3, <4>2 DEF DemoInv
    <3>2. Broken(stack') \subseteq Broken(before')
      BY <1>15, <2>1 DEF Worse
    <3> QED
      BY <1>1, <2>1, <2>3, <3>1, <3>2 DEF DemoInv, BreaksNothingUnnoticed, AtPause
  <2> QED
    BY <1>16, <2>2, <2>3 DEF Pause
<1>17. ASSUME NEW e \in Exception, AtPause, Throw(e, "pause"), UNCHANGED stack PROVE DemoInv'
  <2>1. Exit(Main(e)) /\ before' = before
    BY <1>17 DEF Throw
  <2> QED
    BY <1>1, <1>15, <1>17, <2>1, ExitIsHonest DEF Worse
<1>18. CASE PauseFails
    BY <1>17, <1>18 DEF PauseFails, Exception
<1>19. CASE Interrupt
  <2>1. CASE AtPause /\ Throw("KeyboardInterrupt", "pause") /\ UNCHANGED stack
    BY <1>17, <2>1 DEF Exception
  <2>2. CASE AtStep /\ Throw("KeyboardInterrupt", PartOf) /\ UNCHANGED stack
    BY <1>1, <2>2, ThrowKeepsInv DEF Exception
  <2>3. ASSUME NEW cmd \in Commands, Does("compose", cmd), stack' \in Effects(cmd), AtStep,
               Throw("KeyboardInterrupt", PartOf)
        PROVE  DemoInv'
    BY <1>1, <1>10, <2>3, ThrowKeepsInv DEF Exception
  <2> QED
    BY <1>19, <2>1, <2>2, <2>3 DEF Interrupt
<1>20. CASE Boot \/ Refill \/ UNCHANGED vars
  <2>1. Broken(stack') \subseteq Broken(stack)
    BY <1>1, <1>20, BrokenParts DEF Boot, Refill, vars, Stack
  <2> QED
    BY <1>1, <1>20, <2>1, StayingKeepsInv DEF Boot, Refill, vars, scriptVars, historyVars
<1> QED
    BY <1>6, <1>7, <1>8, <1>9, <1>11, <1>12, <1>13, <1>14, <1>16, <1>18, <1>19, <1>20
    DEF Next, Step

THEOREM DemoInvariant == Spec => []DemoInv
<1>1. Init => DemoInv
    BY InitTypeOK DEF Init, DemoInv, BreaksNothingUnnoticed
<1> QED
    BY <1>1, StepKeepsInv, PTL DEF Spec

\* However a demo ends, the stack is no worse than before, or a step before a try
\* block or of a finally block has raised and the exit status is not 0.
THEOREM DemoCleansUp == Spec => []BreaksNothingUnnoticed
<1>1. DemoInv => BreaksNothingUnnoticed
    BY DEF DemoInv
<1> QED
    BY <1>1, DemoInvariant, PTL

-----------------------------------------------------------------------------
(* A demo gets on.                                                          *)

\* The demo is over, in a later scene or at a later step of its scene, or it has
\* polled or tried once more.  TypeOK bounds all of these.
Forward ==
    \/ proc' = "exited"
    \/ scene' > scene
    \/ scene' = scene /\ at' > at
    \/ scene' = scene /\ at' = at /\ polled' + attempt' = polled + attempt + 1

LEMMA RaisingIsForward ==
    ASSUME TypeOK, AtStep, NEW e, Throw(e, PartOf)
    PROVE  Forward
<1>1. CASE PartOf = "try"
  <2>1. scene \in 0..7 /\ at \in 1..Len(Steps)
    BY StepsLead
  <2>2. FinallyOf(scene) > at
    BY <1>1, <2>1, PartsOfScenes, FinallyAfterTry DEF Steps, PartOf
  <2> QED
    BY <1>1, <2>2 DEF Throw, Forward
<1>2. CASE PartOf # "try"
    BY <1>2 DEF Throw, Exit, Forward
<1> QED
    BY <1>1, <1>2

LEMMA ReturningIsForward ==
    ASSUME TypeOK, AtStep, Return
    PROVE  Forward
<1>1. at \in Nat
    BY StepsLead
<1> QED
    BY <1>1 DEF Return, Exit, Forward

\* No step of a running demo goes back or leaves it where it is, an interrupted
\* one included: with Polls and Attempts finite, no run has more than a bounded
\* number of steps.  What liveness needs besides is that there is a next one.
THEOREM EveryStepIsForward == Spec => [][proc = "running" => Forward \/ UNCHANGED scriptVars]_vars
<1>1. ASSUME TypeOK, [Next]_vars, proc = "running", ~UNCHANGED scriptVars PROVE Forward
  <2>1. ASSUME AtStep, Return \/ (\E e : Fails(e) \/ Throw(e, PartOf)) PROVE Forward
    BY <1>1, <2>1, RaisingIsForward, ReturningIsForward DEF Fails
  <2>2. CASE Health \/ Infer \/ Send \/ Classify \/ AttemptDeclined \/ AttemptFails
             \/ AttemptsAreUsedUp
    BY <2>1, <2>2
    DEF Health, Infer, Send, Classify, AttemptDeclined, AttemptFails, AttemptsAreUsedUp,
        RequestFails, Requests, Does
  <2>3. CASE Attempt \/ Poll
    BY <1>1, <2>3 DEF Attempt, Poll, Polled, TypeOK, Forward
  <2>4. CASE Compose \/ ComposeFails \/ PollSucceeds \/ WaitFails
    BY <2>1, <2>4 DEF Compose, ComposeFails, PollSucceeds, WaitFails, Waits, Does
  <2>5. CASE Pause
    BY <1>1, <2>5 DEF Pause, Exit, Forward, TypeOK
  <2>6. CASE PauseFails
    BY <2>6 DEF PauseFails, Throw, Exit, Forward
  <2>7. CASE Interrupt
    BY <2>1, <2>7 DEF Interrupt, Throw, Exit, Forward
  <2>8. ~Start /\ ~Boot /\ ~Refill /\ ~UNCHANGED vars
    BY <1>1 DEF Start, Boot, Refill, vars
  <2> QED
    BY <1>1, <2>2, <2>3, <2>4, <2>5, <2>6, <2>7, <2>8 DEF Next, Step
<1> QED
    BY <1>1, TypeCorrectness, PTL DEF Spec
=============================================================================

--------------------------- MODULE LLMAdapter_proof ---------------------------
(***************************************************************************)
(* Theorems about the adapters, for any number of calls and connections,   *)
(* bodies of any length and any configs.                                   *)
(***************************************************************************)
EXTENDS LLMAdapter, FiniteSetTheorems, TLAPS

-----------------------------------------------------------------------------
(* The except clauses and the payload.                                      *)

\* The first clause that fits is the one that is taken.
LEMMA FirstClauseWins ==
    ASSUME NEW e \in Exceptions, NEW i \in 1..3,
           Clauses[i][1] \in Classes[e],
           \A j \in 1..3 : Clauses[j][1] \in Classes[e] => i <= j
    PROVE  Caught(e) = Clauses[i][2]
<1> DEFINE fits == {j \in DOMAIN Clauses : Clauses[j][1] \in Classes[e]}
<1>1. DOMAIN Clauses = 1..3
    BY DEF Clauses
<1> HIDE DEF Clauses
<1>2. i \in fits /\ fits \subseteq 1..3 /\ \A j \in fits : i <= j
    BY <1>1
<1>3. (CHOOSE k \in fits : \A j \in fits : k <= j) = i
    BY <1>2
<1> QED
    BY <1>2, <1>3 DEF Caught

LEMMA UnknownPasses ==
    ASSUME NEW e \in Exceptions, \A j \in 1..3 : Clauses[j][1] \notin Classes[e]
    PROVE  Caught(e) = e
<1>1. DOMAIN Clauses = 1..3
    BY DEF Clauses
<1> HIDE DEF Clauses
<1> QED
    BY <1>1 DEF Caught

\* What each exception becomes: timeouts of httpx TimeoutError, its other errors
\* UpstreamProviderError, and whatever else is raised passes.
LEMMA Translation ==
    /\ \A e \in {"PoolTimeout", "ReadTimeout"} : Caught(e) = "TimeoutError"
    /\ \A e \in {"TransportError", "HTTPStatusError"} : Caught(e) = "UpstreamProviderError"
    /\ \A e \in {"TimeoutError", "Exception", "CancelledError", "GeneratorExit"} : Caught(e) = e
<1>1. /\ Clauses[1] = <<"TimeoutException", "TimeoutError">>
      /\ Clauses[2] = <<"HTTPStatusError", "UpstreamProviderError">>
      /\ Clauses[3] = <<"HTTPError", "UpstreamProviderError">>
    BY DEF Clauses
<1>2. Exceptions = {"PoolTimeout", "ReadTimeout", "TransportError", "HTTPStatusError",
                    "TimeoutError", "Exception", "CancelledError", "GeneratorExit"}
    BY DEF Exceptions, Classes
<1>3. /\ \A e \in {"PoolTimeout", "ReadTimeout"} : Classes[e] = {"TimeoutException", "HTTPError"}
      /\ Classes["TransportError"] = {"HTTPError"}
      /\ Classes["HTTPStatusError"] = {"HTTPStatusError", "HTTPError"}
      /\ \A e \in {"TimeoutError", "Exception", "CancelledError", "GeneratorExit"} :
           Classes[e] = {}
    BY DEF Classes
<1> HIDE DEF Clauses, Classes, Exceptions
<1>4. ASSUME NEW e \in {"PoolTimeout", "ReadTimeout"} PROVE Caught(e) = "TimeoutError"
  <2>1. Caught(e) = Clauses[1][2]
    BY <1>1, <1>2, <1>3, FirstClauseWins
  <2> QED
    BY <1>1, <2>1
<1>5. Caught("TransportError") = "UpstreamProviderError"
  <2>1. Caught("TransportError") = Clauses[3][2]
    <3>1. \A j \in 1..3 : Clauses[j][1] \in Classes["TransportError"] => 3 <= j
      BY <1>1, <1>3
    <3> QED
      BY <1>1, <1>2, <1>3, <3>1, FirstClauseWins
  <2> QED
    BY <1>1, <2>1
<1>6. Caught("HTTPStatusError") = "UpstreamProviderError"
  <2>1. Caught("HTTPStatusError") = Clauses[2][2]
    <3>1. \A j \in 1..3 : Clauses[j][1] \in Classes["HTTPStatusError"] => 2 <= j
      BY <1>1, <1>3
    <3> QED
      BY <1>1, <1>2, <1>3, <3>1, FirstClauseWins
  <2> QED
    BY <1>1, <2>1
<1>7. \A e \in {"TimeoutError", "Exception", "CancelledError", "GeneratorExit"} : Caught(e) = e
    BY <1>2, <1>3, UnknownPasses
<1> QED
    BY <1>4, <1>5, <1>6, <1>7

LEMMA CaughtIsAnOutcome ==
    ASSUME NEW e \in Exceptions
    PROVE  Caught(e) \in Outcome \ {"ended"}
    BY Translation DEF Exceptions, Classes, Outcome

\* Whatever the config says, a stream is asked for events.
LEMMA StreamsAskForEvents ==
    ASSUME NEW c \in Calls, kind[c] = "stream"
    PROVE  AskedForEvents(c)
<1>1. StreamKey # ModelKey /\ StreamKey # MessagesKey
  <2>1. ASSUME NEW x, NEW y, ReservedKeys = {x, y} PROVE FALSE
    <3>1. Cardinality({x, y}) <= 2
      <4>1. IsFiniteSet({y}) /\ Cardinality({y}) = 1
        BY FS_Singleton
      <4>2. {x, y} = {y} \cup {x}
        OBVIOUS
      <4> QED
        BY <4>1, <4>2, FS_AddElement
    <3> QED
      BY <2>1, <3>1, LLMAdapterAssumption
  <2> QED
    BY <2>1 DEF ReservedKeys
<1>2. Own(StreamKey, TRUE) = [type |-> "flag", is |-> TRUE]
    BY <1>1 DEF Own
<1>3. StreamKey \in ReservedKeys
    BY DEF ReservedKeys
<1>4. BuildPayload(config[c], TRUE)[StreamKey] = Own(StreamKey, TRUE)
  <2> HIDE DEF Own, ReservedKeys
  <2> QED
    BY <1>3 DEF BuildPayload
<1>5. Payload(c) = BuildPayload(config[c], TRUE)
  <2>1. (kind[c] = "stream") = TRUE
    OBVIOUS
  <2> QED
    BY <2>1 DEF Payload
<1> HIDE DEF Own, BuildPayload, Payload
<1> QED
    BY <1>2, <1>4, <1>5 DEF AskedForEvents

-----------------------------------------------------------------------------
(* The fields keep their types.                                             *)

LEMMA InitIsTyped == Init => TypeOK
    BY DEF Init, TypeOK, PC, Running

LEMMA StepKeepsTypes == TypeOK /\ [Next]_vars => TypeOK'
<1> SUFFICES ASSUME TypeOK, [Next]_vars PROVE TypeOK'
    OBVIOUS
<1> USE DEF TypeOK, GoTo, Request
<1>1. {"new", "yielded", "dropped", "over", "queued", "asking", "reading", "leaving", "sleeping"}
        = PC
    BY DEF PC, Running
<1>2. Exceptions = {"PoolTimeout", "ReadTimeout", "TransportError", "HTTPStatusError",
                    "TimeoutError", "Exception", "CancelledError", "GeneratorExit"}
    BY DEF Exceptions, Classes
<1> HIDE DEF PC, Exceptions
<1>3. ASSUME NEW c \in Calls
      PROVE  /\ \A what \in Outcome : Told(c, what) =>
                  outcome' \in [Calls -> Outcome \cup {None}] /\ pc' \in [Calls -> PC]
             /\ \A e \in Exceptions : Raises(c, e) =>
                  /\ raised' \in [Calls -> Exceptions \cup {None}]
                  /\ outcome' \in [Calls -> Outcome \cup {None}]
                  /\ pc' \in [Calls -> PC]
             /\ \A e \in Exceptions : LeaveWith(c, e) =>
                  /\ raised' \in [Calls -> Exceptions \cup {None}]
                  /\ pc' \in [Calls -> PC]
                  /\ UNCHANGED <<held, outcome>>
             /\ Release(c) => held' \subseteq Calls
  <2>1. \A what \in Outcome : Told(c, what) =>
          outcome' \in [Calls -> Outcome \cup {None}] /\ pc' \in [Calls -> PC]
    BY <1>1 DEF Told
  <2>2. ASSUME NEW e \in Exceptions, Raises(c, e)
        PROVE  /\ raised' \in [Calls -> Exceptions \cup {None}]
               /\ outcome' \in [Calls -> Outcome \cup {None}]
               /\ pc' \in [Calls -> PC]
    BY <2>1, <2>2, CaughtIsAnOutcome DEF Raises
  <2>3. ASSUME NEW e \in Exceptions, LeaveWith(c, e)
        PROVE  /\ raised' \in [Calls -> Exceptions \cup {None}]
               /\ pc' \in [Calls -> PC]
               /\ UNCHANGED <<held, outcome>>
    BY <1>1, <2>3 DEF LeaveWith
  <2> QED
    BY <2>1, <2>2, <2>3 DEF Release
<1>4. ASSUME NEW c \in Calls, NEW l, Read(c, l)
      PROVE  lines' \in [Calls -> Seq(Line)] /\ Len(lines'[c]) \in Nat
    BY <1>4 DEF Read, Line
<1>5. "ended" \in Outcome
    BY DEF Outcome
<1>6. ASSUME NEW c \in Calls, CallHttp(c) \/ Connect(c) \/ Resume(c) \/ Drop(c) PROVE TypeOK'
    BY <1>1, <1>6 DEF CallHttp, Connect, Resume, Drop
<1>7. ASSUME NEW c \in Calls, PoolIsExhausted(c) \/ AskFails(c) \/ AnswerInfer(c) PROVE TypeOK'
    BY <1>2, <1>3, <1>5, <1>7 DEF PoolIsExhausted, AskFails, AnswerInfer, Ends
<1>8. ASSUME NEW c \in Calls, AnswerStream(c) \/ ReadFails(c) \/ BodyEnds(c) PROVE TypeOK'
    BY <1>1, <1>2, <1>3, <1>8 DEF AnswerStream, ReadFails, BodyEnds, Leave
<1>9. ASSUME NEW c \in Calls, Skip(c) \/ ReadDone(c) \/ ReadMalformed(c) PROVE TypeOK'
    BY <1>1, <1>2, <1>3, <1>4, <1>9 DEF Skip, ReadDone, ReadMalformed, Leave
<1>10. ASSUME NEW c \in Calls, YieldContent(c) PROVE TypeOK'
  <2>1. Append(chunks[c], Len(lines'[c])) \in Seq(Nat)
    BY <1>4, <1>10 DEF YieldContent
  <2> QED
    BY <1>1, <1>4, <1>10, <2>1 DEF YieldContent
<1>11. ASSUME NEW c \in Calls, CloseResponse(c) PROVE TypeOK'
  <2>1. raised[c] # None => Caught(raised[c]) \in Outcome
    BY CaughtIsAnOutcome
  <2> QED
    BY <1>3, <1>5, <1>11, <2>1 DEF CloseResponse
<1>12. ASSUME NEW c \in Calls, CallStub(c) \/ Finalize(c) \/ Cancel(c) PROVE TypeOK'
    BY <1>1, <1>2, <1>3, <1>12 DEF CallStub, Finalize, Cancel
<1>13. ASSUME NEW c \in Calls, Awake(c) PROVE TypeOK'
  <2>1. Append(chunks[c], Len(chunks[c])) \in Seq(Nat)
    OBVIOUS
  <2>2. UNCHANGED <<adapter, client, kind, config, lines, held>>
    BY <1>13 DEF Awake
  <2>3. CASE Ends(c) /\ UNCHANGED chunks
    BY <1>3, <1>5, <2>2, <2>3 DEF Ends
  <2>4. CASE /\ chunks' = [chunks EXCEPT ![c] = Append(@, Len(@))]
             /\ GoTo(c, "yielded") /\ UNCHANGED <<raised, outcome>>
    BY <1>1, <2>1, <2>2, <2>4
  <2> QED
    BY <1>13, <2>3, <2>4 DEF Awake
<1>14. ASSUME Aclose \/ UNCHANGED vars PROVE TypeOK'
    BY <1>14 DEF Aclose, vars
<1> QED
    BY <1>6, <1>7, <1>8, <1>9, <1>10, <1>11, <1>12, <1>13, <1>14 DEF Next, Step

\* Every field keeps its type: no exception of httpx reaches the services.
THEOREM TypeCorrectness == Spec => []TypeOK
    BY InitIsTyped, StepKeepsTypes, PTL DEF Spec
-----------------------------------------------------------------------------
(* What is known of one call.                                               *)

\* Where it may stand, and when it holds a connection.
Placed(c) ==
    /\ c \in held => pc[c] \in {"asking", "reading", "yielded", "leaving", "dropped"}
    /\ adapter = "stub" =>
         c \notin held /\ pc[c] \notin {"queued", "asking", "reading", "leaving"}
    /\ client = "closed" =>
         adapter = "http" /\ c \notin held /\ pc[c] \in {"new", "dropped", "leaving", "over"}
    /\ pc[c] \in {"reading", "yielded"} => kind[c] = "stream"
    /\ pc[c] = "sleeping" => adapter = "stub"

\* What was read and raised before it ends, and what its consumer is told.
Unended(s) == \A i \in DOMAIN s : s[i] \notin {"malformed", "done"}
EndsAs(s, e) ==
    \A i \in DOMAIN s :
        /\ s[i] = "malformed" => e = "Exception"
        /\ s[i] = "done" => e = None /\ i = Len(s)
Said(c) ==
    /\ pc[c] \notin {"leaving", "over"} => raised[c] = None /\ Unended(lines[c])
    /\ EndsAs(lines[c], raised[c])
    /\ pc[c] = "over" =>
         outcome[c] = IF raised[c] = None THEN "ended" ELSE Caught(raised[c])

\* What it has yielded of what it has read.
Passed(c) ==
    adapter = "http" =>
        /\ \A i, j \in DOMAIN chunks[c] : i < j => chunks[c][i] < chunks[c][j]
        /\ \A i \in DOMAIN lines[c] : lines[c][i] # "body"
        /\ \A i \in DOMAIN chunks[c] :
             chunks[c][i] \in DOMAIN lines[c] /\ lines[c][chunks[c][i]] = "content"
        /\ \A i \in DOMAIN lines[c] : lines[c][i] = "content" =>
             \E j \in DOMAIN chunks[c] : chunks[c][j] = i

CallStep(c) == CallHttp(c) \/ CallStub(c) \/ Step(c) \/ Resume(c) \/ Drop(c) \/ Cancel(c)

\* A step of one call leaves the others alone.
LeftAlone(d) ==
    /\ pc'[d] = pc[d] /\ lines'[d] = lines[d] /\ chunks'[d] = chunks[d]
    /\ raised'[d] = raised[d] /\ outcome'[d] = outcome[d]
    /\ d \in held' <=> d \in held

LEMMA StepsAreLocal ==
    ASSUME TypeOK, NEW c \in Calls, CallStep(c)
    PROVE  UNCHANGED Request /\ \A d \in Calls \ {c} : LeftAlone(d)
<1> HIDE DEF Caught
<1> USE DEF TypeOK, LeftAlone, Request, GoTo, Told, Raises, Ends, Leave, LeaveWith, Release
<1>1. CASE CallHttp(c) \/ Connect(c) \/ Resume(c) \/ Drop(c)
    BY <1>1 DEF CallHttp, Connect, Resume, Drop
<1>2. CASE PoolIsExhausted(c) \/ AskFails(c) \/ CallStub(c) \/ CloseResponse(c)
    BY <1>2 DEF PoolIsExhausted, AskFails, CallStub, CloseResponse
<1>3. CASE AnswerInfer(c) \/ AnswerStream(c) \/ BodyEnds(c) \/ ReadFails(c)
    BY <1>3 DEF AnswerInfer, AnswerStream, BodyEnds, ReadFails
<1>4. CASE Skip(c) \/ YieldContent(c) \/ ReadDone(c) \/ ReadMalformed(c)
    BY <1>4 DEF Skip, YieldContent, ReadDone, ReadMalformed, Read
<1>5. CASE Awake(c)
    BY <1>5 DEF Awake
<1>6. CASE Finalize(c) \/ Cancel(c)
    BY <1>6 DEF Finalize, Cancel
<1> QED
    BY <1>1, <1>2, <1>3, <1>4, <1>5, <1>6 DEF CallStep, Step

LEMMA LeftAloneIsKept ==
    ASSUME NEW d \in Calls, UNCHANGED Request, LeftAlone(d)
    PROVE  /\ Placed(d) => Placed(d)'
           /\ Said(d) => Said(d)'
           /\ Passed(d) => Passed(d)'
<1> HIDE DEF Caught
<1> QED
    BY DEF Request, LeftAlone, Placed, Said, Passed

LEMMA StepKeepsPlace ==
    ASSUME TypeOK, NEW c \in Calls, Placed(c), CallStep(c)
    PROVE  Placed(c)'
<1> HIDE DEF Caught
<1> USE DEF TypeOK, Placed, Request, GoTo, Told, Raises, Ends, Leave, LeaveWith, Release
<1>1. CASE CallHttp(c) \/ Connect(c) \/ Resume(c) \/ Drop(c)
    BY <1>1 DEF CallHttp, Connect, Resume, Drop
<1>2. CASE PoolIsExhausted(c) \/ AskFails(c) \/ CallStub(c) \/ CloseResponse(c)
    BY <1>2 DEF PoolIsExhausted, AskFails, CallStub, CloseResponse
<1>3. CASE AnswerInfer(c) \/ AnswerStream(c) \/ BodyEnds(c) \/ ReadFails(c)
    BY <1>3 DEF AnswerInfer, AnswerStream, BodyEnds, ReadFails
<1>4. CASE Skip(c) \/ YieldContent(c) \/ ReadDone(c) \/ ReadMalformed(c)
    BY <1>4 DEF Skip, YieldContent, ReadDone, ReadMalformed, Read
<1>5. CASE Awake(c)
    BY <1>5 DEF Awake
<1>6. CASE Finalize(c) \/ Cancel(c)
    BY <1>6 DEF Finalize, Cancel
<1> QED
    BY <1>1, <1>2, <1>3, <1>4, <1>5, <1>6 DEF CallStep, Step

\* A line is read: the lines before it are what they were.
LEMMA OneMoreLine ==
    ASSUME TypeOK, NEW c \in Calls, NEW l, Read(c, l)
    PROVE  /\ pc[c] = "reading"
           /\ Len(lines[c]) \in Nat
           /\ DOMAIN lines[c] = 1..Len(lines[c])
           /\ Len(lines'[c]) = Len(lines[c]) + 1
           /\ DOMAIN lines'[c] = 1..(Len(lines[c]) + 1)
           /\ lines'[c][Len(lines[c]) + 1] = l
           /\ \A i \in 1..Len(lines[c]) : lines'[c][i] = lines[c][i]
<1>1. lines[c] \in Seq(Line) /\ l \in Line /\ lines'[c] = Append(lines[c], l) /\ pc[c] = "reading"
    BY DEF Read, TypeOK, Line
<1> QED
    BY <1>1

LEMMA OneMoreLineSays ==
    ASSUME TypeOK, NEW c \in Calls, NEW l, Read(c, l), Unended(lines[c])
    PROVE  /\ \A e : EndsAs(lines[c], e)
           /\ l \notin {"malformed", "done"} => Unended(lines'[c]) /\ \A e : EndsAs(lines'[c], e)
           /\ l = "malformed" => EndsAs(lines'[c], "Exception")
           /\ l = "done" => EndsAs(lines'[c], None)
<1> DEFINE n == Len(lines[c])
<1>1. /\ n \in Nat /\ DOMAIN lines[c] = 1..n
      /\ Len(lines'[c]) = n + 1 /\ DOMAIN lines'[c] = 1..(n + 1)
      /\ lines'[c][n + 1] = l
      /\ \A i \in 1..n : lines'[c][i] = lines[c][i]
    BY OneMoreLine
<1>2. \A i \in 1..n : lines[c][i] \notin {"malformed", "done"}
    BY <1>1 DEF Unended
<1> HIDE DEF n
<1>3. /\ \A i \in 1..(n + 1) : i \in 1..n \/ i = n + 1
      /\ \A i \in 1..n : lines'[c][i] \notin {"malformed", "done"}
    BY <1>1, <1>2
<1>4. \A e : EndsAs(lines[c], e)
    BY <1>1, <1>2 DEF EndsAs
<1>5. l \notin {"malformed", "done"} => Unended(lines'[c]) /\ \A e : EndsAs(lines'[c], e)
    BY <1>1, <1>3 DEF Unended, EndsAs
<1>6. l = "malformed" => EndsAs(lines'[c], "Exception")
    BY <1>1, <1>3 DEF EndsAs
<1>7. l = "done" => EndsAs(lines'[c], None)
    BY <1>1, <1>3 DEF EndsAs
<1> QED
    BY <1>4, <1>5, <1>6, <1>7

\* Of a body that is being read, any end may still come.
LEMMA AnyEndMayCome ==
    ASSUME NEW c \in Calls, Unended(lines[c])
    PROVE  \A e : EndsAs(lines[c], e)
    BY DEF Unended, EndsAs

LEMMA StepSaysWhatHappened ==
    ASSUME TypeOK, NEW c \in Calls, Said(c), CallStep(c)
    PROVE  Said(c)'
<1> HIDE DEF Caught
<1> USE DEF TypeOK, Request, GoTo, Told, Raises, Ends, Leave, LeaveWith
<1>1. CASE UNCHANGED <<lines, raised, outcome>> /\ pc[c] \notin {"leaving", "over"} /\ pc'[c] # "over"
    BY <1>1 DEF Said
<1>2. CASE CallHttp(c) \/ Connect(c) \/ Resume(c) \/ Drop(c) \/ BodyEnds(c)
    BY <1>1, <1>2 DEF CallHttp, Connect, Resume, Drop, BodyEnds
<1>3. ASSUME NEW e \in Exceptions, Raises(c, e), UNCHANGED lines, pc[c] \notin {"leaving", "over"}
      PROVE  Said(c)'
    BY <1>3, AnyEndMayCome, NoneAssumption DEF Said
<1>4. ASSUME NEW e \in Exceptions, LeaveWith(c, e), EndsAs(lines'[c], e)
      PROVE  Said(c)'
    BY <1>4, NoneAssumption DEF Said
<1>5. ASSUME Ends(c), UNCHANGED lines, pc[c] \notin {"leaving", "over"}
      PROVE  Said(c)'
    BY <1>5 DEF Said
<1>6. Exceptions = {"PoolTimeout", "ReadTimeout", "TransportError", "HTTPStatusError",
                    "TimeoutError", "Exception", "CancelledError", "GeneratorExit"}
    BY DEF Exceptions, Classes
<1> HIDE DEF Raises, LeaveWith, Ends
<1>7. CASE PoolIsExhausted(c) \/ AskFails(c)
    BY <1>3, <1>6, <1>7 DEF PoolIsExhausted, AskFails
<1>8. CASE CallStub(c)
    BY <1>1, <1>3, <1>6, <1>8 DEF CallStub
<1>9. CASE CloseResponse(c)
    BY <1>9 DEF CloseResponse, Said
<1>10. CASE AnswerInfer(c)
    BY <1>3, <1>5, <1>6, <1>10 DEF AnswerInfer
<1>11. CASE AnswerStream(c) \/ ReadFails(c)
  <2>1. UNCHANGED lines /\ pc[c] \in {"asking", "reading"}
    BY <1>11 DEF AnswerStream, ReadFails
  <2>2. \A e : EndsAs(lines'[c], e)
    BY <2>1, AnyEndMayCome DEF Said
  <2> QED
    BY <1>1, <1>4, <1>6, <1>11, <2>1, <2>2 DEF AnswerStream, ReadFails
<1>12. CASE Skip(c) \/ YieldContent(c)
  <2>1. PICK l \in {"other", "body", "empty", "content"} : Read(c, l)
    BY <1>12 DEF Skip, YieldContent
  <2>2. raised' = raised /\ pc'[c] \in {"reading", "yielded"} /\ pc[c] = "reading"
    BY <1>12, <2>1, OneMoreLine DEF Skip, YieldContent
  <2> QED
    BY <2>1, <2>2, OneMoreLineSays DEF Said
<1>13. CASE ReadDone(c)
  <2>1. Read(c, "done") /\ UNCHANGED raised /\ pc'[c] = "leaving" /\ pc[c] = "reading"
    BY <1>13 DEF ReadDone, Read
  <2> QED
    BY <2>1, OneMoreLineSays DEF Said
<1>14. CASE ReadMalformed(c)
  <2>1. Read(c, "malformed") /\ LeaveWith(c, "Exception") /\ pc[c] = "reading"
    BY <1>14 DEF ReadMalformed, Read
  <2>2. EndsAs(lines'[c], "Exception")
    BY <2>1, OneMoreLineSays DEF Said
  <2> QED
    BY <1>4, <1>6, <2>1, <2>2
<1>15. CASE Awake(c)
    BY <1>1, <1>5, <1>15 DEF Awake
<1>16. CASE Finalize(c) \/ Cancel(c)
  <2>1. UNCHANGED lines /\ pc[c] \in {"dropped", "queued", "asking", "sleeping", "reading"}
    BY <1>16 DEF Finalize, Cancel
  <2>2. \A e : EndsAs(lines'[c], e)
    BY <2>1, AnyEndMayCome DEF Said
  <2> QED
    BY <1>3, <1>4, <1>6, <1>16, <2>1, <2>2 DEF Finalize, Cancel
<1> QED
    BY <1>2, <1>7, <1>8, <1>9, <1>10, <1>11, <1>12, <1>13, <1>14, <1>15, <1>16
    DEF CallStep, Step

LEMMA StepPassesContents ==
    ASSUME TypeOK, NEW c \in Calls, Placed(c), Passed(c), CallStep(c)
    PROVE  Passed(c)'
<1> HIDE DEF Caught
<1>1. SUFFICES ASSUME adapter' = "http"
               PROVE  Passed(c)'
    BY DEF Passed
<1>2. adapter = "http"
    BY <1>1, StepsAreLocal DEF Request
<1>3. CASE \E l \in {"other", "empty", "done", "malformed"} : Read(c, l) /\ UNCHANGED chunks
  <2>1. PICK l \in {"other", "empty", "done", "malformed"} : Read(c, l) /\ UNCHANGED chunks
    BY <1>3
  <2> QED
    BY <1>2, <2>1, OneMoreLine DEF Passed
<1>4. CASE UNCHANGED <<lines, chunks>>
    BY <1>2, <1>4 DEF Passed
<1>5. ~Read(c, "body")
  <2>1. pc[c] = "reading" => AskedForEvents(c)
    BY StreamsAskForEvents DEF Placed
  <2> QED
    BY <2>1 DEF Read, SSELine
<1>6. CASE YieldContent(c)
  <2> DEFINE n == Len(chunks[c])
             m == Len(lines[c]) + 1
  <2>1. Read(c, "content") /\ chunks' = [chunks EXCEPT ![c] = Append(@, Len(lines'[c]))]
    BY <1>6 DEF YieldContent
  <2>2. Len(lines'[c]) = m /\ DOMAIN lines'[c] = 1..m /\ lines'[c][m] = "content" /\ m - 1 \in Nat
        /\ DOMAIN lines[c] = 1..(m - 1) /\ \A i \in 1..(m - 1) : lines'[c][i] = lines[c][i]
    BY <2>1, OneMoreLine
  <2>3. /\ chunks[c] \in Seq(Nat) /\ n \in Nat /\ DOMAIN chunks[c] = 1..n
        /\ chunks'[c] = Append(chunks[c], m)
    BY <2>1, <2>2 DEF TypeOK
  <2>4. /\ DOMAIN chunks'[c] = 1..(n + 1) /\ chunks'[c][n + 1] = m
        /\ \A i \in 1..n : chunks'[c][i] = chunks[c][i]
    BY <2>2, <2>3
  <2> HIDE DEF n, m
  <2>5. /\ \A i, j \in 1..n : i < j => chunks[c][i] < chunks[c][j]
        /\ \A i \in 1..n : chunks[c][i] \in 1..(m - 1) /\ lines[c][chunks[c][i]] = "content"
        /\ \A i \in 1..(m - 1) : lines[c][i] # "body"
        /\ \A i \in 1..(m - 1) : lines[c][i] = "content" => \E j \in 1..n : chunks[c][j] = i
    BY <1>2, <2>2, <2>3 DEF Passed
  <2> HIDE DEF Passed
  <2>6. \A i, j \in 1..(n + 1) : i < j => chunks'[c][i] < chunks'[c][j]
    <3>1. \A i \in 1..(n + 1) : i \in 1..n \/ i = n + 1
      BY <2>3
    <3>2. \A i \in 1..n : chunks'[c][i] < m
      BY <2>2, <2>4, <2>5
    <3> QED
      BY <2>3, <2>4, <2>5, <3>1, <3>2
  <2>7. /\ \A i \in 1..m : lines'[c][i] # "body"
        /\ \A i \in 1..(n + 1) : chunks'[c][i] \in 1..m /\ lines'[c][chunks'[c][i]] = "content"
    <3>1. /\ \A i \in 1..(n + 1) : i \in 1..n \/ i = n + 1
          /\ \A i \in 1..m : i \in 1..(m - 1) \/ i = m
          /\ 1..(m - 1) \subseteq 1..m /\ m \in 1..m
      BY <2>2, <2>3
    <3>2. \A i \in 1..m : lines'[c][i] # "body"
      BY <2>2, <2>5, <3>1
    <3>3. \A i \in 1..n : chunks'[c][i] \in 1..m /\ lines'[c][chunks'[c][i]] = "content"
      BY <2>2, <2>4, <2>5, <3>1
    <3> QED
      BY <2>2, <2>4, <3>1, <3>2, <3>3
  <2>8. \A i \in 1..m : lines'[c][i] = "content" => \E j \in 1..(n + 1) : chunks'[c][j] = i
    <3>1. /\ 1..n \subseteq 1..(n + 1) /\ n + 1 \in 1..(n + 1)
          /\ \A i \in 1..m : i \in 1..(m - 1) \/ i = m
      BY <2>2, <2>3
    <3> QED
      BY <2>2, <2>4, <2>5, <3>1
  <2> QED
    BY <2>2, <2>4, <2>6, <2>7, <2>8 DEF Passed
<1>7. CallStep(c) /\ ~YieldContent(c) =>
        \/ \E l \in {"other", "empty", "done", "malformed"} : Read(c, l) /\ UNCHANGED chunks
        \/ UNCHANGED <<lines, chunks>>
  <2>1. Skip(c) \/ ReadDone(c) \/ ReadMalformed(c) =>
          \E l \in {"other", "empty", "done", "malformed"} : Read(c, l) /\ UNCHANGED chunks
    BY <1>5 DEF Skip, ReadDone, ReadMalformed
  <2>2. ~Awake(c)
    BY <1>2 DEF Awake, Placed
  <2> QED
    BY <1>2, <2>1, <2>2
    DEF CallStep, Step, CallHttp, CallStub, Connect, PoolIsExhausted, AskFails, AnswerInfer,
        AnswerStream, BodyEnds, ReadFails, CloseResponse, Finalize, Resume, Drop, Cancel
<1> QED
    BY <1>3, <1>4, <1>6, <1>7

-----------------------------------------------------------------------------
(* The invariant, and what it gives.                                        *)

AdapterInv == TypeOK /\ \A c \in Calls : Placed(c) /\ Said(c) /\ Passed(c)

LEMMA StepKeepsInv == AdapterInv /\ [Next]_vars => AdapterInv'
<1> SUFFICES ASSUME AdapterInv, [Next]_vars PROVE AdapterInv'
    OBVIOUS
<1>1. TypeOK'
    BY StepKeepsTypes DEF AdapterInv
<1>2. ASSUME NEW c \in Calls, CallStep(c)
      PROVE  \A d \in Calls : Placed(d)' /\ Said(d)' /\ Passed(d)'
  <2>1. Placed(c)' /\ Said(c)' /\ Passed(c)'
    BY <1>2, StepKeepsPlace, StepSaysWhatHappened, StepPassesContents DEF AdapterInv
  <2>2. \A d \in Calls \ {c} : Placed(d)' /\ Said(d)' /\ Passed(d)'
    BY <1>2, StepsAreLocal, LeftAloneIsKept DEF AdapterInv
  <2> QED
    BY <2>1, <2>2
<1>3. ASSUME Aclose, NEW d \in Calls
      PROVE  Placed(d)' /\ Said(d)' /\ Passed(d)'
  <2>1. pc[d] \in {"new", "dropped", "leaving", "over"}
    BY <1>3, NoneAssumption DEF Aclose, AdapterInv, Said, Exceptions, Classes
  <2>2. Placed(d)'
    BY <1>3, <2>1 DEF Aclose, AdapterInv, Placed
  <2>3. Said(d)' /\ Passed(d)'
    BY <1>3 DEF Aclose, AdapterInv, Said, Passed
  <2> QED
    BY <2>2, <2>3
<1>4. ASSUME UNCHANGED vars, NEW d \in Calls
      PROVE  Placed(d)' /\ Said(d)' /\ Passed(d)'
  <2>1. UNCHANGED Request /\ LeftAlone(d)
    BY <1>4 DEF vars, Request, LeftAlone
  <2> QED
    BY <2>1, LeftAloneIsKept DEF AdapterInv
<1> QED
    BY <1>1, <1>2, <1>3, <1>4 DEF AdapterInv, Next, CallStep

THEOREM AdapterInvariant == Spec => []AdapterInv
<1>1. Init => AdapterInv
  <2>1. Init => \A c \in Calls : Placed(c)
    BY DEF Init, Placed
  <2>2. Init => \A c \in Calls : Said(c) /\ Passed(c)
    BY DEF Init, Said, Passed, Unended, EndsAs
  <2> QED
    BY <2>1, <2>2, InitIsTyped DEF AdapterInv
<1> QED
    BY <1>1, StepKeepsInv, PTL DEF Spec

\* The stream relays the provider's contents, each once and in their order,
\* whatever the request's config says.
THEOREM ContentsAreRelayed == Spec => []ChunksAreTheContents
<1>1. AdapterInv => ChunksAreTheContents
    BY DEF AdapterInv, Passed, ChunksAreTheContents
<1> QED
    BY <1>1, AdapterInvariant, PTL

\* The end of a call tells what was raised, wherever it was raised, and what was read:
\* a malformed line is never passed over, and [DONE] is a good end.
THEOREM ConsumersAreTold == Spec => []TellsWhatHappened
<1>1. AdapterInv => TellsWhatHappened
  <2> SUFFICES ASSUME AdapterInv, NEW c \in Calls, pc[c] = "over"
               PROVE  /\ outcome[c] = "ended" <=> raised[c] = None
                      /\ outcome[c] = "TimeoutError"
                           <=> raised[c] \in {"PoolTimeout", "ReadTimeout", "TimeoutError"}
                      /\ outcome[c] = "UpstreamProviderError"
                           <=> raised[c] \in {"TransportError", "HTTPStatusError"}
                      /\ \A i \in DOMAIN lines[c] :
                           /\ lines[c][i] = "malformed" => outcome[c] = "Exception"
                           /\ lines[c][i] = "done" => outcome[c] = "ended" /\ i = Len(lines[c])
    BY DEF TellsWhatHappened
  <2>1. /\ raised[c] \in Exceptions \cup {None}
        /\ \A i \in DOMAIN lines[c] :
             /\ lines[c][i] = "malformed" => raised[c] = "Exception"
             /\ lines[c][i] = "done" => raised[c] = None /\ i = Len(lines[c])
        /\ outcome[c] = IF raised[c] = None THEN "ended" ELSE Caught(raised[c])
    BY DEF AdapterInv, Said, TypeOK, EndsAs
  <2>2. CASE raised[c] = None
    BY <2>1, <2>2, NoneAssumption DEF Exceptions, Classes
  <2>3. CASE raised[c] # None
    <3>1. outcome[c] = Caught(raised[c]) /\ raised[c] \in Exceptions
      BY <2>1, <2>3
    <3> HIDE DEF Caught
    <3>2. /\ outcome[c] # "ended"
          /\ raised[c] = "Exception" => outcome[c] = "Exception"
          /\ outcome[c] = "TimeoutError"
               <=> raised[c] \in {"PoolTimeout", "ReadTimeout", "TimeoutError"}
          /\ outcome[c] = "UpstreamProviderError"
               <=> raised[c] \in {"TransportError", "HTTPStatusError"}
      BY <3>1, Translation DEF Exceptions, Classes
    <3> QED
      BY <2>1, <2>3, <3>2
  <2> QED
    BY <2>2, <2>3
<1> QED
    BY <1>1, AdapterInvariant, PTL

-----------------------------------------------------------------------------
(* The contract.                                                            *)

LEMMA OneGeneratorMoves ==
    ASSUME TypeOK, NEW c \in Calls, CallStep(c)
    PROVE  /\ genOf[c] = GenState(pc[c], raised[c], outcome[c])
           /\ genOf' = [genOf EXCEPT ![c] = GenState(pc'[c], raised'[c], outcome'[c])]
           /\ yieldedOf' = [yieldedOf EXCEPT ![c] = Len(chunks'[c])]
           /\ yieldedOf[c] = Len(chunks[c])
           /\ UNCHANGED chunks => UNCHANGED yieldedOf
<1> HIDE DEF GenState
<1>1. \A d \in Calls \ {c} : LeftAlone(d)
    BY StepsAreLocal
<1>2. /\ genOf[c] = GenState(pc[c], raised[c], outcome[c])
      /\ genOf' = [genOf EXCEPT ![c] = GenState(pc'[c], raised'[c], outcome'[c])]
    BY <1>1 DEF genOf, LeftAlone
<1>3. /\ yieldedOf' = [yieldedOf EXCEPT ![c] = Len(chunks'[c])]
      /\ yieldedOf[c] = Len(chunks[c])
    BY <1>1 DEF yieldedOf, LeftAlone
<1>4. UNCHANGED chunks => UNCHANGED yieldedOf
    BY DEF yieldedOf
<1> QED
    BY <1>2, <1>3, <1>4

LEMMA StepKeepsTheContract ==
    AdapterInv /\ [Next]_vars => [Contract!AdapterNext]_(Contract!adapterVars)
<1> SUFFICES ASSUME AdapterInv, [Next]_vars
             PROVE  [Contract!AdapterNext]_(Contract!adapterVars)
    OBVIOUS
<1> HIDE DEF Caught
<1>0. TypeOK
    BY DEF AdapterInv
<1> DEFINE Same == UNCHANGED Contract!adapterVars
<1>1. \A what : EndAs(what) \in Contract!Ends
    BY DEF EndAs, Contract!Ends
\* The four ways of a step: on with the work, to the consumer, to the end, nowhere.
<1>2. ASSUME NEW c \in Calls, CallStep(c), genOf[c] \in {"created", "running"},
             pc'[c] = "over", held' = held \ {c}, UNCHANGED chunks
      PROVE  Contract!End(c)
  <2>1. /\ genOf' = [genOf EXCEPT ![c] = EndAs(outcome'[c])]
        /\ UNCHANGED yieldedOf
    BY <1>0, <1>2, OneGeneratorMoves DEF GenState, Running
  <2> QED
    BY <1>1, <1>2, <2>1 DEF Contract!End, Contract!Become
<1>3. ASSUME NEW c \in Calls, CallStep(c), genOf[c] = "dropped",
             pc'[c] = "over", outcome'[c] = "GeneratorExit", held' = held \ {c},
             UNCHANGED chunks
      PROVE  Contract!End(c)
  <2>1. /\ genOf' = [genOf EXCEPT ![c] = "abandoned"]
        /\ UNCHANGED yieldedOf
    BY <1>0, <1>3, OneGeneratorMoves DEF GenState, Running, EndAs
  <2> QED
    BY <1>3, <2>1 DEF Contract!End, Contract!Become
<1>4. ASSUME NEW c \in Calls, CallStep(c),
             GenState(pc'[c], raised'[c], outcome'[c]) = genOf[c],
             UNCHANGED <<chunks, held>>
      PROVE  Same
  <2>1. genOf' = [genOf EXCEPT ![c] = genOf[c]]
    BY <1>0, <1>4, OneGeneratorMoves
  <2>2. UNCHANGED genOf
    BY <2>1 DEF genOf
  <2> QED
    BY <1>0, <1>4, <2>2, OneGeneratorMoves DEF Contract!adapterVars
<1>5. ASSUME NEW c \in Calls, CallStep(c), pc[c] \in {"reading", "sleeping"},
             pc'[c] = "yielded", Len(chunks'[c]) = Len(chunks[c]) + 1, UNCHANGED held
      PROVE  Contract!Yield(c)
  <2>1. /\ genOf[c] = "running" /\ genOf' = [genOf EXCEPT ![c] = "suspended"]
        /\ yieldedOf' = [yieldedOf EXCEPT ![c] = yieldedOf[c] + 1]
    BY <1>0, <1>5, OneGeneratorMoves DEF GenState, Running
  <2> QED
    BY <1>5, <2>1 DEF Contract!Yield, Contract!Become
<1>6. ASSUME NEW c \in Calls
      PROVE  /\ Placed(c) /\ Said(c)
             /\ c \in held <=> held # held \ {c}
             /\ pc[c] \in {"new", "queued", "sleeping"} => held = held \ {c}
             /\ \A label \in Running \cup {"new"} : \A e, what :
                  ~(label = "leaving" /\ e = "GeneratorExit") =>
                     GenState(label, e, what) \in {"created", "running"}
    BY DEF AdapterInv, Placed, GenState, Running
<1>7. ASSUME NEW c \in Calls, CallHttp(c) PROVE Contract!Start(c)
  <2>1. CallStep(c) /\ pc[c] = "new" /\ pc'[c] = "queued" /\ UNCHANGED <<chunks, held>>
    BY <1>0, <1>7 DEF CallStep, CallHttp, GoTo, TypeOK
  <2>2. genOf[c] = "created" /\ genOf' = [genOf EXCEPT ![c] = "running"]
    BY <1>0, <2>1, OneGeneratorMoves DEF GenState, Running
  <2> QED
    BY <1>0, <2>1, <2>2, OneGeneratorMoves DEF Contract!Start, Contract!Become
<1>8. ASSUME NEW c \in Calls, CallStub(c) PROVE Contract!Start(c) \/ Contract!End(c)
  <2>1. CallStep(c) /\ pc[c] = "new" /\ UNCHANGED <<chunks, held>> /\ held = held \ {c}
    BY <1>0, <1>6, <1>8 DEF CallStep, CallStub
  <2>2. genOf[c] = "created"
    BY <1>0, <2>1, OneGeneratorMoves DEF GenState, Running
  <2>3. CASE pc'[c] = "over"
    BY <1>2, <2>1, <2>2, <2>3
  <2>4. CASE pc'[c] = "sleeping"
    <3>1. genOf' = [genOf EXCEPT ![c] = "running"]
      BY <1>0, <2>1, <2>4, OneGeneratorMoves DEF GenState, Running
    <3> QED
      BY <1>0, <2>1, <2>2, <3>1, OneGeneratorMoves DEF Contract!Start, Contract!Become
  <2> QED
    BY <1>0, <1>8, <2>3, <2>4 DEF CallStub, Raises, Told, GoTo, TypeOK
<1>9. ASSUME NEW c \in Calls, Connect(c) PROVE Contract!Work(c)
  <2>1. /\ CallStep(c) /\ pc[c] = "queued" /\ pc'[c] = "asking" /\ UNCHANGED chunks
        /\ held' = held \cup {c}
    BY <1>0, <1>9 DEF CallStep, Step, Connect, GoTo, TypeOK
  <2>2. genOf[c] = "running" /\ genOf' = [genOf EXCEPT ![c] = "running"]
    BY <1>0, <2>1, OneGeneratorMoves DEF GenState, Running
  <2>3. UNCHANGED genOf
    BY <2>2 DEF genOf
  <2> QED
    BY <1>0, <2>1, <2>2, <2>3, OneGeneratorMoves DEF Contract!Work
<1>10. ASSUME NEW c \in Calls, PoolIsExhausted(c) \/ AskFails(c) \/ AnswerInfer(c)
       PROVE  Contract!End(c)
  <2>1. /\ CallStep(c) /\ pc[c] \in {"queued", "asking"} /\ pc'[c] = "over"
        /\ UNCHANGED chunks
    BY <1>0, <1>10
    DEF CallStep, Step, PoolIsExhausted, AskFails, AnswerInfer, Raises, Ends, Told, GoTo, TypeOK
  <2>2. held' = held \ {c}
    BY <1>6, <1>10 DEF PoolIsExhausted, AskFails, AnswerInfer, Release
  <2>3. genOf[c] = "running"
    BY <1>0, <2>1, OneGeneratorMoves DEF GenState, Running
  <2> QED
    BY <1>2, <2>1, <2>2, <2>3
<1>11. ASSUME NEW c \in Calls,
              AnswerStream(c) \/ Skip(c) \/ ReadDone(c) \/ ReadMalformed(c) \/ BodyEnds(c)
              \/ ReadFails(c)
       PROVE  Same
  <2>1. /\ CallStep(c) /\ UNCHANGED <<chunks, held>> /\ pc[c] \in {"asking", "reading"}
        /\ pc'[c] \in {"reading", "leaving"}
        /\ raised'[c] \in {raised[c], "HTTPStatusError", "Exception", "ReadTimeout",
                           "TransportError"}
    BY <1>0, <1>11
    DEF CallStep, Step, AnswerStream, Skip, Read, ReadDone, ReadMalformed, BodyEnds, ReadFails,
        Leave, LeaveWith, GoTo, TypeOK
  <2>2. raised[c] = None
    BY <1>6, <2>1 DEF Said
  <2>3. raised'[c] # "GeneratorExit"
    BY <2>1, <2>2, NoneAssumption DEF Exceptions, Classes
  <2>4. genOf[c] = "running" /\ GenState(pc'[c], raised'[c], outcome'[c]) = "running"
    BY <1>0, <2>1, <2>3, OneGeneratorMoves DEF GenState, Running
  <2> QED
    BY <1>4, <2>1, <2>4
<1>12. ASSUME NEW c \in Calls, YieldContent(c) PROVE Contract!Yield(c)
  <2>1. CallStep(c) /\ pc[c] = "reading" /\ pc'[c] = "yielded" /\ UNCHANGED held
    BY <1>0, <1>12 DEF CallStep, Step, YieldContent, Read, GoTo, TypeOK
  <2>2. chunks'[c] = Append(chunks[c], Len(lines'[c])) /\ chunks[c] \in Seq(Nat)
    BY <1>0, <1>12 DEF YieldContent, TypeOK
  <2>3. Len(chunks'[c]) = Len(chunks[c]) + 1
    BY <2>2
  <2> QED
    BY <1>5, <2>1, <2>3
<1>13. ASSUME NEW c \in Calls, CloseResponse(c) PROVE Contract!End(c)
  <2>1. /\ CallStep(c) /\ pc[c] = "leaving" /\ pc'[c] = "over" /\ UNCHANGED chunks
        /\ held' = held \ {c}
        /\ outcome'[c] = IF raised[c] = None THEN "ended" ELSE Caught(raised[c])
    BY <1>0, <1>13 DEF CallStep, Step, CloseResponse, Release, Told, GoTo, TypeOK
  <2>2. CASE raised[c] = "GeneratorExit"
    <3>1. genOf[c] = "dropped"
      BY <1>0, <2>1, <2>2, OneGeneratorMoves DEF GenState
    <3>2. outcome'[c] = "GeneratorExit"
      BY <2>1, <2>2, Translation, NoneAssumption DEF Exceptions, Classes
    <3> QED
      BY <1>3, <2>1, <3>1, <3>2
  <2>3. CASE raised[c] # "GeneratorExit"
    <3>1. genOf[c] = "running"
      BY <1>0, <2>1, <2>3, OneGeneratorMoves DEF GenState, Running
    <3> QED
      BY <1>2, <2>1, <3>1
  <2> QED
    BY <2>2, <2>3
<1>14. ASSUME NEW c \in Calls, Awake(c) PROVE Contract!End(c) \/ Contract!Yield(c)
  <2>1. CallStep(c) /\ pc[c] = "sleeping" /\ UNCHANGED held /\ held = held \ {c}
    BY <1>6, <1>14 DEF CallStep, Step, Awake
  <2>2. genOf[c] = "running"
    BY <1>0, <2>1, OneGeneratorMoves DEF GenState, Running
  <2>3. CASE Ends(c) /\ UNCHANGED chunks
    <3>1. pc'[c] = "over"
      BY <1>0, <2>3 DEF Ends, Told, GoTo, TypeOK
    <3> QED
      BY <1>2, <2>1, <2>2, <2>3, <3>1
  <2>4. CASE chunks' = [chunks EXCEPT ![c] = Append(@, Len(@))] /\ GoTo(c, "yielded")
    <3>1. pc'[c] = "yielded"
      BY <1>0, <2>4 DEF GoTo, TypeOK
    <3>2. chunks[c] \in Seq(Nat) /\ chunks'[c] = Append(chunks[c], Len(chunks[c]))
      BY <1>0, <2>4 DEF TypeOK
    <3>3. Len(chunks'[c]) = Len(chunks[c]) + 1
      BY <3>2
    <3> QED
      BY <1>5, <2>1, <3>1, <3>3
  <2> QED
    BY <1>14, <2>3, <2>4 DEF Awake
<1>15. ASSUME NEW c \in Calls, Resume(c) PROVE Contract!Resume(c)
  <2>1. /\ CallStep(c) /\ pc[c] = "yielded" /\ pc'[c] \in {"reading", "sleeping"}
        /\ UNCHANGED <<chunks, held>>
    BY <1>0, <1>15 DEF CallStep, Resume, GoTo, TypeOK
  <2>2. genOf[c] = "suspended" /\ genOf' = [genOf EXCEPT ![c] = "running"]
    BY <1>0, <2>1, OneGeneratorMoves DEF GenState, Running
  <2> QED
    BY <1>0, <2>1, <2>2, OneGeneratorMoves DEF Contract!Resume, Contract!Become
<1>16. ASSUME NEW c \in Calls, Drop(c) PROVE Contract!Drop(c)
  <2>1. /\ CallStep(c) /\ pc[c] = "yielded" /\ pc'[c] = "dropped"
        /\ UNCHANGED <<chunks, held>>
    BY <1>0, <1>16 DEF CallStep, Drop, GoTo, TypeOK
  <2>2. genOf[c] = "suspended" /\ genOf' = [genOf EXCEPT ![c] = "dropped"]
    BY <1>0, <2>1, OneGeneratorMoves DEF GenState, Running
  <2> QED
    BY <1>0, <2>1, <2>2, OneGeneratorMoves DEF Contract!Drop, Contract!Become
<1>17. ASSUME NEW c \in Calls, Finalize(c) PROVE Same \/ Contract!End(c)
  <2>1. CallStep(c) /\ pc[c] = "dropped" /\ UNCHANGED <<chunks, held>>
    BY <1>17 DEF CallStep, Step, Finalize, LeaveWith
  <2>2. genOf[c] = "dropped"
    BY <1>0, <2>1, OneGeneratorMoves DEF GenState, Running
  <2>3. CASE LeaveWith(c, "GeneratorExit")
    <3>1. pc'[c] = "leaving" /\ raised'[c] = "GeneratorExit"
      BY <1>0, <2>3 DEF LeaveWith, GoTo, TypeOK
    <3> QED
      BY <1>4, <2>1, <2>2, <3>1 DEF GenState
  <2>4. CASE adapter # "http" /\ Raises(c, "GeneratorExit")
    <3>1. pc'[c] = "over" /\ outcome'[c] = "GeneratorExit"
      BY <1>0, <2>4, Translation DEF Raises, Told, GoTo, TypeOK
    <3>2. held = held \ {c}
      BY <1>0, <1>6, <2>4 DEF Placed, TypeOK
    <3> QED
      BY <1>3, <2>1, <2>2, <3>1, <3>2
  <2> QED
    BY <1>17, <2>3, <2>4 DEF Finalize
<1>18. ASSUME NEW c \in Calls, Cancel(c) PROVE Same \/ Contract!End(c)
  <2>1. CallStep(c) /\ pc[c] \in {"queued", "asking", "sleeping", "reading"} /\ UNCHANGED chunks
    BY <1>18 DEF CallStep, Cancel
  <2>2. genOf[c] = "running"
    BY <1>0, <2>1, OneGeneratorMoves DEF GenState, Running
  <2>3. CASE Raises(c, "CancelledError") /\ Release(c)
    <3>1. pc'[c] = "over" /\ held' = held \ {c}
      BY <1>0, <2>3 DEF Raises, Release, Told, GoTo, TypeOK
    <3> QED
      BY <1>2, <2>1, <2>2, <3>1
  <2>4. CASE LeaveWith(c, "CancelledError")
    <3>1. pc'[c] = "leaving" /\ raised'[c] = "CancelledError" /\ UNCHANGED held
      BY <1>0, <2>4 DEF LeaveWith, GoTo, TypeOK
    <3>2. GenState(pc'[c], raised'[c], outcome'[c]) = "running"
      BY <3>1 DEF GenState, Running
    <3> QED
      BY <1>4, <2>1, <2>2, <3>1, <3>2
  <2> QED
    BY <1>18, <2>3, <2>4 DEF Cancel
<1>19. ASSUME Aclose PROVE Contract!Shutdown
  <2>1. UNCHANGED <<pc, raised, outcome, chunks>> /\ held' = {}
    BY <1>19 DEF Aclose
  <2>2. UNCHANGED genOf /\ UNCHANGED yieldedOf
    BY <2>1 DEF genOf, yieldedOf
  <2>3. \A c \in Calls : genOf[c] \notin {"running", "suspended"}
    <3> TAKE c \in Calls
    <3>1. \/ pc[c] \in {"new", "dropped", "over"}
          \/ pc[c] = "leaving" /\ raised[c] = "GeneratorExit"
      BY <1>6, <1>19, NoneAssumption DEF Aclose, Said, Exceptions, Classes
    <3>2. \A what : EndAs(what) \notin {"running", "suspended"}
      BY DEF EndAs
    <3> QED
      BY <3>1, <3>2 DEF genOf, GenState, Running
  <2> QED
    BY <2>1, <2>2, <2>3 DEF Contract!Shutdown
<1>20. ASSUME UNCHANGED vars PROVE Same
    BY <1>20 DEF vars, genOf, yieldedOf, Contract!adapterVars
<1> HIDE DEF Same
<1> QED
    BY <1>7, <1>8, <1>9, <1>10, <1>11, <1>12, <1>13, <1>14, <1>15, <1>16, <1>17, <1>18, <1>19,
       <1>20
    DEF Next, Step, Contract!AdapterNext, Same

\* Both adapters do what the services are promised: a generator that works, yields
\* and ends, works only when it is asked to, and holds no connection then.
THEOREM AdapterKeepsItsContract == Spec => KeepsTheContract
<1>1. Init => Contract!AdapterInit
  <2> SUFFICES ASSUME Init PROVE Contract!AdapterInit
    OBVIOUS
  <2>1. GenState("new", None, None) = "created"
    BY DEF GenState, Running
  <2>2. \A c \in Calls : GenState(pc[c], raised[c], outcome[c]) = "created"
    <3> SUFFICES ASSUME NEW c \in Calls PROVE GenState(pc[c], raised[c], outcome[c]) = "created"
      OBVIOUS
    <3>1. pc[c] = "new" /\ raised[c] = None /\ outcome[c] = None
      BY DEF Init
    <3> QED
      BY <3>1, <2>1
  <2>3. genOf = [c \in Calls |-> "created"]
    BY <2>2 DEF genOf
  <2>4. yieldedOf = [c \in Calls |-> 0]
    <3>1. \A c \in Calls : Len(chunks[c]) = 0
      BY DEF Init
    <3> QED
      BY <3>1 DEF yieldedOf
  <2> QED
    BY <2>3, <2>4 DEF Init, Contract!AdapterInit
<1> QED
    BY <1>1, StepKeepsTheContract, AdapterInvariant, PTL
    DEF Spec, KeepsTheContract, Contract!Spec
=============================================================================

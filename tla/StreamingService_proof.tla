------------------------ MODULE StreamingService_proof ------------------------
(***************************************************************************)
(* Theorems about the streams and their audit, for any number of streams   *)
(* of any length, and any breaker.                                         *)
(*                                                                         *)
(* StreamInv is the inductive invariant: Bookkeeping says what a stream    *)
(* that is suspended has counted and reported so far, which is what the    *)
(* finally block then writes down.  A step of one stream leaves every      *)
(* other stream alone, so each action is looked at for its own stream.     *)
(***************************************************************************)
EXTENDS StreamingService, FiniteSetTheorems, TLAPS

-----------------------------------------------------------------------------
(* The fields keep their types.                                             *)

LEMMA BreakerStepsKeepTypes ==
    ASSUME TypeOK, NEW c \in Calls, UNCHANGED now
    PROVE  /\ IsOpen /\ UNCHANGED historyVars => BreakerTypeOK'
           /\ ReportFailure(c) \/ ReportSuccess(c) =>
                /\ BreakerTypeOK'
                /\ reports' \in [Calls -> SUBSET {"success", "failure"}]
                /\ log' \subseteq Failure
                /\ IsFiniteSet(log')
<1> DEFINE newest == [call |-> c, at |-> now]
<1>1. /\ newest \in Failure
      /\ IsFiniteSet(failures \cup {newest})
      /\ IsFiniteSet(log \cup {newest})
    BY FS_AddElement DEF TypeOK, BreakerTypeOK, Failure
<1>2. IsOpen => BreakerTypeOK'
    BY DEF IsOpen, TypeOK, BreakerTypeOK, State, HalfOpen
<1>3. ASSUME ReportFailure(c)
      PROVE  BreakerTypeOK' /\ log' \subseteq Failure /\ IsFiniteSet(log')
  <2>1. /\ failures' = InWindow(failures \cup {newest})
        /\ log' = log \cup {newest}
        /\ state' \in {Open, state} /\ openedAt' \in {now, openedAt}
    BY <1>3 DEF ReportFailure, RecordFailure
  <2>2. IsFiniteSet(failures')
    BY <1>1, <2>1, FS_Subset DEF InWindow
  <2> QED
    BY <1>1, <2>1, <2>2 DEF TypeOK, BreakerTypeOK, InWindow, State
<1>4. ASSUME ReportSuccess(c)
      PROVE  BreakerTypeOK' /\ log' \subseteq Failure /\ IsFiniteSet(log')
    BY <1>4, FS_EmptySet
    DEF ReportSuccess, RecordSuccess, breakerVars, TypeOK, BreakerTypeOK, State, Closed
<1>5. ReportFailure(c) \/ ReportSuccess(c) =>
        reports' \in [Calls -> SUBSET {"success", "failure"}]
    BY DEF ReportFailure, ReportSuccess, TypeOK
<1> QED
    BY <1>2, <1>3, <1>4, <1>5

\* What a refused stream is told is a whole, non-negative number of seconds.
LEMMA AnswerHasItsType ==
    ASSUME TypeOK, StillOpen
    PROVE  [at |-> now, retry |-> RetryAfter \div TicksPerSecond, openedAt |-> openedAt]
             \in Answer
<1>1. now \in Nat /\ openedAt \in Nat /\ RetryAfter \in Nat
    BY BreakerAssumption DEF StillOpen, RetryAfter, TypeOK, BreakerTypeOK
<1>2. \A n \in Nat, t \in Nat \ {0} : n \div t \in Nat
    OBVIOUS
<1>3. RetryAfter \div TicksPerSecond \in Nat
    BY <1>1, <1>2, BreakerAssumption
<1> QED
    BY <1>1, <1>3 DEF Answer

LEMMA InitIsTyped == Init => TypeOK
    BY FS_EmptySet, BreakerAssumption
    DEF Init, BreakerInit, TypeOK, BreakerTypeOK, State, Closed, PC, Status

LEMMA StepKeepsTypes == TypeOK /\ [Next]_vars => TypeOK'
<1> SUFFICES ASSUME TypeOK, [Next]_vars PROVE TypeOK'
    OBVIOUS
<1> USE DEF TypeOK, PC, Awaiting, Yielding, Status, ProviderError, Audit, Finally, Connection,
            GoTo
<1>1. ASSUME NEW c \in Calls, Admit(c) PROVE TypeOK'
    BY <1>1, BreakerStepsKeepTypes DEF Admit, historyVars
<1>2. ASSUME NEW c \in Calls, Refuse(c) PROVE TypeOK'
  <2>1. told' \in [Calls -> Answer \cup {None}]
    BY <1>2, AnswerHasItsType DEF Refuse
  <2> QED
    BY <1>2, <2>1, BreakerStepsKeepTypes DEF Refuse, historyVars
<1>3. ASSUME Silent, UNCHANGED now PROVE BreakerTypeOK' /\ UNCHANGED <<reports, log>>
    BY <1>3 DEF Silent, BreakerTypeOK, breakerVars, historyVars
<1>4. ASSUME NEW c \in Calls,
             Pull(c) \/ FindClientGone(c) \/ Send(c) \/ Resume(c) \/ Exhaust(c)
             \/ Cancel(c) \/ Close(c) \/ Finalize(c)
      PROVE  TypeOK'
    BY <1>3, <1>4 DEF Pull, FindClientGone, Send, Resume, Exhaust, Cancel, Close, Finalize
<1>5. ASSUME NEW c \in Calls, Complete(c) PROVE TypeOK'
    BY <1>5, BreakerStepsKeepTypes DEF Complete
<1>6. ASSUME NEW c \in Calls, ProviderFails(c) PROVE TypeOK'
    BY <1>6, BreakerStepsKeepTypes DEF ProviderFails
<1>7. ASSUME NEW c \in Calls, Raise(c) PROVE TypeOK'
    BY <1>7, BreakerStepsKeepTypes DEF Raise
<1>8. ASSUME Tick \/ UNCHANGED vars PROVE TypeOK'
    BY <1>8
    DEF Tick, Silent, vars, streamVars, historyVars, breakerVars, BreakerTypeOK
<1> QED
    BY <1>1, <1>2, <1>4, <1>5, <1>6, <1>7, <1>8 DEF Next, Advance, Consume

\* Every field of the breaker and of the streams keeps its type.
THEOREM TypeCorrectness == Spec => []TypeOK
    BY InitIsTyped, StepKeepsTypes, PTL DEF Spec

-----------------------------------------------------------------------------
(* What is audited.                                                         *)

StreamInv ==
    /\ TypeOK
    /\ Bookkeeping
    /\ AuditAgreesWithTheBreaker
    /\ AuditMissesOneTokenAtMost
    /\ DoneMeansComplete

\* The invariant for one stream.
InOrder(c) ==
    /\ pc[c] \in {"new", "refused", "pulling", "finishing", "erring"} =>
         arrived[c] = sent[c] /\ sent[c] = tokens[c]
    /\ pc[c] = "checking" => arrived[c] = sent[c] + 1 /\ sent[c] = tokens[c]
    /\ pc[c] = "yielding" => arrived[c] = sent[c] /\ sent[c] = tokens[c] + 1
    /\ pc[c] \in {"new", "refused", "pulling", "checking", "yielding"} =>
         reports[c] = {} /\ status[c] = "cancelled"
    /\ pc[c] = "finishing" => reports[c] = {"success"} /\ status[c] = "success"
    /\ pc[c] = "erring" => reports[c] = {"failure"} /\ status[c] \in ProviderError
    /\ audit[c] # None <=> pc[c] = "ended"
    /\ audit[c] # None =>
         /\ audit[c].status = "success" => reports[c] = {"success"}
         /\ audit[c].status \in ProviderError => reports[c] = {"failure"}
         /\ audit[c].status = "cancelled" => reports[c] = {}
         /\ audit[c].tokens \in {sent[c], sent[c] - 1}
         /\ audit[c].status # "cancelled" => audit[c].tokens = sent[c]
         /\ audit[c].status = "success" => sent[c] = arrived[c] /\ tokens[c] = sent[c]

LEMMA StreamByStream == StreamInv <=> TypeOK /\ \A c \in Calls : InOrder(c)
<1> SUFFICES ASSUME TypeOK
             PROVE  Bookkeeping /\ AuditAgreesWithTheBreaker /\ AuditMissesOneTokenAtMost
                    /\ DoneMeansComplete <=> \A c \in Calls : InOrder(c)
    BY DEF StreamInv
<1> DEFINE Agrees(c) ==
      audit[c] # None =>
        reports[c] = CASE audit[c].status = "success"       -> {"success"}
                       [] audit[c].status \in ProviderError -> {"failure"}
                       [] audit[c].status = "cancelled"     -> {}
<1>1. ASSUME NEW c \in Calls
      PROVE  Agrees(c) <=>
               (audit[c] # None =>
                  /\ audit[c].status = "success" => reports[c] = {"success"}
                  /\ audit[c].status \in ProviderError => reports[c] = {"failure"}
                  /\ audit[c].status = "cancelled" => reports[c] = {})
  <2>1. audit[c] # None => audit[c].status \in {"cancelled", "success"} \cup ProviderError
    BY DEF TypeOK, Audit, Status
  <2> QED
    BY <2>1 DEF ProviderError
<1>2. AuditAgreesWithTheBreaker <=> \A c \in Calls : Agrees(c)
    BY DEF AuditAgreesWithTheBreaker
<1> QED
    BY <1>1, <1>2 DEF Bookkeeping, AuditMissesOneTokenAtMost, DoneMeansComplete, InOrder

\* Nothing of stream d changes.
LeftAlone(d) ==
    UNCHANGED <<pc[d], arrived[d], sent[d], tokens[d], status[d], audit[d], reports[d]>>

LEMMA LeftAloneStaysInOrder ==
    ASSUME NEW d \in Calls, InOrder(d), LeftAlone(d)
    PROVE  InOrder(d)'
    BY DEF InOrder, LeftAlone

\* A stream that ends is in order if what it writes down agrees with what the
\* breaker has heard and what was sent.
LEMMA FinallyKeepsOrder ==
    ASSUME TypeOK, NEW c \in Calls, NEW how \in Status, Finally(c, how),
           UNCHANGED <<arrived, sent, tokens>>,
           tokens[c] \in {sent[c], sent[c] - 1},
           how = "success" =>
             reports'[c] = {"success"} /\ sent[c] = arrived[c] /\ tokens[c] = sent[c],
           how \in ProviderError => reports'[c] = {"failure"} /\ tokens[c] = sent[c],
           how = "cancelled" => reports'[c] = {}
    PROVE  /\ InOrder(c)'
           /\ \A d \in Calls \ {c} : pc'[d] = pc[d] /\ audit'[d] = audit[d]
<1> DEFINE entry == [tokens |-> tokens[c], status |-> how]
<1>1. /\ pc' = [pc EXCEPT ![c] = "ended"]
      /\ audit' = [audit EXCEPT ![c] = entry]
    BY DEF Finally, GoTo
<1>2. /\ \A d \in Calls \ {c} : pc'[d] = pc[d] /\ audit'[d] = audit[d]
      /\ pc'[c] = "ended" /\ audit'[c] = entry
    BY <1>1 DEF TypeOK
<1>3. entry # None
    BY NoneAssumption DEF TypeOK, Audit
<1>4. entry.tokens = tokens[c] /\ entry.status = how
    OBVIOUS
<1>5. how # "cancelled" => how = "success" \/ how \in ProviderError
    BY DEF Status
<1> HIDE DEF entry
<1> QED
    BY <1>2, <1>3, <1>4, <1>5 DEF InOrder

\* Each step of a stream keeps its own books in order and touches no other's.
LEMMA StepKeepsOrder ==
    ASSUME TypeOK, NEW c \in Calls, InOrder(c),
           Admit(c) \/ Refuse(c) \/ Advance(c) \/ Consume(c) \/ Cancel(c) \/ Finalize(c)
    PROVE  InOrder(c)' /\ \A d \in Calls \ {c} : LeftAlone(d)
<1> USE DEF TypeOK, InOrder, LeftAlone, GoTo, Connection, Silent, historyVars
<1>0. arrived[c] \in Nat /\ sent[c] \in Nat /\ tokens[c] \in Nat
    OBVIOUS
<1>1. CASE Admit(c)
    BY <1>1 DEF Admit
<1>2. CASE Refuse(c)
    BY <1>2 DEF Refuse
<1>3. CASE Pull(c)
    BY <1>0, <1>3 DEF Pull
<1>4. CASE FindClientGone(c)
  <2>1. Finally(c, "cancelled") /\ UNCHANGED <<arrived, sent, tokens, status, reports>>
    BY <1>4 DEF FindClientGone
  <2> QED
    BY <1>0, <1>4, <2>1, FinallyKeepsOrder DEF FindClientGone, Status, ProviderError
<1>5. CASE Send(c)
    BY <1>0, <1>5 DEF Send
<1>6. CASE Resume(c)
    BY <1>0, <1>6 DEF Resume
<1>7. CASE Complete(c)
    BY <1>7 DEF Complete, ReportSuccess
<1>8. CASE ProviderFails(c)
    BY <1>8 DEF ProviderFails, ReportFailure, ProviderError
<1>9. CASE Raise(c)
  <2>1. /\ Finally(c, "error") /\ UNCHANGED <<arrived, sent, tokens>>
        /\ reports' = [reports EXCEPT ![c] = @ \cup {"failure"}]
        /\ status' = [status EXCEPT ![c] = "error"]
    BY <1>9 DEF Raise, ReportFailure
  <2>2. reports[c] = {} /\ tokens[c] = sent[c] /\ reports'[c] = {"failure"}
    BY <1>9, <2>1 DEF Raise
  <2>3. InOrder(c)' /\ \A d \in Calls \ {c} : pc'[d] = pc[d] /\ audit'[d] = audit[d]
    BY <1>0, <2>1, <2>2, FinallyKeepsOrder DEF Status, ProviderError
  <2> QED
    BY <2>1, <2>3
<1>10. CASE Exhaust(c)
  <2>1. Finally(c, status[c]) /\ UNCHANGED <<arrived, sent, tokens, status, reports>>
    BY <1>10 DEF Exhaust
  <2>2. /\ pc[c] \in {"finishing", "erring"}
        /\ status[c] \in Status
    BY <1>10 DEF Exhaust
  <2>3. InOrder(c)' /\ \A d \in Calls \ {c} : pc'[d] = pc[d] /\ audit'[d] = audit[d]
    BY <1>0, <2>1, <2>2, FinallyKeepsOrder DEF ProviderError
  <2> QED
    BY <2>1, <2>3
<1>11. CASE Cancel(c)
  <2>1. /\ Finally(c, "cancelled") /\ UNCHANGED <<arrived, sent, tokens, reports>>
        /\ status' = [status EXCEPT ![c] = "cancelled"]
    BY <1>11 DEF Cancel
  <2> QED
    BY <1>0, <1>11, <2>1, FinallyKeepsOrder DEF Cancel, Awaiting, Status, ProviderError
<1>12. CASE Close(c)
  <2>1. Finally(c, status[c]) /\ UNCHANGED <<arrived, sent, tokens, status, reports>>
    BY <1>12 DEF Close
  <2>2. /\ pc[c] \in {"yielding", "finishing", "erring"}
        /\ status[c] \in Status
    BY <1>12 DEF Close, Yielding
  <2>3. InOrder(c)' /\ \A d \in Calls \ {c} : pc'[d] = pc[d] /\ audit'[d] = audit[d]
    BY <1>0, <2>1, <2>2, FinallyKeepsOrder DEF ProviderError
  <2> QED
    BY <2>1, <2>3
<1>13. CASE Finalize(c)
    BY <1>13 DEF Finalize
<1> QED
    BY <1>1, <1>2, <1>3, <1>4, <1>5, <1>6, <1>7, <1>8, <1>9, <1>10, <1>11, <1>12, <1>13 DEF Advance, Consume

LEMMA StepKeepsInv == StreamInv /\ [Next]_vars => StreamInv'
<1>0. (StreamInv <=> TypeOK /\ \A c \in Calls : InOrder(c))'
    BY StreamByStream, PTL
<1> SUFFICES ASSUME TypeOK, \A c \in Calls : InOrder(c), [Next]_vars
             PROVE  TypeOK' /\ \A c \in Calls : InOrder(c)'
    BY <1>0, StreamByStream
<1>1. TypeOK'
    BY StepKeepsTypes
<1>2. ASSUME NEW c \in Calls,
             Admit(c) \/ Refuse(c) \/ Advance(c) \/ Consume(c) \/ Cancel(c) \/ Finalize(c)
      PROVE  \A d \in Calls : InOrder(d)'
    BY <1>2, StepKeepsOrder, LeftAloneStaysInOrder
<1>3. ASSUME Tick \/ UNCHANGED vars
      PROVE  \A d \in Calls : InOrder(d)'
  <2>1. \A d \in Calls : LeftAlone(d)
    BY <1>3 DEF Tick, Silent, vars, streamVars, historyVars, LeftAlone
  <2> QED
    BY <2>1, LeftAloneStaysInOrder
<1> QED
    BY <1>1, <1>2, <1>3 DEF Next

THEOREM StreamInvariant == Spec => []StreamInv
<1>1. Init => StreamInv
  <2>1. Init => TypeOK
    BY InitIsTyped
  <2>2. Init => \A c \in Calls : InOrder(c)
    BY DEF Init, InOrder
  <2> QED
    BY <2>1, <2>2, StreamByStream
<1> QED
    BY <1>1, StepKeepsInv, PTL DEF Spec

\* The audit log and the breaker tell one story about every stream, however it
\* ended: success, provider error, or cancelled without a word to the breaker.
THEOREM AuditAndBreakerAgree == Spec => []AuditAgreesWithTheBreaker
<1>1. StreamInv => AuditAgreesWithTheBreaker
    BY DEF StreamInv
<1> QED
    BY <1>1, StreamInvariant, PTL

\* The audit of a stream is short of one token at most, and only if cancelled.
THEOREM AuditIsShortByOneAtMost == Spec => []AuditMissesOneTokenAtMost
<1>1. StreamInv => AuditMissesOneTokenAtMost
    BY DEF StreamInv
<1> QED
    BY <1>1, StreamInvariant, PTL

\* [DONE] is sent, and success audited, only after every chunk was sent.
THEOREM CompletionIsTrue == Spec => []DoneMeansComplete
<1>1. StreamInv => DoneMeansComplete
    BY DEF StreamInv
<1> QED
    BY <1>1, StreamInvariant, PTL

-----------------------------------------------------------------------------
(* The streams are clients of the breaker.                                  *)

\* A step that moves one stream moves one client, or none.
LEMMA OneClientMoves ==
    ASSUME TypeOK, NEW c \in Calls, NEW label \in PC, GoTo(c, label)
    PROVE  /\ callOf[c] = ClientState(pc[c])
           /\ callOf' = [callOf EXCEPT ![c] = ClientState(label)]
           /\ ClientState(label) = ClientState(pc[c]) => UNCHANGED callOf
<1> HIDE DEF ClientState
<1>1. /\ pc' = [pc EXCEPT ![c] = label] /\ pc \in [Calls -> PC]
    BY DEF GoTo, TypeOK
<1> QED
    BY <1>1 DEF callOf

\* Breaker operations are the same operations, instantiated.
LEMMA SameOperations ==
    /\ Clients!StillOpen <=> StillOpen
    /\ Clients!IsOpen <=> IsOpen
    /\ Clients!RetryAfter = RetryAfter
    /\ Clients!RecordSuccess <=> RecordSuccess
    /\ \A c \in Calls : Clients!RecordFailure(c) <=> RecordFailure(c)
<1>1. \A S : Clients!Cardinality(S) = Cardinality(S)
    BY DEF Cardinality, Clients!Cardinality
<1> QED
    BY <1>1
    DEF Clients!StillOpen, StillOpen, Clients!IsOpen, IsOpen, Clients!RecoveryDue, RecoveryDue,
        Clients!RetryAfter, RetryAfter, Clients!RecordSuccess, RecordSuccess,
        Clients!RecordFailure, RecordFailure, Clients!InWindow, InWindow,
        Clients!Open, Open, Clients!Closed, Closed, Clients!HalfOpen, HalfOpen,
        Clients!breakerVars, breakerVars

LEMMA StepImplementsStep == TypeOK /\ [Next]_vars => [Clients!Next]_(Clients!vars)
<1> SUFFICES ASSUME TypeOK, [Next]_vars PROVE [Clients!Next]_(Clients!vars)
    OBVIOUS
<1> DEFINE Same == UNCHANGED Clients!vars
<1> USE SameOperations DEF PC, Awaiting, Yielding, ClientState
<1>1. Silent /\ UNCHANGED <<now, callOf, told>> => Same
    BY DEF Silent, historyVars, breakerVars, Clients!vars, Clients!clientVars,
           Clients!breakerVars
<1>2. ASSUME NEW c \in Calls, Admit(c) PROVE Clients!Admit(c)
    BY <1>2, OneClientMoves DEF Admit, historyVars, Clients!Admit
<1>3. ASSUME NEW c \in Calls, Refuse(c) PROVE Clients!Reject(c)
    BY <1>3, OneClientMoves DEF Refuse, historyVars, Clients!Reject, Clients!RetryAfterSeconds
<1>4. ASSUME NEW c \in Calls, Pull(c) \/ Send(c) \/ Resume(c) PROVE Same
    BY <1>1, <1>4, OneClientMoves DEF Pull, Send, Resume
<1>5. ASSUME NEW c \in Calls, FindClientGone(c) \/ Cancel(c) PROVE Clients!Abandon(c)
    BY <1>5, OneClientMoves
    DEF FindClientGone, Cancel, Finally, Silent, historyVars, breakerVars, Clients!Abandon,
        Clients!breakerVars
<1>6. ASSUME NEW c \in Calls, Close(c), pc[c] = "yielding" PROVE Clients!Abandon(c)
    BY <1>6, OneClientMoves
    DEF Close, Finally, Silent, historyVars, breakerVars, Clients!Abandon, Clients!breakerVars
<1>7. ASSUME NEW c \in Calls, (Close(c) /\ pc[c] # "yielding") \/ Exhaust(c) PROVE Same
    BY <1>1, <1>7, OneClientMoves DEF Close, Exhaust, Finally
<1>8. ASSUME NEW c \in Calls, Complete(c) PROVE Clients!Succeed(c)
    BY <1>8, OneClientMoves
    DEF Complete, ReportSuccess, Clients!Succeed, Clients!Closed, Closed
<1>9. ASSUME NEW c \in Calls, ProviderFails(c) PROVE Clients!Fail(c)
    BY <1>9, OneClientMoves DEF ProviderFails, ReportFailure, Clients!Fail
<1>10. ASSUME NEW c \in Calls, Raise(c) PROVE Clients!Fail(c)
    BY <1>10, OneClientMoves DEF Raise, ReportFailure, Finally, Clients!Fail
<1>11. ASSUME NEW c \in Calls, Finalize(c) PROVE Same
    BY <1>1, <1>11 DEF Finalize, callOf
<1>12. ASSUME Tick PROVE Clients!Tick
    BY <1>12
    DEF Tick, Silent, streamVars, historyVars, breakerVars, callOf, Clients!Tick,
        Clients!clientVars, Clients!breakerVars
<1>13. ASSUME UNCHANGED vars PROVE Same
    BY <1>1, <1>13 DEF vars, Silent, streamVars, callOf
<1> HIDE DEF Same
<1> QED
    BY <1>2, <1>3, <1>4, <1>5, <1>6, <1>7, <1>8, <1>9, <1>10, <1>11, <1>12, <1>13
    DEF Next, Advance, Consume, Clients!Next, Same

\* Every run of the streams is a run of BreakerClients: a stream asks once and
\* reports at most once, however it is cancelled or dropped.
THEOREM StreamsAreClients == Spec => RefinesBreakerClients
<1>1. Init => Clients!Init
    BY DEF Init, BreakerInit, callOf, ClientState, Clients!Init, Clients!BreakerInit,
           Closed, Clients!Closed
<1> QED
    BY <1>1, StepImplementsStep, TypeCorrectness, PTL
    DEF Spec, RefinesBreakerClients, Clients!Spec
-----------------------------------------------------------------------------
(* What is proved of the clients, of streams.                               *)

Breaker == INSTANCE BreakerClients_proof WITH call <- callOf

LEMMA SameClients == Clients!Spec => Breaker!Spec
<1>1. \A S : Clients!Cardinality(S) = Breaker!Cardinality(S)
    BY DEF Clients!Cardinality, Breaker!Cardinality
<1>2. /\ Clients!StillOpen <=> Breaker!StillOpen
      /\ Clients!IsOpen <=> Breaker!IsOpen
      /\ Clients!RetryAfterSeconds = Breaker!RetryAfterSeconds
      /\ Clients!RecordSuccess <=> Breaker!RecordSuccess
      /\ \A c \in Calls : Clients!RecordFailure(c) <=> Breaker!RecordFailure(c)
      /\ Clients!Closed = Breaker!Closed
    BY <1>1
    DEF Clients!StillOpen, Breaker!StillOpen, Clients!IsOpen, Breaker!IsOpen,
        Clients!RecoveryDue, Breaker!RecoveryDue, Clients!RetryAfter, Breaker!RetryAfter,
        Clients!RetryAfterSeconds, Breaker!RetryAfterSeconds,
        Clients!RecordSuccess, Breaker!RecordSuccess,
        Clients!RecordFailure, Breaker!RecordFailure, Clients!InWindow, Breaker!InWindow,
        Clients!Open, Breaker!Open, Clients!Closed, Breaker!Closed,
        Clients!HalfOpen, Breaker!HalfOpen, Clients!breakerVars, Breaker!breakerVars
<1> USE <1>2 DEF Clients!breakerVars, Breaker!breakerVars, Clients!clientVars, Breaker!clientVars
<1>3. Clients!Init => Breaker!Init
    BY DEF Clients!Init, Breaker!Init, Clients!BreakerInit, Breaker!BreakerInit
<1>4. ASSUME NEW c \in Calls
      PROVE  /\ Clients!Admit(c) => Breaker!Admit(c)
             /\ Clients!Reject(c) => Breaker!Reject(c)
             /\ Clients!Fail(c) => Breaker!Fail(c)
             /\ Clients!Succeed(c) => Breaker!Succeed(c)
             /\ Clients!Abandon(c) => Breaker!Abandon(c)
    BY DEF Clients!Admit, Breaker!Admit, Clients!Reject, Breaker!Reject, Clients!Fail,
           Breaker!Fail, Clients!Succeed, Breaker!Succeed, Clients!Abandon, Breaker!Abandon
<1>5. /\ Clients!Health => Breaker!Health
      /\ Clients!Restart => Breaker!Restart
      /\ Clients!Tick => Breaker!Tick
    BY DEF Clients!Health, Breaker!Health, Clients!Restart, Breaker!Restart, Clients!Tick,
           Breaker!Tick
<1>6. [Clients!Next]_(Clients!vars) => [Breaker!Next]_(Breaker!vars)
    BY <1>4, <1>5 DEF Clients!Next, Breaker!Next, Clients!vars, Breaker!vars
<1> QED
    BY <1>3, <1>6, PTL DEF Clients!Spec, Breaker!Spec

\* The breaker under streams is sound: its fields agree, the pruned list loses nothing,
\* and behind every opening are FailureThreshold failures of streams in one window.
THEOREM BreakerOfStreamsIsSound == Spec => []Breaker!BreakerInv
<1>1. Breaker!Spec => []Breaker!BreakerInv
    BY Breaker!BreakerInvariant, BreakerAssumption
<1> QED
    BY <1>1, SameClients, StreamsAreClients, PTL DEF RefinesBreakerClients

\* Streams are refused for one recovery timeout from each time the threshold is
\* reached, and at no other time.
THEOREM StreamsAreBlockedAsPromised == Spec => Breaker!RefinesAbstractBreaker
<1>1. Breaker!Spec => Breaker!RefinesAbstractBreaker
    BY Breaker!BreakerKeepsItsPromise, BreakerAssumption
<1> QED
    BY <1>1, SameClients, StreamsAreClients, PTL DEF RefinesBreakerClients

\* retry_after_s of the error event is short by less than a second.
THEOREM RefusedStreamsAreToldHonestly == Spec => Breaker!RetryAfterIsShortByLessThanASecond
<1>1. Breaker!Spec => Breaker!RetryAfterIsShortByLessThanASecond
    BY Breaker!RetryAfterIsHonest, BreakerAssumption
<1> QED
    BY <1>1, SameClients, StreamsAreClients, PTL DEF RefinesBreakerClients

-----------------------------------------------------------------------------
(* The streams drive the adapter as agreed.                                 *)

\* The adapter's generator by where its stream stands: what the refinement needs
\* to know, and the stream's own bookkeeping does not say.
GeneratorKept(c) ==
    /\ pc[c] \in {"new", "refused"} => conn[c] = "none" /\ status[c] = "cancelled"
    /\ pc[c] \in {"pulling", "checking", "yielding"} =>
         conn[c] = "open" /\ status[c] = "cancelled"
    /\ pc[c] \in {"finishing", "erring"} => conn[c] = "closed"
    /\ pc[c] = "ended" => conn[c] \in {"closed", "dropped"}
    /\ conn[c] = "dropped" => status[c] = "cancelled"

\* A step of one stream is a step of one generator.
Moves(c, label, how, link) ==
    /\ pc' = [pc EXCEPT ![c] = label]
    /\ status' = [status EXCEPT ![c] = how]
    /\ conn' = [conn EXCEPT ![c] = link]
GenOf(label, how, link) == IF link = "dropped" THEN "dropped" ELSE GenState(label, how)

LEMMA OneGeneratorMoves ==
    ASSUME TypeOK, NEW c \in Calls, NEW label, NEW how, NEW link, Moves(c, label, how, link)
    PROVE  /\ genOf[c] = GenOf(pc[c], status[c], conn[c])
           /\ genOf' = [genOf EXCEPT ![c] = GenOf(label, how, link)]
           /\ connectedOf' = IF link \in {"open", "dropped"} THEN connectedOf \cup {c}
                             ELSE connectedOf \ {c}
           /\ \A d \in Calls \ {c} : GeneratorKept(d) => GeneratorKept(d)'
<1> HIDE DEF GenState
<1>1. /\ genOf[c] = GenOf(pc[c], status[c], conn[c])
      /\ genOf' = [genOf EXCEPT ![c] = GenOf(label, how, link)]
    BY DEF Moves, genOf, GenOf, TypeOK
<1>2. connectedOf' = IF link \in {"open", "dropped"} THEN connectedOf \cup {c}
                     ELSE connectedOf \ {c}
    BY DEF Moves, connectedOf, TypeOK
<1>3. \A d \in Calls \ {c} : GeneratorKept(d) => GeneratorKept(d)'
    BY DEF Moves, GeneratorKept, TypeOK
<1> QED
    BY <1>1, <1>2, <1>3

\* Where a stream's step takes it.
LEMMA StepsMove ==
    ASSUME TypeOK, NEW c \in Calls
    PROVE  /\ Admit(c) => Moves(c, "pulling", status[c], "open")
           /\ Refuse(c) => Moves(c, "refused", status[c], conn[c])
           /\ Pull(c) => Moves(c, "checking", status[c], conn[c])
           /\ Send(c) => Moves(c, "yielding", status[c], conn[c])
           /\ Resume(c) => Moves(c, "pulling", status[c], conn[c])
           /\ FindClientGone(c) => Moves(c, "ended", status[c], "dropped")
           /\ Complete(c) => Moves(c, "finishing", "success", "closed")
           /\ ProviderFails(c) => \E e \in ProviderError : Moves(c, "erring", e, "closed")
           /\ Raise(c) => Moves(c, "ended", "error", "closed")
           /\ Exhaust(c) => Moves(c, "ended", status[c], conn[c])
           /\ Cancel(c) => Moves(c, "ended", "cancelled",
                                 IF pc[c] = "pulling" THEN "closed" ELSE "dropped")
           /\ Close(c) => Moves(c, "ended", status[c],
                                IF pc[c] = "yielding" THEN "dropped" ELSE conn[c])
           /\ Finalize(c) => Moves(c, pc[c], status[c], "closed")
<1> USE DEF TypeOK, Moves, GoTo, Finally, Connection
<1>1. Admit(c) => Moves(c, "pulling", status[c], "open")
    BY DEF Admit
<1>2. Refuse(c) => Moves(c, "refused", status[c], conn[c])
    BY DEF Refuse
<1>3. /\ Pull(c) => Moves(c, "checking", status[c], conn[c])
      /\ Send(c) => Moves(c, "yielding", status[c], conn[c])
      /\ Resume(c) => Moves(c, "pulling", status[c], conn[c])
    BY DEF Pull, Send, Resume
<1>4. FindClientGone(c) => Moves(c, "ended", status[c], "dropped")
    BY DEF FindClientGone
<1>5. Complete(c) => Moves(c, "finishing", "success", "closed")
    BY DEF Complete
<1>6. ProviderFails(c) => \E e \in ProviderError : Moves(c, "erring", e, "closed")
    BY DEF ProviderFails, ProviderError
<1>7. Raise(c) => Moves(c, "ended", "error", "closed")
    BY DEF Raise
<1>8. Exhaust(c) => Moves(c, "ended", status[c], conn[c])
    BY DEF Exhaust
<1>9. Cancel(c) => Moves(c, "ended", "cancelled",
                         IF pc[c] = "pulling" THEN "closed" ELSE "dropped")
    BY DEF Cancel
<1>10. Close(c) => Moves(c, "ended", status[c],
                         IF pc[c] = "yielding" THEN "dropped" ELSE conn[c])
    BY DEF Close
<1>11. Finalize(c) => Moves(c, pc[c], status[c], "closed")
    BY DEF Finalize
<1> QED
    BY <1>1, <1>2, <1>3, <1>4, <1>5, <1>6, <1>7, <1>8, <1>9, <1>10, <1>11

\* Where a generator may be taken.
Rests(label, how, link) ==
    \/ label = "refused" /\ link = "none" /\ how = "cancelled"
    \/ label \in {"pulling", "checking", "yielding"} /\ link = "open" /\ how = "cancelled"
    \/ label \in {"finishing", "erring", "ended"} /\ link = "closed"
    \/ label = "ended" /\ link = "dropped" /\ how = "cancelled"

LEMMA StepsRest ==
    ASSUME TypeOK, NEW c \in Calls, GeneratorKept(c),
           Admit(c) \/ Refuse(c) \/ Advance(c) \/ Consume(c) \/ Cancel(c) \/ Finalize(c)
    PROVE  \E label, how, link : Moves(c, label, how, link) /\ Rests(label, how, link)
<1> USE StepsMove
<1> HIDE DEF Moves, Rests
<1>1. CASE Admit(c)
  <2>1. Moves(c, "pulling", status[c], "open") /\ status[c] = "cancelled"
    BY <1>1 DEF Admit, GeneratorKept
  <2>2. Rests("pulling", status[c], "open")
    BY <2>1 DEF Rests
  <2> QED
    BY <2>1, <2>2
<1>2. CASE Refuse(c)
  <2>1. Moves(c, "refused", status[c], conn[c]) /\ status[c] = "cancelled" /\ conn[c] = "none"
    BY <1>2 DEF Refuse, GeneratorKept
  <2>2. Rests("refused", status[c], conn[c])
    BY <2>1 DEF Rests
  <2> QED
    BY <2>1, <2>2
<1>3. CASE Pull(c) \/ Send(c) \/ Resume(c)
  <2>1. PICK label \in {"pulling", "checking", "yielding"} : Moves(c, label, status[c], conn[c])
    BY <1>3
  <2>2. status[c] = "cancelled" /\ conn[c] = "open"
    BY <1>3 DEF Pull, Send, Resume, GeneratorKept
  <2>3. Rests(label, status[c], conn[c])
    BY <2>2 DEF Rests
  <2> QED
    BY <2>1, <2>3
<1>4. CASE FindClientGone(c)
  <2>1. Moves(c, "ended", status[c], "dropped") /\ status[c] = "cancelled"
    BY <1>4 DEF FindClientGone, GeneratorKept
  <2>2. Rests("ended", status[c], "dropped")
    BY <2>1 DEF Rests
  <2> QED
    BY <2>1, <2>2
<1>5. CASE Complete(c) \/ ProviderFails(c) \/ Raise(c)
  <2>1. \E label \in {"finishing", "erring", "ended"} : \E how : Moves(c, label, how, "closed")
    BY <1>5
  <2>2. \A label \in {"finishing", "erring", "ended"} : \A how : Rests(label, how, "closed")
    BY DEF Rests
  <2> QED
    BY <2>1, <2>2
<1>6. CASE Exhaust(c)
  <2>1. Moves(c, "ended", status[c], conn[c]) /\ conn[c] = "closed"
    BY <1>6 DEF Exhaust, GeneratorKept
  <2>2. Rests("ended", status[c], conn[c])
    BY <2>1 DEF Rests
  <2> QED
    BY <2>1, <2>2
<1>7. CASE Cancel(c)
  <2>1. \E link \in {"closed", "dropped"} : Moves(c, "ended", "cancelled", link)
    BY <1>7
  <2>2. \A link \in {"closed", "dropped"} : Rests("ended", "cancelled", link)
    BY DEF Rests
  <2> QED
    BY <2>1, <2>2
<1>8. CASE Close(c)
  <2>1. \/ Moves(c, "ended", status[c], "dropped") /\ status[c] = "cancelled"
        \/ Moves(c, "ended", status[c], conn[c]) /\ conn[c] = "closed"
    BY <1>8 DEF Close, Yielding, GeneratorKept
  <2>2. /\ status[c] = "cancelled" => Rests("ended", status[c], "dropped")
        /\ conn[c] = "closed" => Rests("ended", status[c], conn[c])
    BY DEF Rests
  <2> QED
    BY <2>1, <2>2
<1>9. CASE Finalize(c)
  <2>1. Moves(c, pc[c], status[c], "closed") /\ pc[c] = "ended"
    BY <1>9 DEF Finalize, GeneratorKept, TypeOK, PC, Awaiting, Yielding
  <2>2. Rests(pc[c], status[c], "closed")
    BY <2>1 DEF Rests
  <2> QED
    BY <2>1, <2>2
<1> QED
    BY <1>1, <1>2, <1>3, <1>4, <1>5, <1>6, <1>7, <1>8, <1>9 DEF Advance, Consume

LEMMA StepKeepsGenerators ==
    TypeOK /\ (\A c \in Calls : GeneratorKept(c)) /\ [Next]_vars
        => \A c \in Calls : GeneratorKept(c)'
<1> SUFFICES ASSUME TypeOK, \A c \in Calls : GeneratorKept(c), [Next]_vars
             PROVE  \A c \in Calls : GeneratorKept(c)'
    OBVIOUS
<1>1. ASSUME NEW c \in Calls,
             Admit(c) \/ Refuse(c) \/ Advance(c) \/ Consume(c) \/ Cancel(c) \/ Finalize(c)
      PROVE  \A d \in Calls : GeneratorKept(d)'
  <2>1. PICK label, how, link : Moves(c, label, how, link) /\ Rests(label, how, link)
    BY <1>1, StepsRest
  <2>2. GeneratorKept(c)'
    BY <2>1 DEF Moves, Rests, GeneratorKept, TypeOK
  <2> QED
    BY <2>1, <2>2, OneGeneratorMoves
<1>2. CASE Tick \/ UNCHANGED vars
    BY <1>2 DEF Tick, vars, streamVars, GeneratorKept
<1> QED
    BY <1>1, <1>2 DEF Next

LEMMA SameGenerators ==
    ASSUME TypeOK, UNCHANGED <<status, conn, arrived>>,
           \A d \in Calls : GenState(pc'[d], status[d]) = GenState(pc[d], status[d])
    PROVE  UNCHANGED Adapter!adapterVars
<1> HIDE DEF GenState
<1>1. UNCHANGED genOf
    BY DEF genOf
<1>2. UNCHANGED connectedOf
    BY DEF connectedOf
<1> QED
    BY <1>1, <1>2 DEF Adapter!adapterVars

LEMMA StepDrivesTheAdapter ==
    TypeOK /\ (\A c \in Calls : GeneratorKept(c)) /\ [Next]_vars
        => [Adapter!AdapterNext]_(Adapter!adapterVars)
<1> SUFFICES ASSUME TypeOK, \A c \in Calls : GeneratorKept(c), [Next]_vars
             PROVE  [Adapter!AdapterNext]_(Adapter!adapterVars)
    OBVIOUS
<1> DEFINE Same == UNCHANGED Adapter!adapterVars
<1> USE DEF GenOf, GenState, OverAs
<1>1. ASSUME NEW c \in Calls, Admit(c) PROVE Adapter!Start(c)
  <2>1. pc[c] = "new" /\ conn[c] = "none" /\ UNCHANGED arrived
    BY <1>1 DEF Admit, GeneratorKept
  <2>2. /\ genOf[c] = "created" /\ genOf' = [genOf EXCEPT ![c] = "running"]
        /\ connectedOf' = connectedOf \cup {c}
    BY <1>1, <2>1, OneGeneratorMoves, StepsMove
  <2> QED
    BY <2>1, <2>2 DEF Adapter!Start, Adapter!Become
<1>2. ASSUME NEW c \in Calls, Refuse(c) PROVE Same
  <2>1. pc[c] = "new" /\ conn[c] = "none" /\ UNCHANGED arrived
    BY <1>2 DEF Refuse, GeneratorKept
  <2>2. pc' = [pc EXCEPT ![c] = "refused"] /\ UNCHANGED <<status, conn>>
    BY <1>2 DEF Refuse, GoTo
  <2> QED
    BY <2>1, <2>2, SameGenerators DEF TypeOK
<1>3. ASSUME NEW c \in Calls, Pull(c) PROVE Adapter!Yield(c)
  <2>1. pc[c] = "pulling" /\ conn[c] = "open" /\ arrived' = [arrived EXCEPT ![c] = @ + 1]
    BY <1>3 DEF Pull, GeneratorKept
  <2>2. UNCHANGED connectedOf
    BY <1>3 DEF Pull, connectedOf
  <2> QED
    BY <1>3, <2>1, <2>2, OneGeneratorMoves, StepsMove DEF Adapter!Yield, Adapter!Become
<1>4. ASSUME NEW c \in Calls, Send(c) PROVE Same
  <2>1. pc[c] = "checking" /\ pc' = [pc EXCEPT ![c] = "yielding"]
        /\ UNCHANGED <<status, conn, arrived>>
    BY <1>4 DEF Send, GoTo
  <2> QED
    BY <2>1, SameGenerators DEF TypeOK
<1>5. ASSUME NEW c \in Calls, Resume(c) PROVE Adapter!Resume(c)
  <2>1. pc[c] = "yielding" /\ conn[c] = "open" /\ UNCHANGED arrived
    BY <1>5 DEF Resume, GeneratorKept
  <2>2. UNCHANGED connectedOf
    BY <1>5 DEF Resume, connectedOf
  <2> QED
    BY <1>5, <2>1, <2>2, OneGeneratorMoves, StepsMove DEF Adapter!Resume, Adapter!Become
<1>6. ASSUME NEW c \in Calls,
             pc[c] \in {"checking", "yielding"}, NEW how, Moves(c, "ended", how, "dropped"),
             UNCHANGED arrived
      PROVE  Adapter!Drop(c)
  <2>1. conn[c] = "open" /\ c \in connectedOf
    BY <1>6 DEF GeneratorKept, connectedOf
  <2> QED
    BY <1>6, <2>1, OneGeneratorMoves DEF Adapter!Drop, Adapter!Become
<1>7. ASSUME NEW c \in Calls, FindClientGone(c) PROVE Adapter!Drop(c)
    BY <1>6, <1>7, StepsMove DEF FindClientGone
<1>8. ASSUME NEW c \in Calls, pc[c] = "pulling", NEW label, NEW how,
             Moves(c, label, how, "closed"),
             label \in {"finishing", "erring", "ended"}, how \in Status,
             UNCHANGED arrived
      PROVE  Adapter!End(c)
  <2>1. conn[c] = "open"
    BY <1>8 DEF GeneratorKept
  <2>2. OverAs(how) \in Adapter!Ends
    BY <1>8 DEF Status, ProviderError, Adapter!Ends
  <2>3. genOf[c] = "running" /\ genOf' = [genOf EXCEPT ![c] = OverAs(how)]
        /\ connectedOf' = connectedOf \ {c}
    BY <1>8, <2>1, OneGeneratorMoves
  <2> HIDE DEF OverAs
  <2> QED
    BY <1>8, <2>2, <2>3 DEF Adapter!End, Adapter!Become
<1>9. ASSUME NEW c \in Calls, Complete(c) \/ ProviderFails(c) \/ Raise(c) PROVE Adapter!End(c)
  <2>1. pc[c] = "pulling" /\ UNCHANGED arrived
    BY <1>9 DEF Complete, ProviderFails, Raise
  <2> QED
    BY <1>8, <1>9, <2>1, StepsMove DEF Status, ProviderError
<1>10. ASSUME NEW c \in Calls, Cancel(c) PROVE Adapter!End(c) \/ Adapter!Drop(c)
  <2>1. pc[c] \in {"pulling", "checking"} /\ UNCHANGED arrived
    BY <1>10 DEF Cancel, Awaiting
  <2> QED
    BY <1>6, <1>8, <1>10, <2>1, StepsMove DEF Status
<1>11. ASSUME NEW c \in Calls, Close(c), pc[c] = "yielding" PROVE Adapter!Drop(c)
    BY <1>6, <1>11, StepsMove DEF Close
<1>12. ASSUME NEW c \in Calls, (Close(c) /\ pc[c] # "yielding") \/ Exhaust(c) PROVE Same
  <2>1. /\ pc[c] \in {"finishing", "erring"} /\ pc' = [pc EXCEPT ![c] = "ended"]
        /\ UNCHANGED <<status, conn, arrived>>
    BY <1>12 DEF Close, Exhaust, Finally, GoTo, Yielding
  <2> HIDE DEF OverAs
  <2> QED
    BY <2>1, SameGenerators DEF TypeOK
<1>13. ASSUME NEW c \in Calls, Finalize(c) PROVE Adapter!End(c)
  <2>1. conn[c] = "dropped" /\ status[c] = "cancelled" /\ pc[c] = "ended" /\ UNCHANGED arrived
    BY <1>13 DEF Finalize, GeneratorKept, TypeOK, PC, Awaiting, Yielding
  <2> QED
    BY <1>13, <2>1, OneGeneratorMoves, StepsMove DEF Adapter!End, Adapter!Become
<1>14. ASSUME Tick \/ UNCHANGED vars PROVE Same
  <2>1. UNCHANGED <<pc, status, conn, arrived>>
    BY <1>14 DEF Tick, vars, streamVars
  <2> QED
    BY <2>1, SameGenerators
<1> HIDE DEF Same
<1> QED
    BY <1>1, <1>2, <1>3, <1>4, <1>5, <1>7, <1>9, <1>10, <1>11, <1>12, <1>13, <1>14
    DEF Next, Advance, Consume, Adapter!AdapterNext, Same

\* Every stream drives the adapter's generator as the adapter's contract has it:
\* nothing is asked of a generator that was left or is over.
THEOREM StreamsDriveTheAdapterAsAgreed == Spec => DrivesTheAdapterAsAgreed
<1> DEFINE Kept == \A c \in Calls : GeneratorKept(c)
<1>1. Init => Kept
    BY DEF Init, GeneratorKept
<1>2. TypeOK /\ Kept /\ [Next]_vars => Kept'
    BY StepKeepsGenerators
<1>3. Init => Adapter!AdapterInit
    BY DEF Init, genOf, GenState, connectedOf, Adapter!AdapterInit
<1>4. TypeOK /\ Kept /\ [Next]_vars => [Adapter!AdapterNext]_(Adapter!adapterVars)
    BY StepDrivesTheAdapter
<1> HIDE DEF Kept
<1> QED
    BY <1>1, <1>2, <1>3, <1>4, TypeCorrectness, PTL
    DEF Spec, DrivesTheAdapterAsAgreed, Adapter!Spec
=============================================================================

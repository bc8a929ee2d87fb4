--------------------------- MODULE RateLimiter_proof ---------------------------
(***************************************************************************)
(* Theorems about the rate limiter, for any limit, window and delay and    *)
(* any finite number of requests, with connection errors and crashes.      *)
(*                                                                         *)
(* The argument for the limit: an entry is evicted by a transaction with a *)
(* clock at least a window later, or expires with the key a window after   *)
(* the last transaction (EntriesAreTrue).  Either way the request it       *)
(* stands for is a window old by the real clock (AllowedAreCounted).  A    *)
(* transaction executed within MaxDelay of its own clock therefore still   *)
(* finds every request let through in the last Window - MaxDelay.          *)
(*                                                                         *)
(* The argument for Retry-After: no transaction leaves a gap between the   *)
(* entries of those let through (EntriesAreGapless), so the entry whose    *)
(* end a declined request is told to wait for has at most Limit of them    *)
(* behind it, itself included (ToldWithReason).  Once it is out of the     *)
(* window there is room.                                                   *)
(***************************************************************************)
EXTENDS RateLimiter, FiniteSetTheorems, WellFoundedInduction, TLAPS

\* The requests behind the entries of a set.
RequestsOf(es) == {e.req : e \in es}

\* A set has no fewer entries than requests.
LEMMA EntriesBoundRequests ==
    ASSUME NEW es, IsFiniteSet(es)
    PROVE  /\ IsFiniteSet(RequestsOf(es))
           /\ Cardinality(RequestsOf(es)) <= Cardinality(es)
<1> DEFINE f == [e \in es |-> e.req]
<1>1. f \in Surjection(es, RequestsOf(es))
    BY DEF Surjection, RequestsOf
<1> QED
    BY <1>1, FS_Surjection

LEMMA SmallerSet ==
    ASSUME NEW S, IsFiniteSet(S), NEW T, T \subseteq S
    PROVE  /\ IsFiniteSet(T)
           /\ Cardinality(T) \in Nat
           /\ Cardinality(S) \in Nat
           /\ Cardinality(T) <= Cardinality(S)
    BY FS_Subset, FS_CardinalityType

\* A set of entries that is not empty has an oldest one.
LEMMA OldestExists ==
    ASSUME NEW es, es \subseteq Entry, es # {}
    PROVE  \E e \in es : \A f \in es : e.at <= f.at
<1> DEFINE times == {e.at : e \in es}
<1>1. times \subseteq Nat /\ times # {}
    BY DEF Entry
<1> DEFINE below == {0 .. t : t \in times}
<1>2. below \subseteq FiniteSubsetsOf(Nat) /\ below # {}
  <2>1. ASSUME NEW t \in times PROVE 0 .. t \in FiniteSubsetsOf(Nat)
    <3>1. 0 \in Int /\ t \in Int
        BY <1>1
    <3>2. IsFiniteSet(0 .. t)
        BY <3>1, FS_Interval
    <3>3. 0 .. t \subseteq Nat
        OBVIOUS
    <3> QED
        BY <3>2, <3>3 DEF FiniteSubsetsOf
  <2> QED
    BY <1>1, <2>1
<1>3. PICK b \in below : \A c \in below : ~ (<<c, b>> \in StrictSubsetOrdering(Nat))
    BY <1>2, FS_StrictSubsetOrderingWellFounded, WFMin
<1>4. PICK t \in times : b = 0 .. t
    OBVIOUS
<1>5. \A u \in times : t <= u
  <2> SUFFICES ASSUME NEW u \in times, ~ (t <= u) PROVE FALSE
    OBVIOUS
  <2>1. t \in Nat /\ u \in Nat
    BY <1>1
  <2>2. 0 .. u \subseteq 0 .. t /\ 0 .. t \subseteq Nat
    BY <2>1
  <2>3. t \in 0 .. t /\ t \notin 0 .. u
    BY <2>1
  <2>4. <<0 .. u, b>> \in StrictSubsetOrdering(Nat)
    BY <1>4, <2>2, <2>3 DEF StrictSubsetOrdering
  <2> QED
    BY <1>3, <2>4
<1>6. PICK e \in es : e.at = t
    BY <1>4
<1>7. ASSUME NEW f \in es PROVE e.at <= f.at
  <2>1. f.at \in times /\ f.at \in Nat /\ t \in Nat
    BY <1>1
  <2> QED
    BY <1>5, <1>6, <2>1
<1> QED
    BY <1>7

-----------------------------------------------------------------------------
(* What the transaction of a check finds and tells.                         *)

LEMMA KeptEntries ==
    ASSUME TypeOK, NEW r \in Requests, stamp[r] \in Nat
    PROVE  /\ Mine(r) \in Kept(r)
           /\ Kept(r) \subseteq Entry
           /\ IsFiniteSet(Kept(r))
           /\ Cardinality(Kept(r)) \in Nat
<1>1. Mine(r) \in Entry
    BY DEF Mine, Entry
<1>2. Kept(r) \subseteq entries \cup {Mine(r)}
    BY DEF Kept
<1>3. IsFiniteSet(entries \cup {Mine(r)})
    BY FS_AddElement DEF TypeOK
<1>4. Mine(r) \in Kept(r)
    BY LimiterAssumption DEF Kept, Mine, InWindow
<1> QED
    BY <1>1, <1>2, <1>3, <1>4, SmallerSet DEF TypeOK

\* Who is declined is told to wait, for a window at most.
LEMMA ResetIsWithinAWindow ==
    ASSUME TypeOK, NEW r \in Requests, stamp[r] \in Nat
    PROVE  ResetAfter(r) \in 1 .. Window
<1>1. PICK e \in Kept(r) : \A f \in Kept(r) : e.at <= f.at
    BY KeptEntries, OldestExists
<1>2. Oldest(r) \in Kept(r) /\ \A f \in Kept(r) : Oldest(r).at <= f.at
    BY <1>1 DEF Oldest
<1>3. Oldest(r).at <= stamp[r]
    BY <1>2, KeptEntries DEF Mine
<1>4. Oldest(r).at \in Nat /\ Oldest(r).at > stamp[r] - Window
    BY <1>2, KeptEntries DEF Kept, InWindow, Entry
<1> QED
    BY <1>3, <1>4, LimiterAssumption DEF ResetAfter

-----------------------------------------------------------------------------
(* TypeOK.                                                                  *)

LEMMA InitTypeOK == Init => TypeOK
    BY LimiterAssumption, FS_EmptySet DEF Init, TypeOK, PC, Suspended

LEMMA StepTypeOK == TypeOK /\ [Next]_vars => TypeOK'
<1> SUFFICES ASSUME TypeOK, [Next]_vars PROVE TypeOK'
    OBVIOUS
<1> USE LimiterAssumption
<1>1. ASSUME NEW r \in Requests, Check(r) PROVE TypeOK'
    BY <1>1 DEF TypeOK, Check, GoTo, redisVars, PC, Suspended
<1>2. ASSUME NEW r \in Requests, Count(r) PROVE TypeOK'
  <2>1. stamp[r] \in Nat
    BY <1>2 DEF Count, TypeOK
  <2>2. entries' \subseteq Entry /\ IsFiniteSet(entries') /\ expires' \in Nat
    BY <1>2, <2>1, KeptEntries DEF Count, Pipeline, TypeOK
  <2>3. ResetAfter(r) \in 1 .. Window
    BY <2>1, ResetIsWithinAWindow
  <2>4. PICK n \in 1 .. Window : reset' = [reset EXCEPT ![r] = n]
    BY <1>2, <2>3 DEF Count
  <2>5. PICK label \in {"allowed", "removing"} : pc' = [pc EXCEPT ![r] = label]
    BY <1>2 DEF Count, GoTo
  <2> QED
    BY <1>2, <2>1, <2>2, <2>4, <2>5 DEF Count, TypeOK, PC, Suspended
<1>3. ASSUME NEW r \in Requests, CountFails(r) PROVE TypeOK'
  <2>1. stamp[r] \in Nat
    BY <1>3 DEF CountFails, TypeOK
  <2>2. entries' \subseteq Entry /\ IsFiniteSet(entries') /\ expires' \in Nat
    BY <1>3, <2>1, KeptEntries DEF CountFails, Pipeline, TypeOK, redisVars
  <2> QED
    BY <1>3, <2>1, <2>2 DEF CountFails, Fault, GoTo, TypeOK, PC, Suspended
<1>4. ASSUME NEW r \in Requests, Remove(r) PROVE TypeOK'
  <2>1. entries' \subseteq Entry /\ IsFiniteSet(entries')
    BY <1>4, SmallerSet DEF Remove, TypeOK
  <2> QED
    BY <1>4, <2>1 DEF Remove, GoTo, TypeOK, PC, Suspended
<1>5. ASSUME NEW r \in Requests, RemoveFails(r) PROVE TypeOK'
  <2>1. entries' \subseteq Entry /\ IsFiniteSet(entries')
    BY <1>5, SmallerSet DEF RemoveFails, TypeOK
  <2> QED
    BY <1>5, <2>1 DEF RemoveFails, Fault, GoTo, TypeOK, PC, Suspended
<1>6. CASE Crash
    BY <1>6 DEF Crash, Fault, TypeOK, redisVars, PC, Suspended
<1>7. CASE Tick
  <2>1. entries' \subseteq Entry /\ IsFiniteSet(entries')
    BY <1>7, FS_EmptySet DEF Tick, TypeOK
  <2> QED
    BY <1>7, <2>1 DEF Tick, TypeOK, checkVars, PC, Suspended
<1>8. CASE UNCHANGED vars
    BY <1>8 DEF vars, redisVars, checkVars, TypeOK
<1> QED
    BY <1>1, <1>2, <1>3, <1>4, <1>5, <1>6, <1>7, <1>8 DEF Next

\* Every variable of the limiter keeps its type; in particular a declined request
\* is told a retry time of more than nothing and a window at most.
THEOREM TypeCorrectness == Spec => []TypeOK
    BY InitTypeOK, StepTypeOK, PTL DEF Spec

-----------------------------------------------------------------------------
(* The inductive invariant.                                                 *)

LEMMA InitEstablishesInv == Init => LimiterInv
<1> SUFFICES ASSUME Init PROVE LimiterInv
    OBVIOUS
<1>1. \A t \in Nat : AllowedIn(t, Window - MaxDelay) = {}
    BY DEF Init, AllowedIn
<1>2. \A t \in Nat : Cardinality(AllowedIn(t, Window - MaxDelay)) <= Limit
    BY <1>1, FS_EmptySet, LimiterAssumption
<1> QED
    BY <1>2, InitTypeOK DEF Init, LimiterInv, EntriesAreTrue, ChecksAreOnTime, AllowedAreCounted

\* A transaction adds its own entry and drops entries a window older than its
\* clock, which is not ahead of the real one.
LEMMA PipelineKeepsEntries ==
    ASSUME LimiterInv, NEW r \in Requests, pc[r] = "counting", Pipeline(r),
           now' = now, stamp' = stamp,
           pc' \in [Requests -> PC], Counted(r)',
           \A x \in Requests \ {r} : pc'[x] = pc[x]
    PROVE  /\ EntriesAreTrue'
           /\ Mine(r) \in entries'
           /\ \A x \in Requests \ {r} :
                pc'[x] = "allowed" /\ now' < stamp'[x] + Window => Mine(x)' \in entries'
<1>1. stamp[r] \in Nat /\ stamp[r] <= now /\ now \in Nat
    BY DEF LimiterInv, TypeOK, ChecksAreOnTime
<1>2. Mine(r) \in Entry /\ Mine(r).req = r /\ Mine(r).at = stamp[r]
    BY <1>1 DEF Mine, Entry
<1>3. Mine(r) \in entries'
    BY <1>1, KeptEntries DEF Pipeline, LimiterInv
<1>4. ASSUME NEW e \in entries'
      PROVE  Counted(e.req)' /\ e.at = stamp'[e.req] /\ e.at + Window <= expires'
  <2>1. CASE e = Mine(r)
    BY <1>1, <1>2, <2>1, LimiterAssumption DEF Pipeline
  <2>2. CASE e # Mine(r)
    <3>1. e \in entries /\ e.req \in Requests /\ e.at \in Nat
        BY <2>2 DEF Pipeline, Kept, LimiterInv, TypeOK, Entry
    <3>2. Counted(e.req) /\ e.at = stamp[e.req] /\ e.req # r
        BY <3>1 DEF LimiterInv, EntriesAreTrue, Counted
    <3>3. e.at <= now
        BY <3>1, <3>2 DEF LimiterInv, ChecksAreOnTime, Counted
    <3> QED
        BY <1>1, <3>1, <3>2, <3>3, LimiterAssumption DEF Counted, Pipeline
  <2> QED
    BY <2>1, <2>2
<1>5. ASSUME NEW x \in Requests \ {r}, pc'[x] = "allowed", now' < stamp'[x] + Window
      PROVE  Mine(x)' \in entries'
  <2>1. Mine(x) \in entries /\ stamp[x] \in Nat
    BY <1>5 DEF LimiterInv, AllowedAreCounted, TypeOK
  <2>2. InWindow(Mine(x).at, stamp[r])
    BY <1>1, <1>5, <2>1, LimiterAssumption DEF InWindow, Mine
  <2> QED
    BY <2>1, <2>2 DEF Pipeline, Kept, Mine
<1> QED
    BY <1>3, <1>4, <1>5 DEF EntriesAreTrue

\* A step that lets nobody through takes nobody in.
LEMMA NobodyLetThrough ==
    ASSUME LimiterInv, \A x \in Requests : pc'[x] = "allowed" => pc[x] = "allowed" /\ stamp'[x] = stamp[x]
    PROVE  (\A t \in Nat : Cardinality(AllowedIn(t, Window - MaxDelay)) <= Limit)'
<1> SUFFICES ASSUME NEW t \in Nat
             PROVE  Cardinality(AllowedIn(t, Window - MaxDelay)') <= Limit
    OBVIOUS
<1>1. AllowedIn(t, Window - MaxDelay)' \subseteq AllowedIn(t, Window - MaxDelay)
    BY DEF AllowedIn
<1>2. IsFiniteSet(AllowedIn(t, Window - MaxDelay))
    BY SmallerSet, LimiterAssumption DEF AllowedIn
<1>3. Cardinality(AllowedIn(t, Window - MaxDelay)) <= Limit
    BY DEF LimiterInv
<1> QED
    BY <1>1, <1>2, <1>3, SmallerSet, LimiterAssumption

\* The step that lets a request through: its transaction has just counted everybody
\* who was let through in the last Window - MaxDelay, itself included.
LEMMA OneLetThrough ==
    ASSUME LimiterInv, NEW r \in Requests, Count(r), WithinLimit(Cardinality(Kept(r)))
    PROVE  (\A t \in Nat : Cardinality(AllowedIn(t, Window - MaxDelay)) <= Limit)'
<1> SUFFICES ASSUME NEW t \in Nat
             PROVE  Cardinality(AllowedIn(t, Window - MaxDelay)') <= Limit
    OBVIOUS
<1> DEFINE length == Window - MaxDelay
<1>1. /\ pc[r] = "counting" /\ stamp[r] \in Nat /\ now \in Nat
      /\ stamp[r] <= now /\ now <= stamp[r] + MaxDelay
    BY DEF Count, LimiterInv, TypeOK, ChecksAreOnTime
<1>2. pc' = [pc EXCEPT ![r] = "allowed"] /\ stamp' = stamp
    BY DEF Count, GoTo
<1>3. length \in Int
    BY LimiterAssumption
<1>4. CASE stamp[r] <= t /\ t - length < stamp[r]
  <2>1. ASSUME NEW x \in AllowedIn(t, length)' PROVE x \in RequestsOf(Kept(r))
    <3>1. CASE x = r
      <4>1. Mine(r) \in Kept(r)
        BY <1>1, KeptEntries DEF LimiterInv
      <4> QED
        BY <3>1, <4>1 DEF RequestsOf, Mine
    <3>2. CASE x # r
      <4>1. /\ x \in Requests /\ pc[x] = "allowed" /\ stamp[x] \in Nat
            /\ stamp[x] <= t /\ t - length < stamp[x]
        BY <1>2, <2>1, <3>2 DEF AllowedIn, LimiterInv, TypeOK
      <4>2. now < stamp[x] + Window
        BY <1>1, <1>4, <4>1, LimiterAssumption
      <4>3. Mine(x) \in entries
        BY <4>1, <4>2 DEF LimiterInv, AllowedAreCounted
      <4>4. InWindow(Mine(x).at, stamp[r])
        BY <1>1, <4>1, <4>2, LimiterAssumption DEF InWindow, Mine
      <4> QED
        BY <4>3, <4>4 DEF Kept, RequestsOf, Mine
    <3> QED
      BY <3>1, <3>2
  <2>2. IsFiniteSet(Kept(r)) /\ Cardinality(Kept(r)) \in Nat
    BY <1>1, KeptEntries DEF LimiterInv
  <2>3. /\ IsFiniteSet(RequestsOf(Kept(r)))
        /\ Cardinality(RequestsOf(Kept(r))) <= Cardinality(Kept(r))
    BY <2>2, EntriesBoundRequests
  <2>4. /\ Cardinality(AllowedIn(t, length)') \in Nat
        /\ Cardinality(RequestsOf(Kept(r))) \in Nat
        /\ Cardinality(AllowedIn(t, length)') <= Cardinality(RequestsOf(Kept(r)))
    BY <2>1, <2>3, SmallerSet
  <2>5. Cardinality(Kept(r)) <= Limit
    BY DEF WithinLimit
  <2> QED
    BY <2>2, <2>3, <2>4, <2>5, LimiterAssumption
<1>5. CASE ~ (stamp[r] <= t /\ t - length < stamp[r])
  <2>1. AllowedIn(t, length)' = AllowedIn(t, length)
    BY <1>1, <1>2, <1>5 DEF AllowedIn, LimiterInv, TypeOK
  <2> QED
    BY <2>1 DEF LimiterInv
<1> QED
    BY <1>4, <1>5

LEMMA StepPreservesInv == LimiterInv /\ [Next]_vars => LimiterInv'
<1> SUFFICES ASSUME LimiterInv, [Next]_vars PROVE LimiterInv'
    OBVIOUS
<1>0. TypeOK /\ TypeOK'
    BY StepTypeOK DEF LimiterInv
<1>1. ASSUME NEW r \in Requests, Check(r) PROVE LimiterInv'
  <2>1. EntriesAreTrue'
    BY <1>0, <1>1 DEF Check, GoTo, redisVars, LimiterInv, EntriesAreTrue, Counted, TypeOK, Entry
  <2>2. ChecksAreOnTime'
    BY <1>0, <1>1, LimiterAssumption DEF Check, GoTo, LimiterInv, ChecksAreOnTime, TypeOK
  <2>3. AllowedAreCounted'
    BY <1>0, <1>1 DEF Check, GoTo, redisVars, LimiterInv, AllowedAreCounted, TypeOK, Mine
  <2>4. \A x \in Requests : pc'[x] = "allowed" => pc[x] = "allowed" /\ stamp'[x] = stamp[x]
    BY <1>0, <1>1 DEF Check, GoTo, TypeOK
  <2> QED
    BY <1>0, <2>1, <2>2, <2>3, <2>4, NobodyLetThrough DEF LimiterInv
<1>2. ASSUME NEW r \in Requests, Count(r) PROVE LimiterInv'
  <2>1. /\ pc[r] = "counting" /\ Pipeline(r) /\ now' = now /\ stamp' = stamp
        /\ pc' \in [Requests -> PC] /\ Counted(r)'
        /\ \A x \in Requests \ {r} : pc'[x] = pc[x]
    BY <1>0, <1>2 DEF Count, GoTo, Counted, TypeOK
  <2>2. EntriesAreTrue'
    BY <2>1, PipelineKeepsEntries
  <2>3. ChecksAreOnTime'
    BY <1>0, <1>2 DEF Count, GoTo, LimiterInv, ChecksAreOnTime, TypeOK
  <2>4. AllowedAreCounted'
    <3>1. Mine(r)' \in entries'
      BY <2>1, PipelineKeepsEntries DEF Mine
    <3>2. \A x \in Requests \ {r} :
            pc'[x] = "allowed" /\ now' < stamp'[x] + Window => Mine(x)' \in entries'
      BY <2>1, PipelineKeepsEntries
    <3> QED
      BY <3>1, <3>2 DEF AllowedAreCounted
  <2>5. (\A t \in Nat : Cardinality(AllowedIn(t, Window - MaxDelay)) <= Limit)'
    <3>1. CASE WithinLimit(Cardinality(Kept(r)))
      BY <1>2, <3>1, OneLetThrough
    <3>2. CASE ~ WithinLimit(Cardinality(Kept(r)))
      <4>1. \A x \in Requests : pc'[x] = "allowed" => pc[x] = "allowed" /\ stamp'[x] = stamp[x]
        BY <1>0, <1>2, <3>2 DEF Count, GoTo, TypeOK
      <4> QED
        BY <4>1, NobodyLetThrough
    <3> QED
      BY <3>1, <3>2
  <2> QED
    BY <1>0, <2>2, <2>3, <2>4, <2>5 DEF LimiterInv
<1>3. ASSUME NEW r \in Requests, CountFails(r) PROVE LimiterInv'
  <2>1. /\ pc[r] = "counting" /\ now' = now /\ stamp' = stamp
        /\ pc' = [pc EXCEPT ![r] = "failed"] /\ Counted(r)'
        /\ pc' \in [Requests -> PC] /\ \A x \in Requests \ {r} : pc'[x] = pc[x]
    BY <1>0, <1>3 DEF CountFails, GoTo, Counted, TypeOK
  <2>2. EntriesAreTrue' /\ AllowedAreCounted'
    <3>1. CASE UNCHANGED redisVars
      BY <1>0, <2>1, <3>1
      DEF redisVars, LimiterInv, EntriesAreTrue, AllowedAreCounted, Counted, TypeOK, Entry, Mine
    <3>2. CASE Pipeline(r)
      <4>1. EntriesAreTrue'
        BY <2>1, <3>2, PipelineKeepsEntries
      <4>2. \A x \in Requests \ {r} :
              pc'[x] = "allowed" /\ now' < stamp'[x] + Window => Mine(x)' \in entries'
        BY <2>1, <3>2, PipelineKeepsEntries
      <4>3. pc'[r] # "allowed"
        BY <1>0, <2>1 DEF TypeOK
      <4> QED
        BY <4>1, <4>2, <4>3 DEF AllowedAreCounted
    <3> QED
      BY <1>3, <3>1, <3>2 DEF CountFails
  <2>3. ChecksAreOnTime'
    BY <1>0, <2>1 DEF LimiterInv, ChecksAreOnTime, TypeOK
  <2>4. \A x \in Requests : pc'[x] = "allowed" => pc[x] = "allowed" /\ stamp'[x] = stamp[x]
    BY <1>0, <2>1 DEF TypeOK
  <2> QED
    BY <1>0, <2>2, <2>3, <2>4, NobodyLetThrough DEF LimiterInv
<1>4. ASSUME NEW r \in Requests, pc[r] = "removing",
             \E label \in {"declined", "failed"} : GoTo(r, label),
             entries' = entries \/ entries' = entries \ {Mine(r)},
             pc'[r] = "declined" => Mine(r) \notin entries',
             UNCHANGED <<now, expires, stamp>>
      PROVE  LimiterInv'
  <2>1. \A x \in Requests \ {r} : pc'[x] = pc[x]
    BY <1>0, <1>4 DEF GoTo, TypeOK
  <2>2. pc'[r] \in {"declined", "failed"}
    BY <1>0, <1>4 DEF GoTo, TypeOK
  <2>3. EntriesAreTrue'
    <3> SUFFICES ASSUME NEW e \in entries'
                 PROVE  Counted(e.req)' /\ e.at = stamp'[e.req] /\ e.at + Window <= expires'
      BY DEF EntriesAreTrue
    <3>1. /\ e \in entries /\ e \in Entry /\ Counted(e.req) /\ e.at = stamp[e.req]
          /\ e.at + Window <= expires
      BY <1>0, <1>4 DEF LimiterInv, EntriesAreTrue, TypeOK
    <3>2. e.req = r => e = Mine(r)
      BY <3>1 DEF Entry, Mine
    <3> QED
      BY <1>4, <2>1, <2>2, <3>1, <3>2 DEF Counted, Entry
  <2>4. ChecksAreOnTime'
    BY <1>0, <1>4, <2>1, <2>2 DEF LimiterInv, ChecksAreOnTime
  <2>5. AllowedAreCounted'
    BY <1>0, <1>4, <2>1, <2>2 DEF LimiterInv, AllowedAreCounted, Mine
  <2>6. \A x \in Requests : pc'[x] = "allowed" => pc[x] = "allowed" /\ stamp'[x] = stamp[x]
    BY <1>4, <2>1, <2>2
  <2> QED
    BY <1>0, <2>3, <2>4, <2>5, <2>6, NobodyLetThrough DEF LimiterInv
<1>5. ASSUME NEW r \in Requests, Remove(r) PROVE LimiterInv'
  <2>1. Mine(r) \notin entries' /\ UNCHANGED <<now, expires, stamp>>
    BY <1>5 DEF Remove
  <2> QED
    BY <1>4, <1>5, <2>1 DEF Remove
<1>6. ASSUME NEW r \in Requests, RemoveFails(r) PROVE LimiterInv'
  <2>1. pc'[r] # "declined" /\ UNCHANGED <<now, expires, stamp>>
    BY <1>0, <1>6 DEF RemoveFails, GoTo, TypeOK
  <2> QED
    BY <1>4, <1>6, <2>1 DEF RemoveFails
<1>7. CASE Crash
  <2>1. \A x \in Requests : /\ pc'[x] = "allowed" <=> pc[x] = "allowed"
                            /\ Counted(x) => Counted(x)'
                            /\ pc'[x] # "counting" /\ (pc'[x] # "new" => pc[x] # "new")
    BY <1>0, <1>7 DEF Crash, TypeOK, Counted, Suspended
  <2>2. EntriesAreTrue'
    BY <1>0, <1>7, <2>1 DEF Crash, redisVars, LimiterInv, EntriesAreTrue, TypeOK, Entry
  <2>3. ChecksAreOnTime' /\ AllowedAreCounted'
    BY <1>0, <1>7, <2>1
    DEF Crash, redisVars, LimiterInv, ChecksAreOnTime, AllowedAreCounted, Mine
  <2> QED
    BY <1>0, <1>7, <2>1, <2>2, <2>3, NobodyLetThrough DEF LimiterInv, Crash
<1>8. CASE Tick
  <2>1. now \in Nat /\ now' = now + 1 /\ UNCHANGED <<expires, pc, stamp>> /\ expires \in Nat
    BY <1>0, <1>8 DEF Tick, checkVars, TypeOK
  <2>2. EntriesAreTrue'
    BY <1>8, <2>1 DEF Tick, LimiterInv, EntriesAreTrue, Counted
  <2>3. ChecksAreOnTime'
    BY <1>0, <1>8, <2>1, LimiterAssumption DEF Tick, LimiterInv, ChecksAreOnTime, TypeOK
  <2>4. AllowedAreCounted'
    <3> SUFFICES ASSUME NEW x \in Requests, pc[x] = "allowed", now + 1 < stamp[x] + Window
                 PROVE  Mine(x) \in entries'
      BY <2>1 DEF AllowedAreCounted, Mine
    <3>1. stamp[x] \in Nat /\ Mine(x) \in entries
      BY <1>0, <2>1, LimiterAssumption DEF LimiterInv, AllowedAreCounted, TypeOK
    <3>2. stamp[x] + Window <= expires
      BY <3>1 DEF LimiterInv, EntriesAreTrue, Mine
    <3>3. ~ (expires <= now + 1)
      BY <2>1, <3>1, <3>2, LimiterAssumption
    <3> QED
      BY <1>8, <3>1, <3>3 DEF Tick
  <2> QED
    BY <1>0, <2>1, <2>2, <2>3, <2>4, NobodyLetThrough DEF LimiterInv
<1>9. CASE UNCHANGED vars
  <2>1. UNCHANGED <<now, entries, expires, pc, stamp>>
    BY <1>9 DEF vars, redisVars, checkVars
  <2> QED
    BY <1>0, <2>1, NobodyLetThrough
    DEF LimiterInv, EntriesAreTrue, ChecksAreOnTime, AllowedAreCounted, Counted, Mine
<1> QED
    BY <1>1, <1>2, <1>3, <1>5, <1>6, <1>7, <1>8, <1>9 DEF Next

\* The inductive invariant holds in every reachable state.
THEOREM LimiterInvariant == Spec => []LimiterInv
    BY InitEstablishesInv, StepPreservesInv, PTL DEF Spec

\* No stretch of a window less the longest delay lets more than Limit requests of
\* the client through, whatever overtakes what and whatever fails.
THEOREM TheLimitHolds == Spec => []LimitHoldsUpToTheDelay
<1>1. LimiterInv => LimitHoldsUpToTheDelay
    BY DEF LimiterInv, LimitHoldsUpToTheDelay, TypeOK
<1> QED
    BY <1>1, LimiterInvariant, PTL

\* A request that was let through is counted for a whole window.
THEOREM AllowedRequestsCount == Spec => []AllowedAreCounted
<1>1. LimiterInv => AllowedAreCounted
    BY DEF LimiterInv
<1> QED
    BY <1>1, LimiterInvariant, PTL

\* Who is declined is declined for Limit others inside its window, none of whom has
\* been declined before: behind each entry it counted stands another request.
THEOREM DeclinedForACause == Spec => DeclinesHaveACause
<1>1. LimiterInv /\ [Next]_vars => [\A r \in Requests : DeclinedWithCause(r)]_vars
  <2> SUFFICES ASSUME LimiterInv, Next, NEW r \in Requests,
                      pc[r] = "counting", pc'[r] = "removing"
               PROVE  Cardinality({x \in Requests \ {r} :
                          Counted(x) /\ InWindow(stamp[x], stamp[r])}) >= Limit
    BY DEF DeclinedWithCause
  <2> DEFINE others == {x \in Requests \ {r} : Counted(x) /\ InWindow(stamp[x], stamp[r])}
  <2>1. Count(r)
    BY DEF Next, Check, Count, CountFails, Remove, RemoveFails, Crash, Tick, GoTo, Suspended,
           checkVars, LimiterInv, TypeOK
  <2>2. ~ WithinLimit(Cardinality(Kept(r)))
    BY <2>1 DEF Count, GoTo, LimiterInv, TypeOK
  <2>3. /\ stamp[r] \in Nat /\ Mine(r) \in Kept(r) /\ Kept(r) \subseteq Entry
        /\ IsFiniteSet(Kept(r)) /\ Cardinality(Kept(r)) \in Nat
    BY KeptEntries DEF LimiterInv, TypeOK
  <2> DEFINE es == Kept(r) \ {Mine(r)}
  <2>4. IsFiniteSet(es) /\ Cardinality(es) = Cardinality(Kept(r)) - 1
    BY <2>3, FS_RemoveElement
  <2>5. ASSUME NEW e \in es PROVE e.req \in others /\ e = Mine(e.req)
    <3>1. /\ e \in entries /\ e \in Entry /\ Counted(e.req) /\ e.at = stamp[e.req]
          /\ InWindow(e.at, stamp[r])
      BY <2>3 DEF Kept, LimiterInv, EntriesAreTrue
    <3>2. e = Mine(e.req)
      BY <3>1 DEF Mine, Entry
    <3> QED
      BY <3>1, <3>2 DEF Entry
  <2> DEFINE f == [e \in es |-> e.req]
  <2>6. f \in Injection(es, others)
    BY <2>5 DEF Injection, IsInjective
  <2>7. IsFiniteSet(others) /\ Cardinality(others) \in Nat
    BY SmallerSet, LimiterAssumption
  <2>8. Cardinality(es) <= Cardinality(others)
    BY <2>6, <2>7, FS_Injection
  <2> QED
    BY <2>2, <2>3, <2>4, <2>7, <2>8, LimiterAssumption DEF WithinLimit
<1> QED
    BY <1>1, LimiterInvariant, PTL DEF Spec, DeclinesHaveACause

-----------------------------------------------------------------------------
(* Waiting is rewarded.                                                     *)

LEMMA InitEstablishesReward == Init => RewardInv
<1> SUFFICES ASSUME Init PROVE RewardInv
    OBVIOUS
<1>1. AllowedEntries = {}
    BY DEF Init, AllowedEntries
<1>2. Cardinality(AllowedEntries) <= Limit
    BY <1>1, FS_EmptySet, LimiterAssumption
<1>3. VictimsHaveFaults /\ TransactionsAreOnTime /\ EntriesAreGapless
    BY DEF Init, VictimsHaveFaults, TransactionsAreOnTime, EntriesAreGapless, Waited
<1>4. \A d \in Requests : ~ Waited(d)
    BY DEF Init, Waited
<1> QED
    BY <1>2, <1>3, <1>4, InitEstablishesInv DEF RewardInv

\* What a step does to one request, whatever the step.
LEMMA StepOfARequest ==
    ASSUME TypeOK, [Next]_vars
    PROVE  \/ \E r \in Requests :
                /\ \A x \in Requests \ {r} : pc'[x] = pc[x] /\ stamp'[x] = stamp[x] /\ ran'[x] = ran[x] /\ reset'[x] = reset[x]
                /\ Check(r) \/ Count(r) \/ CountFails(r) \/ Remove(r) \/ RemoveFails(r)
           \/ Crash
           \/ Tick
           \/ UNCHANGED vars
<1>1. ASSUME NEW r \in Requests, Check(r) \/ Count(r) \/ CountFails(r) \/ Remove(r) \/ RemoveFails(r)
      PROVE  \A x \in Requests \ {r} : pc'[x] = pc[x] /\ stamp'[x] = stamp[x] /\ ran'[x] = ran[x] /\ reset'[x] = reset[x]
    BY <1>1 DEF Check, Count, CountFails, Remove, RemoveFails, GoTo, TypeOK
<1> QED
    BY <1>1 DEF Next

LEMMA StepKeepsVictims ==
    ASSUME RewardInv, [Next]_vars
    PROVE  VictimsHaveFaults'
<1>1. TypeOK /\ VictimsHaveFaults /\ faults \in Nat
    BY DEF RewardInv, LimiterInv, TypeOK
<1>2. ASSUME NEW r \in Requests, Check(r) \/ Count(r) \/ Remove(r) PROVE VictimsHaveFaults'
  <2>1. pc'[r] \notin {"failed", "lost"} /\ faults' = faults
    BY <1>1, <1>2 DEF Check, Count, Remove, GoTo, TypeOK
  <2>2. \A x \in Requests \ {r} : pc'[x] = pc[x]
    BY <1>1, <1>2 DEF Check, Count, Remove, GoTo, TypeOK
  <2> QED
    BY <1>1, <2>1, <2>2 DEF VictimsHaveFaults
<1>3. ASSUME faults' = faults + 1 PROVE VictimsHaveFaults'
    BY <1>1, <1>3 DEF VictimsHaveFaults
<1>4. CASE Tick \/ UNCHANGED vars
    BY <1>1, <1>4 DEF Tick, checkVars, vars, VictimsHaveFaults
<1> QED
    BY <1>2, <1>3, <1>4 DEF Next, CountFails, RemoveFails, Crash, Fault

LEMMA StepIsOnTime ==
    ASSUME RewardInv, [Next]_vars
    PROVE  TransactionsAreOnTime'
<1>1. TypeOK /\ TransactionsAreOnTime /\ ChecksAreOnTime /\ now \in Nat /\ expires \in Nat
    BY DEF RewardInv, LimiterInv, TypeOK
<1> USE LimiterAssumption
<1>2. ASSUME NEW r \in Requests, Check(r) \/ CountFails(r) \/ RemoveFails(r) \/ Remove(r)
      PROVE  TransactionsAreOnTime'
  <2>1. pc[r] = "removing" \/ ~ Waited(r)'
    BY <1>1, <1>2 DEF Check, CountFails, RemoveFails, Remove, GoTo, Waited, TypeOK
  <2>2. now' = now /\ pc'[r] # "removing" /\ (pc[r] = "removing" => stamp' = stamp) /\ ran' = ran
    BY <1>1, <1>2 DEF Check, CountFails, RemoveFails, Remove, GoTo, TypeOK
  <2>3. \A x \in Requests \ {r} : pc'[x] = pc[x] /\ stamp'[x] = stamp[x]
    BY <1>1, <1>2 DEF Check, CountFails, RemoveFails, Remove, GoTo, TypeOK
  <2>4. expires' = expires \/ expires' = now + Window
    BY <1>2 DEF Check, CountFails, RemoveFails, Remove, redisVars, Pipeline
  <2>5. \A x \in Requests : Waited(x) => ran[x] \in Nat /\ ran[x] <= now /\ ran[x] + Window <= expires
    BY <1>1 DEF TransactionsAreOnTime, Waited, TypeOK
  <2>6. \A x \in Requests : Waited(x) => ran[x] + Window <= expires'
    BY <1>1, <2>4, <2>5
  <2> QED
    BY <1>1, <2>1, <2>2, <2>3, <2>6 DEF TransactionsAreOnTime, Waited
<1>3. ASSUME NEW r \in Requests, Count(r) PROVE TransactionsAreOnTime'
  <2>1. /\ stamp[r] \in Nat /\ stamp[r] <= now /\ now <= stamp[r] + MaxDelay
        /\ now' = now /\ stamp' = stamp /\ ran'[r] = now /\ expires' = now + Window
    BY <1>1, <1>3 DEF Count, Pipeline, ChecksAreOnTime, TypeOK
  <2>2. \A x \in Requests \ {r} : pc'[x] = pc[x] /\ ran'[x] = ran[x]
    BY <1>1, <1>3 DEF Count, GoTo, TypeOK
  <2>3. \A x \in Requests : Waited(x) => ran[x] \in Nat /\ ran[x] <= now
    BY <1>1 DEF TransactionsAreOnTime, Waited, TypeOK
  <2>4. ASSUME NEW x \in Requests, Waited(x)'
        PROVE  /\ stamp[x] <= ran'[x] /\ ran'[x] <= now /\ ran'[x] + Window <= expires'
               /\ pc'[x] = "removing" => ran'[x] <= stamp[x] + MaxDelay /\ now <= ran'[x] + MaxDelay
    <3>1. CASE x = r
      BY <1>1, <2>1, <3>1
    <3>2. CASE x # r
      BY <1>1, <2>1, <2>2, <2>3, <2>4, <3>2 DEF TransactionsAreOnTime, Waited
    <3> QED
      BY <3>1, <3>2
  <2> QED
    BY <2>1, <2>4 DEF TransactionsAreOnTime
<1>4. CASE Crash
    BY <1>1, <1>4 DEF Crash, redisVars, TransactionsAreOnTime, Waited, Suspended, TypeOK
<1>5. CASE Tick
  <2>1. now' = now + 1 /\ UNCHANGED <<expires, pc, stamp, ran>>
    BY <1>5 DEF Tick, checkVars
  <2>2. \A x \in Requests : pc[x] = "removing" => now - ran[x] < MaxDelay
    BY <1>5 DEF Tick
  <2>3. \A x \in Requests : Waited(x) => ran[x] \in Nat /\ stamp[x] \in Nat
    BY <1>1 DEF Waited, TypeOK
  <2> QED
    BY <1>1, <2>1, <2>2, <2>3 DEF TransactionsAreOnTime, Waited
<1>6. CASE UNCHANGED vars
    BY <1>1, <1>6 DEF vars, redisVars, checkVars, TransactionsAreOnTime, Waited
<1> QED
    BY <1>2, <1>3, <1>4, <1>5, <1>6 DEF Next

\* A transaction evicts the oldest: it keeps whoever was let through since any entry
\* that it keeps.
LEMMA PipelineIsGapless ==
    ASSUME LimiterInv, EntriesAreGapless, NEW r \in Requests, pc[r] = "counting", Pipeline(r),
           stamp' = stamp, \A x \in Requests \ {r} : pc'[x] = pc[x]
    PROVE  EntriesAreGapless'
<1> SUFFICES ASSUME MaxDelay < Window, NEW e \in entries', NEW y \in Requests,
                    pc'[y] = "allowed", stamp[y] >= e.at
             PROVE  Mine(y) \in entries'
    BY DEF EntriesAreGapless, Mine
<1> USE LimiterAssumption
<1>1. /\ stamp[r] \in Nat /\ stamp[r] <= now /\ now <= stamp[r] + MaxDelay /\ now \in Nat
      /\ entries' = Kept(r)
    BY DEF LimiterInv, TypeOK, ChecksAreOnTime, Pipeline
<1>2. e \in Entry /\ e.at \in Nat /\ InWindow(e.at, stamp[r])
    BY <1>1, KeptEntries DEF Kept, LimiterInv, Entry
<1>3. CASE y = r
    BY <1>1, <1>3, KeptEntries DEF LimiterInv
<1>4. CASE y # r
  <2>1. pc[y] = "allowed" /\ stamp[y] \in Nat /\ Mine(y).at = stamp[y]
    BY <1>4 DEF LimiterInv, TypeOK, Mine
  <2>2. Mine(y) \in entries
    <3>1. CASE e \in entries
      BY <2>1, <3>1 DEF EntriesAreGapless
    <3>2. CASE e = Mine(r)
      <4>1. now < stamp[y] + Window
        BY <1>1, <2>1, <3>2 DEF Mine
      <4> QED
        BY <2>1, <4>1 DEF LimiterInv, AllowedAreCounted
    <3> QED
      BY <1>1, <3>1, <3>2 DEF Kept
  <2>3. InWindow(Mine(y).at, stamp[r])
    BY <1>1, <1>2, <2>1 DEF InWindow
  <2> QED
    BY <1>1, <2>2, <2>3 DEF Kept
<1> QED
    BY <1>3, <1>4

\* A step that lets nobody through and takes out no entry of theirs, or all.
LEMMA OthersKeepTheAllowed ==
    ASSUME RewardInv, [Next]_vars, \A r \in Requests : ~ (Count(r) \/ (CountFails(r) /\ Pipeline(r)))
    PROVE  /\ \A y \in Requests : pc'[y] = "allowed" => pc[y] = "allowed" /\ stamp'[y] = stamp[y]
           /\ entries' \subseteq entries
           /\ \/ entries' = {}
              \/ \A y \in Requests : pc[y] = "allowed" /\ Mine(y) \in entries => Mine(y) \in entries'
<1>1. TypeOK
    BY DEF RewardInv, LimiterInv
<1>2. ASSUME NEW r \in Requests, Check(r) \/ (CountFails(r) /\ UNCHANGED redisVars)
      PROVE  /\ \A y \in Requests : pc'[y] = "allowed" => pc[y] = "allowed" /\ stamp'[y] = stamp[y]
             /\ entries' = entries
    BY <1>1, <1>2 DEF Check, CountFails, GoTo, redisVars, TypeOK
<1>3. ASSUME NEW r \in Requests, Remove(r) \/ RemoveFails(r)
      PROVE  /\ \A y \in Requests : pc'[y] = "allowed" => pc[y] = "allowed" /\ stamp'[y] = stamp[y]
             /\ pc[r] = "removing"
             /\ entries' = entries \/ entries' = entries \ {Mine(r)}
    BY <1>1, <1>3 DEF Remove, RemoveFails, GoTo, TypeOK
<1>4. CASE Crash
    BY <1>1, <1>4 DEF Crash, redisVars, TypeOK
<1>5. CASE Tick \/ UNCHANGED vars
    BY <1>5 DEF Tick, checkVars, vars, redisVars
<1>6. \A r, y \in Requests : r # y => Mine(r) # Mine(y)
    BY DEF Mine
<1>7. ASSUME NEW r \in Requests, Remove(r) \/ RemoveFails(r), NEW y \in Requests,
             pc[y] = "allowed", Mine(y) \in entries
      PROVE  Mine(y) \in entries'
    BY <1>3, <1>6, <1>7
<1> QED
    BY <1>2, <1>3, <1>4, <1>5, <1>7 DEF Next, CountFails

LEMMA StepIsGapless ==
    ASSUME RewardInv, [Next]_vars
    PROVE  EntriesAreGapless'
<1>1. LimiterInv /\ EntriesAreGapless /\ TypeOK
    BY DEF RewardInv, LimiterInv
<1>2. ASSUME NEW r \in Requests, Count(r) \/ (CountFails(r) /\ Pipeline(r)) PROVE EntriesAreGapless'
  <2>1. pc[r] = "counting" /\ Pipeline(r) /\ stamp' = stamp
    BY <1>2 DEF Count, CountFails
  <2>2. \A x \in Requests \ {r} : pc'[x] = pc[x]
    BY <1>1, <1>2 DEF Count, CountFails, GoTo, TypeOK
  <2> QED
    BY <1>1, <2>1, <2>2, PipelineIsGapless
<1>3. CASE \A r \in Requests : ~ (Count(r) \/ (CountFails(r) /\ Pipeline(r)))
  <2>1. /\ \A y \in Requests : pc'[y] = "allowed" => pc[y] = "allowed" /\ stamp'[y] = stamp[y]
        /\ entries' \subseteq entries
        /\ \/ entries' = {}
           \/ \A y \in Requests : pc[y] = "allowed" /\ Mine(y) \in entries => Mine(y) \in entries'
    BY <1>3, OthersKeepTheAllowed
  <2> QED
    BY <1>1, <2>1 DEF EntriesAreGapless, Mine
<1> QED
    BY <1>2, <1>3

LEMMA AllowedEntriesAreFinite ==
    ASSUME NEW S, S = AllowedEntries \/ (\E t : S = AllowedSince(t))
    PROVE  IsFiniteSet(S) /\ Cardinality(S) \in Nat
    BY SmallerSet, LimiterAssumption DEF AllowedEntries, AllowedSince

LEMMA AllowedEntriesWithinLimit ==
    ASSUME RewardInv, [Next]_vars
    PROVE  Cardinality(AllowedEntries') <= Limit
<1>1. LimiterInv /\ TypeOK /\ Cardinality(AllowedEntries) <= Limit
    BY DEF RewardInv, LimiterInv
<1>2. ASSUME AllowedEntries' \subseteq AllowedEntries PROVE Cardinality(AllowedEntries') <= Limit
    BY <1>1, <1>2, AllowedEntriesAreFinite, SmallerSet, LimiterAssumption
<1>3. ASSUME NEW r \in Requests, Count(r), WithinLimit(Cardinality(Kept(r)))
      PROVE  Cardinality(AllowedEntries') <= Limit
  <2>1. stamp[r] \in Nat /\ entries' = Kept(r)
    BY <1>1, <1>3 DEF Count, Pipeline, TypeOK
  <2>2. IsFiniteSet(Kept(r)) /\ Cardinality(Kept(r)) \in Nat
    BY <1>1, <2>1, KeptEntries
  <2>3. AllowedEntries' \subseteq RequestsOf(Kept(r))
    BY <2>1 DEF AllowedEntries, RequestsOf, Mine
  <2>4. /\ Cardinality(AllowedEntries') \in Nat
        /\ Cardinality(RequestsOf(Kept(r))) \in Nat
        /\ Cardinality(AllowedEntries') <= Cardinality(RequestsOf(Kept(r)))
        /\ Cardinality(RequestsOf(Kept(r))) <= Cardinality(Kept(r))
    BY <2>2, <2>3, EntriesBoundRequests, SmallerSet
  <2> QED
    BY <1>3, <2>2, <2>4, LimiterAssumption DEF WithinLimit
<1>4. ASSUME NEW r \in Requests, pc[r] = "counting", Pipeline(r), pc'[r] # "allowed",
             stamp' = stamp, \A x \in Requests \ {r} : pc'[x] = pc[x]
      PROVE  AllowedEntries' \subseteq AllowedEntries
  <2>1. ASSUME NEW y \in Requests, pc'[y] = "allowed", Mine(y) \in Kept(r)
        PROVE  pc[y] = "allowed" /\ Mine(y) \in entries
    BY <1>4, <2>1 DEF Kept, Mine
  <2> QED
    BY <1>4, <2>1 DEF AllowedEntries, Pipeline, Mine
<1>5. ASSUME NEW r \in Requests, Count(r), ~ WithinLimit(Cardinality(Kept(r)))
      PROVE  AllowedEntries' \subseteq AllowedEntries
  <2>1. pc' = [pc EXCEPT ![r] = "removing"] /\ pc[r] = "counting" /\ Pipeline(r) /\ stamp' = stamp
    BY <1>5 DEF Count, GoTo
  <2> QED
    BY <1>1, <1>4, <2>1 DEF TypeOK
<1>6. ASSUME NEW r \in Requests, CountFails(r), Pipeline(r)
      PROVE  AllowedEntries' \subseteq AllowedEntries
  <2>1. pc' = [pc EXCEPT ![r] = "failed"] /\ pc[r] = "counting" /\ stamp' = stamp
    BY <1>6 DEF CountFails, GoTo
  <2> QED
    BY <1>1, <1>4, <1>6, <2>1 DEF TypeOK
<1>7. ASSUME \A r \in Requests : ~ (Count(r) \/ (CountFails(r) /\ Pipeline(r)))
      PROVE  AllowedEntries' \subseteq AllowedEntries
    BY <1>7, OthersKeepTheAllowed DEF AllowedEntries, Mine
<1> QED
    BY <1>2, <1>3, <1>5, <1>6, <1>7

\* With the entries gapless, those let through since the time of one entry all have
\* theirs, and so are no more than the limit.
LEMMA AllowedSinceWithinLimit ==
    ASSUME MaxDelay < Window, EntriesAreGapless', Cardinality(AllowedEntries') <= Limit,
           NEW e \in entries'
    PROVE  Cardinality(AllowedSince(e.at)') <= Limit
<1>1. AllowedSince(e.at)' \subseteq AllowedEntries'
    BY DEF AllowedSince, AllowedEntries, EntriesAreGapless, Mine
<1>2. IsFiniteSet(AllowedEntries') /\ Cardinality(AllowedEntries') \in Nat
    BY SmallerSet, LimiterAssumption DEF AllowedEntries
<1> QED
    BY <1>1, <1>2, SmallerSet, LimiterAssumption

\* A step that counts nobody leaves d the reason it was told.
LEMMA ReasonStays ==
    ASSUME NEW d \in Requests, ToldWithReason(d),
           stamp'[d] = stamp[d], reset'[d] = reset[d], ran'[d] = ran[d],
           now \in Nat, now' \in Nat, now <= now', ran[d] \in Nat,
           \A y \in Requests : /\ pc'[y] = "allowed" <=> pc[y] = "allowed"
                               /\ pc[y] = "allowed" => stamp'[y] = stamp[y],
           now' < ran[d] + Window =>
               \A y \in Requests : pc[y] = "allowed" /\ Mine(y) \in entries => Mine(y) \in entries'
    PROVE  ToldWithReason(d)'
<1>1. OldestFor(d)' = OldestFor(d)
    BY DEF OldestFor
<1>2. CASE stamp[d] <= OldestFor(d) + 2 * MaxDelay
    BY <1>1, <1>2 DEF ToldWithReason
<1>3. ASSUME NEW r \in Requests, pc[r] = "allowed", stamp[r] = OldestFor(d),
             now < ran[d] + Window => Mine(r) \in entries,
             Cardinality(AllowedSince(OldestFor(d))) <= Limit
      PROVE  ToldWithReason(d)'
  <2>1. AllowedSince(OldestFor(d))' = AllowedSince(OldestFor(d))
    BY <1>1 DEF AllowedSince
  <2>2. now' < ran[d] + Window => Mine(r)' \in entries'
    BY <1>3, LimiterAssumption DEF Mine
  <2>3. pc'[r] = "allowed" /\ stamp'[r] = OldestFor(d)'
    BY <1>1, <1>3
  <2> QED
    BY <1>3, <2>1, <2>2, <2>3 DEF ToldWithReason
<1> QED
    BY <1>2, <1>3 DEF ToldWithReason

\* The decline itself: d's oldest entry is its own, that of a request on its way to
\* remove it, or that of a request let through.
LEMMA DeclinedWithReason ==
    ASSUME RewardInv, NEW d \in Requests, Count(d), faults = 0, Waited(d)',
           EntriesAreGapless', Cardinality(AllowedEntries') <= Limit
    PROVE  ToldWithReason(d)'
<1> USE LimiterAssumption
<1>1. /\ TypeOK /\ EntriesAreTrue /\ ChecksAreOnTime /\ TransactionsAreOnTime /\ VictimsHaveFaults
      /\ pc[d] = "counting" /\ stamp[d] \in Nat /\ stamp[d] <= now /\ now \in Nat
    BY DEF RewardInv, LimiterInv, Count, TypeOK, ChecksAreOnTime
<1>2. /\ stamp' = stamp /\ reset'[d] = ResetAfter(d) /\ pc'[d] = "removing" /\ now' = now
      /\ entries' = Kept(d) /\ \A x \in Requests \ {d} : pc'[x] = pc[x]
    BY <1>1 DEF Count, GoTo, Waited, Pipeline, TypeOK
<1>3. PICK e \in Kept(d) : \A f \in Kept(d) : e.at <= f.at
    BY <1>1, KeptEntries, OldestExists
<1>4. PICK o \in Kept(d) : o = Oldest(d)
    BY <1>3 DEF Oldest
<1>5. o \in Entry /\ o.at \in Nat /\ o.req \in Requests /\ InWindow(o.at, stamp[d])
    BY <1>1, <1>4, KeptEntries DEF Kept, Entry
<1>6. OldestFor(d)' = o.at
    BY <1>1, <1>2, <1>4, <1>5 DEF OldestFor, ResetAfter
<1>7. CASE o = Mine(d)
    BY <1>1, <1>2, <1>6, <1>7 DEF Mine, ToldWithReason
<1>8. CASE o # Mine(d)
  <2>1. o \in entries /\ Counted(o.req) /\ o.at = stamp[o.req]
    BY <1>1, <1>4, <1>8 DEF Kept, EntriesAreTrue
  <2>2. CASE pc[o.req] = "removing"
    <3>1. /\ ran[o.req] \in Nat /\ ran[o.req] <= stamp[o.req] + MaxDelay
          /\ now <= ran[o.req] + MaxDelay
      BY <1>1, <1>5, <2>2 DEF TransactionsAreOnTime, Waited, TypeOK
    <3>2. stamp[d] <= o.at + 2 * MaxDelay
      BY <1>1, <1>5, <2>1, <3>1
    <3> QED
      BY <1>2, <1>6, <3>2 DEF ToldWithReason
  <2>3. CASE pc[o.req] = "allowed"
    <3>1. CASE stamp[d] <= o.at + 2 * MaxDelay
      BY <1>2, <1>6, <3>1 DEF ToldWithReason
    <3>2. CASE ~ (stamp[d] <= o.at + 2 * MaxDelay)
      <4>1. MaxDelay < Window
        BY <1>1, <1>5, <3>2 DEF InWindow
      <4>2. o \in entries'
        BY <1>2, <1>4
      <4>3. Cardinality(AllowedSince(o.at)') <= Limit
        BY <4>1, <4>2, AllowedSinceWithinLimit
      <4>4. Mine(o.req)' = o
        BY <1>2, <1>5, <2>1 DEF Mine, Entry
      <4>5. pc'[o.req] = "allowed" /\ stamp'[o.req] = OldestFor(d)'
        BY <1>1, <1>2, <1>5, <1>6, <2>1, <2>3
      <4>6. AllowedSince(OldestFor(d))' = AllowedSince(o.at)'
        BY <1>6 DEF AllowedSince
      <4> QED
        BY <1>5, <4>2, <4>3, <4>4, <4>5, <4>6 DEF ToldWithReason
    <3> QED
      BY <3>1, <3>2
  <2> QED
    BY <1>1, <1>5, <2>1, <2>2, <2>3 DEF Counted, VictimsHaveFaults
<1> QED
    BY <1>7, <1>8

\* Another request with a clock no later than d's is counted: d's oldest entry is in
\* the window of that one too.
LEMMA AnotherIsCounted ==
    ASSUME RewardInv, NEW d \in Requests, NEW x \in Requests \ {d}, Count(x),
           stamp[x] <= stamp[d], Waited(d), ToldWithReason(d),
           EntriesAreGapless', Cardinality(AllowedEntries') <= Limit
    PROVE  ToldWithReason(d)'
<1> USE LimiterAssumption
<1>1. /\ TypeOK /\ ChecksAreOnTime /\ TransactionsAreOnTime /\ now \in Nat
      /\ stamp[d] \in Nat /\ ran[d] \in Nat /\ reset[d] \in 1 .. Window
    BY DEF RewardInv, LimiterInv, TypeOK, Waited
<1>2. /\ stamp' = stamp /\ reset'[d] = reset[d] /\ ran'[d] = ran[d] /\ now' = now
      /\ entries' = Kept(x) /\ \A y \in Requests \ {x} : pc'[y] = pc[y]
    BY <1>1 DEF Count, GoTo, Pipeline, TypeOK
<1>3. pc[x] = "counting" /\ stamp[x] \in Nat /\ now <= stamp[x] + MaxDelay
    BY <1>1 DEF Count, ChecksAreOnTime, TypeOK
<1>4. OldestFor(d)' = OldestFor(d) /\ OldestFor(d) \in Int /\ OldestFor(d) > stamp[d] - Window
    BY <1>1, <1>2 DEF OldestFor
<1>5. CASE stamp[d] <= OldestFor(d) + 2 * MaxDelay
    BY <1>2, <1>4, <1>5 DEF ToldWithReason
<1>6. CASE ~ (stamp[d] <= OldestFor(d) + 2 * MaxDelay)
  <2>1. MaxDelay < Window
    BY <1>1, <1>4, <1>6
  <2>2. now < ran[d] + Window
    BY <1>1, <1>3, <2>1 DEF TransactionsAreOnTime
  <2>3. PICK r \in Requests : /\ pc[r] = "allowed" /\ stamp[r] = OldestFor(d)
                              /\ now < ran[d] + Window => Mine(r) \in entries
    BY <1>6 DEF ToldWithReason
  <2>4. Mine(r) \in entries' /\ Mine(r)' = Mine(r) /\ Mine(r).at = OldestFor(d)
    BY <1>1, <1>2, <1>3, <1>4, <2>2, <2>3 DEF Kept, InWindow, Mine
  <2>5. Cardinality(AllowedSince(Mine(r).at)') <= Limit
    BY <2>1, <2>4, AllowedSinceWithinLimit
  <2>6. pc'[r] = "allowed"
    BY <1>2, <1>3, <2>3
  <2>7. AllowedSince(OldestFor(d))' = AllowedSince(Mine(r).at)'
    BY <1>4, <2>4 DEF AllowedSince
  <2> QED
    BY <1>2, <1>4, <2>3, <2>4, <2>5, <2>6, <2>7 DEF ToldWithReason
<1> QED
    BY <1>5, <1>6

LEMMA StepKeepsReasons ==
    ASSUME RewardInv, [Next]_vars, EntriesAreGapless', Cardinality(AllowedEntries') <= Limit,
           NEW d \in Requests, faults' = 0, Waited(d)', LatestCounted(d)'
    PROVE  ToldWithReason(d)'
<1>1. /\ TypeOK /\ faults \in Nat /\ now \in Nat
      /\ \A y \in Requests : Waited(y) => stamp[y] \in Nat /\ ran[y] \in Nat
    BY DEF RewardInv, LimiterInv, TypeOK, Waited
<1>2. \A r \in Requests : ~ CountFails(r) /\ ~ RemoveFails(r) /\ ~ Crash
    BY <1>1 DEF CountFails, RemoveFails, Crash, Fault
<1>3. ASSUME faults = 0, Waited(d), LatestCounted(d) PROVE ToldWithReason(d)
    BY <1>3 DEF RewardInv
<1>4. ASSUME NEW x \in Requests, Check(x) \/ Remove(x) PROVE ToldWithReason(d)'
  <2>1. /\ faults' = faults /\ now' = now /\ reset' = reset /\ ran' = ran
        /\ \A y \in Requests \ {x} : pc'[y] = pc[y] /\ stamp'[y] = stamp[y]
    BY <1>1, <1>4 DEF Check, Remove, GoTo, TypeOK
  <2>2. \/ pc[x] = "new" /\ pc'[x] = "counting" /\ entries' = entries
        \/ /\ pc[x] = "removing" /\ pc'[x] = "declined" /\ stamp'[x] = stamp[x]
           /\ entries' = entries \ {Mine(x)}
    BY <1>1, <1>4 DEF Check, Remove, GoTo, redisVars, TypeOK
  <2>3. Waited(d) /\ stamp'[d] = stamp[d]
    BY <2>1, <2>2 DEF Waited
  <2>4. LatestCounted(d)
    BY <2>1, <2>2, <2>3 DEF LatestCounted
  <2>5. \A y \in Requests : /\ pc'[y] = "allowed" <=> pc[y] = "allowed"
                            /\ pc[y] = "allowed" => stamp'[y] = stamp[y]
    BY <2>1, <2>2
  <2>6. \A y \in Requests : pc[y] = "allowed" /\ Mine(y) \in entries => Mine(y) \in entries'
    BY <2>2 DEF Mine
  <2> QED
    BY <1>1, <1>3, <2>1, <2>3, <2>4, <2>5, <2>6, ReasonStays
<1>5. CASE Count(d)
  <2>1. faults = 0
    BY <1>5 DEF Count
  <2> QED
    BY <1>5, <2>1, DeclinedWithReason
<1>6. ASSUME NEW x \in Requests \ {d}, Count(x) PROVE ToldWithReason(d)'
  <2>1. /\ faults' = faults /\ stamp' = stamp /\ pc[x] = "counting"
        /\ pc'[x] \in {"allowed", "removing"}
        /\ \A y \in Requests \ {x} : pc'[y] = pc[y]
    BY <1>1, <1>6 DEF Count, GoTo, TypeOK
  <2>2. stamp[x] <= stamp[d] /\ Waited(d) /\ LatestCounted(d)
    BY <2>1 DEF LatestCounted, Waited
  <2>3. ToldWithReason(d)
    BY <1>3, <2>1, <2>2
  <2> QED
    BY <1>6, <2>2, <2>3, AnotherIsCounted
<1>7. CASE Tick \/ UNCHANGED vars
  <2>1. UNCHANGED <<faults, pc, stamp, ran, reset, expires>>
    BY <1>7 DEF Tick, checkVars, vars, redisVars
  <2>2. /\ now' \in Nat /\ now <= now'
        /\ entries' = entries \/ expires <= now'
    BY <1>1, <1>7 DEF Tick, vars, redisVars
  <2>3. Waited(d) /\ LatestCounted(d)
    BY <2>1 DEF Waited, LatestCounted
  <2>4. ran[d] + Window <= expires /\ expires \in Nat
    BY <2>3 DEF RewardInv, TransactionsAreOnTime, LimiterInv, TypeOK
  <2>5. now' < ran[d] + Window => entries' = entries
    BY <1>1, <2>2, <2>3, <2>4, LimiterAssumption
  <2> QED
    BY <1>1, <1>3, <2>1, <2>2, <2>3, <2>5, ReasonStays
<1> QED
    BY <1>2, <1>4, <1>5, <1>6, <1>7 DEF Next

LEMMA StepPreservesReward == RewardInv /\ [Next]_vars => RewardInv'
<1> SUFFICES ASSUME RewardInv, [Next]_vars PROVE RewardInv'
    OBVIOUS
<1>1. LimiterInv'
    BY StepPreservesInv DEF RewardInv
<1>2. VictimsHaveFaults' /\ TransactionsAreOnTime' /\ EntriesAreGapless'
    BY StepKeepsVictims, StepIsOnTime, StepIsGapless
<1>3. Cardinality(AllowedEntries') <= Limit
    BY AllowedEntriesWithinLimit
<1>4. ASSUME NEW d \in Requests, faults' = 0, Waited(d)', LatestCounted(d)'
      PROVE  ToldWithReason(d)'
    BY <1>2, <1>3, <1>4, StepKeepsReasons
<1> QED
    BY <1>1, <1>2, <1>3, <1>4 DEF RewardInv

\* The inductive invariant behind it holds in every reachable state: while nobody
\* later has been counted, the time a declined request was told is that of an entry
\* with no more than Limit requests let through since.
THEOREM RewardInvariant == Spec => []RewardInv
    BY InitEstablishesReward, StepPreservesReward, PTL DEF Spec

\* What int() cuts off is less than the second that is added.
LEMMA WaitCoversTheReset ==
    ASSUME NEW n \in Nat
    PROVE  (n \div TicksPerSecond + 1) * TicksPerSecond > n
<1>1. /\ n \div TicksPerSecond \in Nat
      /\ n < (n \div TicksPerSecond + 1) * TicksPerSecond
    BY LimiterAssumption, SMTT(30)
<1> QED
    BY <1>1

\* Who comes back after the time it was told and finds nobody else there is let
\* through: all who are still counted were let through since the entry it waited for.
THEOREM RetryAfterIsRewarded == Spec => WaitingIsRewarded
<1>1. ASSUME RewardInv, Next, NEW c \in Requests, NEW d \in Requests,
             faults = 0, pc[c] = "counting", CameBack(c, d), pc'[c] = "removing"
      PROVE  FALSE
  <2> USE LimiterAssumption
  <2>1. /\ TypeOK /\ EntriesAreTrue /\ VictimsHaveFaults
        /\ pc[d] = "declined" /\ stamp[c] \in Nat /\ stamp[d] \in Nat
        /\ reset[d] \in 1 .. Window /\ c # d
    BY <1>1 DEF RewardInv, LimiterInv, TypeOK, CameBack
  <2>2. Count(c) /\ ~ WithinLimit(Cardinality(Kept(c)))
    BY <1>1, <2>1 DEF Next, Check, Count, CountFails, Remove, RemoveFails, Crash, Tick, GoTo,
                      Suspended, checkVars, TypeOK
  <2>3. /\ Mine(c) \in Kept(c) /\ Kept(c) \subseteq Entry
        /\ IsFiniteSet(Kept(c)) /\ Cardinality(Kept(c)) \in Nat
    BY <2>1, KeptEntries
  <2>4. stamp[c] - Window > OldestFor(d) + 2 * MaxDelay
    <3>1. /\ (reset[d] \div TicksPerSecond + 1) * TicksPerSecond > reset[d]
      BY <2>1, WaitCoversTheReset
    <3> DEFINE wait == (reset[d] \div TicksPerSecond + 1) * TicksPerSecond
    <3>2. wait \in Nat /\ wait > reset[d]
      BY <2>1, <3>1, SMTT(30)
    <3>3. stamp[c] >= stamp[d] + wait + 2 * MaxDelay
      BY <1>1 DEF CameBack
    <3> HIDE DEF wait
    <3> QED
      BY <2>1, <3>2, <3>3 DEF OldestFor
  <2>5. ToldWithReason(d)
    <3>1. Waited(d) /\ LatestCounted(d)
      BY <1>1, <2>1 DEF Waited, LatestCounted, CameBack, TypeOK, PC, Suspended
    <3> QED
      BY <1>1, <3>1 DEF RewardInv
  <2> DEFINE es == Kept(c) \ {Mine(c)}
  <2>6. IsFiniteSet(es) /\ Cardinality(es) = Cardinality(Kept(c)) - 1
    BY <2>3, FS_RemoveElement
  <2>7. ASSUME NEW e \in es
        PROVE  /\ e.req \in Requests /\ pc[e.req] = "allowed" /\ e = Mine(e.req)
               /\ stamp[e.req] > OldestFor(d) + 2 * MaxDelay /\ stamp[e.req] <= stamp[d]
    <3>1. /\ e \in entries /\ e \in Entry /\ Counted(e.req) /\ e.at = stamp[e.req]
          /\ e.at > stamp[c] - Window
      BY <2>1, <2>3 DEF Kept, EntriesAreTrue, InWindow
    <3>2. e = Mine(e.req) /\ e.req \in Requests /\ e.at \in Nat
      BY <3>1 DEF Mine, Entry
    <3>3. e.req # c
      BY <3>2
    <3>4. pc[e.req] = "allowed"
      BY <1>1, <2>1, <3>1, <3>2, <3>3 DEF CameBack, Counted, Suspended, VictimsHaveFaults
    <3>5. stamp[e.req] <= stamp[d]
      BY <1>1, <2>1, <3>1, <3>2, <3>3 DEF CameBack
    <3>6. OldestFor(d) \in Int
      BY <2>1 DEF OldestFor
    <3> QED
      BY <2>1, <2>4, <3>1, <3>2, <3>4, <3>5, <3>6
  <2>8. OldestFor(d) \in Int
    BY <2>1 DEF OldestFor
  <2>9. CASE stamp[d] <= OldestFor(d) + 2 * MaxDelay
    <3>1. ASSUME NEW e \in es PROVE FALSE
      <4>1. e.req \in Requests /\ pc[e.req] = "allowed" /\ stamp[e.req] \in Nat
        BY <2>1, <2>7 DEF TypeOK
      <4> QED
        BY <2>1, <2>7, <2>8, <2>9, <4>1
    <3>2. es = {}
      BY <3>1
    <3>3. Cardinality(es) = 0
      BY <3>2, FS_EmptySet
    <3> QED
      BY <2>2, <2>3, <2>6, <3>3 DEF WithinLimit
  <2>10. ASSUME NEW r \in Requests, pc[r] = "allowed", stamp[r] = OldestFor(d),
                Cardinality(AllowedSince(OldestFor(d))) <= Limit
         PROVE  FALSE
    <3> DEFINE others == AllowedSince(OldestFor(d)) \ {r}
    <3>1. /\ IsFiniteSet(AllowedSince(OldestFor(d)))
          /\ Cardinality(AllowedSince(OldestFor(d))) \in Nat
      BY SmallerSet DEF AllowedSince
    <3>2. r \in AllowedSince(OldestFor(d))
      BY <2>8, <2>10 DEF AllowedSince
    <3>3. IsFiniteSet(others) /\ Cardinality(others) = Cardinality(AllowedSince(OldestFor(d))) - 1
      BY <3>1, <3>2, FS_RemoveElement
    <3>4. ASSUME NEW e \in es PROVE e.req \in others
      <4>1. e.req \in Requests /\ pc[e.req] = "allowed" /\ stamp[e.req] \in Nat
        BY <2>1, <2>7 DEF TypeOK
      <4>2. stamp[e.req] > OldestFor(d)
        BY <2>7, <2>8, <4>1
      <4> QED
        BY <2>8, <2>10, <4>1, <4>2 DEF AllowedSince
    <3> DEFINE f == [e \in es |-> e.req]
    <3>5. f \in Injection(es, others)
      BY <2>7, <3>4 DEF Injection, IsInjective
    <3>6. Cardinality(es) <= Cardinality(others)
      BY <3>3, <3>5, FS_Injection
    <3> QED
      BY <2>2, <2>3, <2>6, <2>10, <3>1, <3>3, <3>6 DEF WithinLimit
  <2> QED
    BY <2>5, <2>9, <2>10 DEF ToldWithReason
<1>2. RewardInv /\ [Next]_vars =>
        [\A c, d \in Requests :
            faults = 0 /\ pc[c] = "counting" /\ CameBack(c, d) => pc'[c] # "removing"]_vars
    BY <1>1
<1> QED
    BY <1>2, RewardInvariant, PTL DEF Spec, WaitingIsRewarded
=============================================================================

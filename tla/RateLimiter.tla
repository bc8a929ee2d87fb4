------------------------------ MODULE RateLimiter ------------------------------
(***************************************************************************)
(* SlidingWindowRateLimiter.check of app/infra/rate_limiter.py, as         *)
(* check_rate_limit of app/api/middleware/rate_limit.py awaits it, for the *)
(* requests of one client: clients have sorted sets of their own.          *)
(*                                                                         *)
(* check() reads the clock, then suspends twice: for the pipeline (ZADD,   *)
(* ZREMRANGEBYSCORE, ZCARD, ZRANGE, EXPIRE, one MULTI/EXEC transaction)    *)
(* and, if the request is declined, for the ZREM of its own entry.  Between *)
(* these points the checks of other requests run, so transactions reach    *)
(* Redis in another order than the clock was read in.                      *)
(*                                                                         *)
(* Faults: a command raises ConnectionError, and may have been executed    *)
(* all the same; the process dies.  Scores and time are ticks.             *)
(***************************************************************************)
EXTENDS Integers, FiniteSets

CONSTANTS
    Requests,
    Limit,           \* rpm; rate_limit_rpm is validated with gt=0
    Window,          \* 60 s
    TicksPerSecond,  \* ticks in a second
    MaxDelay,        \* the longest a check is suspended for a command
    FaultKinds,      \* the faults that may happen, out of AnyFault
    MaxFaults,       \* bound on their number
    MaxTime,         \* bound on the clock
    None

AnyFault == {"connection", "crash"}

ASSUME LimiterAssumption ==
    /\ IsFiniteSet(Requests)
    /\ Limit \in Nat \ {0}
    /\ Window \in Nat \ {0}
    /\ TicksPerSecond \in Nat \ {0}
    /\ MaxDelay \in Nat
    /\ FaultKinds \subseteq AnyFault
    /\ MaxFaults \in Nat
    /\ MaxTime \in Nat
    /\ None \notin Nat

VARIABLES
    now,      \* time.time(), and the clock of Redis
    entries,  \* Redis: the members of rl:<client> with their scores
    expires,  \* Redis: when the key goes away
    pc,       \* where each check stands
    stamp,    \* its now
    ran,      \* when its transaction was executed
    reset,    \* its reset_after, once it knows
    faults    \* faults so far

redisVars == <<entries, expires>>
checkVars == <<pc, stamp, ran, reset>>
vars == <<now, redisVars, checkVars, faults>>

Entry == [req : Requests, at : Nat]

Suspended == {"counting", "removing"}
PC == {"new", "allowed", "declined", "failed", "lost"} \cup Suspended

TypeOK ==
    /\ now \in Nat
    /\ entries \subseteq Entry
    /\ IsFiniteSet(entries)
    /\ expires \in Nat
    /\ pc \in [Requests -> PC]
    /\ stamp \in [Requests -> Nat \cup {None}]
    /\ ran \in [Requests -> Nat \cup {None}]
    /\ reset \in [Requests -> Nat \cup {None}]
    /\ faults \in 0 .. MaxFaults
    /\ \A r \in Requests :
        /\ pc[r] # "new" => stamp[r] \in Nat
        /\ pc[r] \in {"removing", "declined"} => ran[r] \in Nat /\ reset[r] \in 1 .. Window

Init ==
    /\ now = 0
    /\ entries = {}
    /\ expires = 0
    /\ pc = [r \in Requests |-> "new"]
    /\ stamp = [r \in Requests |-> None]
    /\ ran = [r \in Requests |-> None]
    /\ reset = [r \in Requests |-> None]
    /\ faults = 0

-----------------------------------------------------------------------------
(* Mutated forms: slips one could make in this code.  Not part of the model. *)

WithinLimitPlusOne(n) == n <= Limit + 1

-----------------------------------------------------------------------------
(* The pieces of check().                                                   *)

Mine(r) == [req |-> r, at |-> stamp[r]]

\* What ZREMRANGEBYSCORE 0 (time - Window) leaves: a score equal to the bound goes.
InWindow(at, time) == at > time - Window

\* The set after ZADD and ZREMRANGEBYSCORE.
Kept(r) == {e \in entries \cup {Mine(r)} : InWindow(e.at, stamp[r])}

\* ZRANGE 0 0: an entry with the lowest score.  The set holds r's own at least.
Oldest(r) == CHOOSE e \in Kept(r) : \A f \in Kept(r) : e.at <= f.at

ResetAfterElapsed(r) == stamp[r] - Oldest(r).at
ResetAfter(r) == Oldest(r).at + Window - stamp[r]

WithinLimit(n) == n <= Limit

\* The transaction, in Redis.
Pipeline(r) ==
    /\ entries' = Kept(r)
    /\ expires' = now + Window

GoTo(r, label) == pc' = [pc EXCEPT ![r] = label]

Fault(kind) ==
    /\ kind \in FaultKinds
    /\ faults < MaxFaults
    /\ faults' = faults + 1

-----------------------------------------------------------------------------
(* Mutated forms of the actions, likewise.                                  *)

RemoveForgets(r) ==
    /\ pc[r] = "removing"
    /\ GoTo(r, "declined")
    /\ UNCHANGED <<now, redisVars, stamp, ran, reset, faults>>
RemoveOldest(r) ==
    /\ pc[r] = "removing"
    /\ entries' = {e \in entries : \E f \in entries : f.at < e.at}
    /\ GoTo(r, "declined")
    /\ UNCHANGED <<now, expires, stamp, ran, reset, faults>>
CountNeverTellsReset(r) ==
    /\ pc[r] = "counting"
    /\ Pipeline(r)
    /\ ran' = [ran EXCEPT ![r] = now]
    /\ reset' = [reset EXCEPT ![r] = IF WithinLimit(Cardinality(Kept(r))) THEN ResetAfter(r) ELSE None]
    /\ GoTo(r, IF WithinLimit(Cardinality(Kept(r))) THEN "allowed" ELSE "removing")
    /\ UNCHANGED <<now, stamp, faults>>

-----------------------------------------------------------------------------
(* check().                                                                 *)

\* The clock is read once; score, eviction and reset are all computed from it.
Check(r) ==
    /\ pc[r] = "new"
    /\ stamp' = [stamp EXCEPT ![r] = now]
    /\ GoTo(r, "counting")
    /\ UNCHANGED <<now, redisVars, ran, reset, faults>>

\* The transaction and the decision on its results.
Count(r) ==
    /\ pc[r] = "counting"
    /\ Pipeline(r)
    /\ ran' = [ran EXCEPT ![r] = now]
    /\ reset' = [reset EXCEPT ![r] = ResetAfter(r)]
    /\ GoTo(r, IF WithinLimit(Cardinality(Kept(r))) THEN "allowed" ELSE "removing")
    /\ UNCHANGED <<now, stamp, faults>>

\* ConnectionError: the client is answered 503, its entry may be in Redis.
CountFails(r) ==
    /\ pc[r] = "counting"
    /\ Fault("connection")
    /\ UNCHANGED redisVars \/ Pipeline(r)
    /\ GoTo(r, "failed")
    /\ UNCHANGED <<now, stamp, ran, reset>>

\* ZREM of the declined request's own entry, then 429.
Remove(r) ==
    /\ pc[r] = "removing"
    /\ entries' = entries \ {Mine(r)}
    /\ GoTo(r, "declined")
    /\ UNCHANGED <<now, expires, stamp, ran, reset, faults>>

\* ConnectionError: 503 instead of 429, and the entry may stay.
RemoveFails(r) ==
    /\ pc[r] = "removing"
    /\ Fault("connection")
    /\ UNCHANGED entries \/ entries' = entries \ {Mine(r)}
    /\ GoTo(r, "failed")
    /\ UNCHANGED <<now, expires, stamp, ran, reset>>

\* The process dies with every check it had in hand.
Crash ==
    /\ Fault("crash")
    /\ \E r \in Requests : pc[r] \in Suspended
    /\ pc' = [r \in Requests |-> IF pc[r] \in Suspended THEN "lost" ELSE pc[r]]
    /\ UNCHANGED <<now, redisVars, stamp, ran, reset>>

\* Redis drops the key when its time is up.
Tick ==
    /\ now < MaxTime
    /\ \A r \in Requests :
        /\ pc[r] = "counting" => now - stamp[r] < MaxDelay
        /\ pc[r] = "removing" => now - ran[r] < MaxDelay
    /\ now' = now + 1
    /\ entries' = IF expires <= now + 1 THEN {} ELSE entries
    /\ UNCHANGED <<expires, checkVars, faults>>

Next ==
    \/ \E r \in Requests :
        Check(r) \/ Count(r) \/ CountFails(r) \/ Remove(r) \/ RemoveFails(r)
    \/ Crash
    \/ Tick

Spec == Init /\ [][Next]_vars

-----------------------------------------------------------------------------
(* Properties.                                                              *)

\* The requests let through with a clock in (to - length, to].
AllowedIn(to, length) ==
    {r \in Requests : pc[r] = "allowed" /\ stamp[r] <= to /\ to - length < stamp[r]}

\* However transactions overtake each other, no stretch of a window less the
\* longest delay lets more than Limit requests through.
LimitHoldsUpToTheDelay ==
    \A t \in 0 .. now : Cardinality(AllowedIn(t, Window - MaxDelay)) <= Limit

\* What keeps the limit: an allowed request is counted for a whole window; no
\* late transaction, ZREM or expiry of the key takes it out before.
AllowedAreCounted ==
    \A r \in Requests : pc[r] = "allowed" /\ now < stamp[r] + Window => Mine(r) \in entries

\* Who stands behind an entry: whoever was let through, is being declined at
\* this moment, or was hit by a fault.  Nobody who has been declined.
Counted(x) == pc[x] \in {"allowed", "removing", "failed", "lost"}

\* What an entry stands for: one request, at the time it read, counted for a
\* reason, and no longer than the key lives.
EntriesAreTrue ==
    \A e \in entries :
        /\ Counted(e.req)
        /\ e.at = stamp[e.req]
        /\ e.at + Window <= expires

ChecksAreOnTime ==
    \A r \in Requests :
        /\ pc[r] # "new" => stamp[r] <= now
        /\ pc[r] = "counting" => now <= stamp[r] + MaxDelay

\* The inductive invariant behind the theorems: the limit holds at every time t,
\* past or future.
LimiterInv ==
    /\ TypeOK
    /\ EntriesAreTrue
    /\ ChecksAreOnTime
    /\ AllowedAreCounted
    /\ \A t \in Nat : Cardinality(AllowedIn(t, Window - MaxDelay)) <= Limit

\* If r is declined in this step, Limit others inside its window are counted.
DeclinedWithCause(r) ==
    pc[r] = "counting" /\ pc'[r] = "removing" =>
        Cardinality({x \in Requests \ {r} :
            Counted(x) /\ InWindow(stamp[x], stamp[r])}) >= Limit

\* A request is declined only if Limit others inside its window are counted for
\* one of these reasons: who was declined before costs it nothing any more.
DeclinesHaveACause == [][\A r \in Requests : DeclinedWithCause(r)]_vars

\* c comes back after d's Retry-After, a second for the fraction int() cut off and
\* the longest delay of either command, and nobody else has come meanwhile.
CameBack(c, d) ==
    /\ pc[d] = "declined"
    /\ stamp[c] >= stamp[d] + (reset[d] \div TicksPerSecond + 1) * TicksPerSecond + 2 * MaxDelay
    /\ \A x \in Requests \ {c} :
        /\ pc[x] \notin Suspended
        /\ stamp[x] # None => stamp[x] <= stamp[d]

\* Retry-After can be relied on: who waits for it and finds nobody else there is
\* let through, unless a fault left an entry behind.
WaitingIsRewarded ==
    [][\A c, d \in Requests :
         faults = 0 /\ pc[c] = "counting" /\ CameBack(c, d) => pc'[c] # "removing"]_vars

-----------------------------------------------------------------------------
(* The inductive invariant behind WaitingIsRewarded.                        *)

Waited(d) == pc[d] \in {"removing", "declined"}
VictimsHaveFaults == faults = 0 => \A r \in Requests : pc[r] \notin {"failed", "lost"}

TransactionsAreOnTime ==
    \A r \in Requests : Waited(r) =>
        /\ stamp[r] <= ran[r] /\ ran[r] <= now /\ ran[r] + Window <= expires
        /\ pc[r] = "removing" => ran[r] <= stamp[r] + MaxDelay /\ now <= ran[r] + MaxDelay

\* Nobody let through is missing between an entry and the latest one.
EntriesAreGapless ==
    MaxDelay < Window =>
        \A e \in entries : \A y \in Requests :
            pc[y] = "allowed" /\ stamp[y] >= e.at => Mine(y) \in entries

\* The entries of those let through do not exceed the limit, old ones included.
AllowedEntries == {y \in Requests : pc[y] = "allowed" /\ Mine(y) \in entries}

\* The clock of the oldest entry that d counted, from what d is told.
OldestFor(d) == stamp[d] + reset[d] - Window
AllowedSince(t) == {y \in Requests : pc[y] = "allowed" /\ stamp[y] >= t}

\* While nobody with a later clock has been counted, d's oldest entry was that of a
\* request let through, and those let through since are no more than the limit; or
\* it was that of a request being declined itself, and is soon as good as gone.
ToldWithReason(d) ==
    \/ stamp[d] <= OldestFor(d) + 2 * MaxDelay
    \/ \E r \in Requests :
        /\ pc[r] = "allowed" /\ stamp[r] = OldestFor(d)
        /\ now < ran[d] + Window => Mine(r) \in entries
        /\ Cardinality(AllowedSince(OldestFor(d))) <= Limit

LatestCounted(d) ==
    \A x \in Requests : pc[x] \notin {"new", "counting"} => stamp[x] <= stamp[d]

RewardInv ==
    /\ LimiterInv
    /\ VictimsHaveFaults
    /\ TransactionsAreOnTime
    /\ EntriesAreGapless
    /\ Cardinality(AllowedEntries) <= Limit
    /\ \A d \in Requests : faults = 0 /\ Waited(d) /\ LatestCounted(d) => ToldWithReason(d)
=============================================================================

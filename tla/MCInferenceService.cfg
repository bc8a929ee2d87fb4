\* The shipped order of the times: the lock's TTL shorter than the wait, the wait
\* shorter than an adapter call that hangs.  Every other step takes less than a tick.
\* A connection error, a crash or a restart of Redis may happen once.  No symmetry,
\* for the liveness property: the clock runs on for the longest wait and call after
\* the last arrival.
CONSTANTS
    Calls = {r1, r2, r3}
    Keys = {k1}
    FailureThreshold = 2
    RecoveryTimeout = 3
    Window = 2
    TicksPerSecond = 1
    MaxTime = 6
    LockTTL = 1
    WaitTimeout = 2
    CacheTTL = 4
    MaxCallTime = 3
    Prompt = TRUE
    FaultKinds = {"connection", "crash", "redis restart"}
    MaxFaults = 1
    ArriveBy = 1
    None = None
SPECIFICATION FairSpec
INVARIANTS
    TypeOK
    NobodyWaitsInVain
    AnsweredInTime
PROPERTIES
    EveryRequestEnds
CHECK_DEADLOCK FALSE

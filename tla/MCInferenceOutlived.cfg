\* The shipped order of the times, prompt steps and no faults: the lock's TTL runs out
\* under a leader whose call takes longer.
CONSTANTS
    Calls = {r1, r2}
    Keys = {k1}
    FailureThreshold = 2
    RecoveryTimeout = 3
    Window = 2
    TicksPerSecond = 1
    MaxTime = 7
    LockTTL = 1
    WaitTimeout = 2
    CacheTTL = 4
    MaxCallTime = 3
    Prompt = TRUE
    FaultKinds = {"connection", "crash", "redis restart"}
    MaxFaults = 0
    ArriveBy = 2
    None = None
SYMMETRY Symmetry
SPECIFICATION Spec
INVARIANTS
    OneLeaderAtATime
CHECK_DEADLOCK FALSE

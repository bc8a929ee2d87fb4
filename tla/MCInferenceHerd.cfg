\* Two requests for one key, no faults, an answer that never expires: the second
\* looks the key up before the first has stored, and asks for the lock after the
\* first has released it.
CONSTANTS
    Calls = {r1, r2}
    Keys = {k1}
    FailureThreshold = 2
    RecoveryTimeout = 3
    Window = 2
    TicksPerSecond = 1
    MaxTime = 7
    LockTTL = 2
    WaitTimeout = 3
    CacheTTL = 9
    MaxCallTime = 1
    Prompt = TRUE
    FaultKinds = {"connection", "crash"}
    MaxFaults = 0
    ArriveBy = 3
    None = None
SYMMETRY Symmetry
SPECIFICATION Spec
INVARIANTS
    OneCallPerHerd
CHECK_DEADLOCK FALSE

\* No timing assumption at all: steps take as long as they like, the lock and the
\* cache entry run out under a call, and Redis may lose its data.
CONSTANTS
    Calls = {r1, r2, r3}
    Keys = {k1, k2}
    FailureThreshold = 2
    RecoveryTimeout = 2
    Window = 1
    TicksPerSecond = 1
    MaxTime = 2
    LockTTL = 1
    WaitTimeout = 1
    CacheTTL = 1
    MaxCallTime = 2
    Prompt = FALSE
    FaultKinds = {"connection", "crash", "redis restart"}
    MaxFaults = 1
    ArriveBy = 1
    None = None
SYMMETRY Symmetry
SPECIFICATION RecordedSpec
INVARIANTS
    AnswersFitTheQuestion
    OneLeaderPerKey
    LeaderHoldsTheLock
PROPERTIES
    NoNewcomerCallsAnOpenCircuit
    RefinesAbstractInference
    RefinesBreakerClients
CHECK_DEADLOCK FALSE

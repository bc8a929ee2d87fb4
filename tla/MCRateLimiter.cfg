\* Four requests, two a window of five ticks, so that a client told to wait one
\* tick comes back inside the window; commands up to a tick late, one connection
\* error or crash.
CONSTANTS
    Requests = {r1, r2, r3, r4}
    Limit = 2
    Window = 5
    TicksPerSecond = 1
    MaxDelay = 1
    FaultKinds = {"connection", "crash"}
    MaxFaults = 1
    MaxTime = 9
    None = None
SYMMETRY RequestSymmetry
SPECIFICATION Spec
INVARIANTS
    TypeOK
    LimitHoldsUpToTheDelay
    AllowedAreCounted
PROPERTIES
    DeclinesHaveACause
    WaitingIsRewarded
CHECK_DEADLOCK FALSE

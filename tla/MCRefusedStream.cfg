\* A stream that comes while the circuit is open.
CONSTANTS
    Calls = {r1, r2}
    FailureThreshold = 1
    RecoveryTimeout = 1
    Window = 1
    TicksPerSecond = 1
    MaxTime = 1
    Versions = {v1, v2}
    None = None
SPECIFICATION Spec
INVARIANT RefusedMeans503
CHECK_DEADLOCK FALSE

\* Two overlapping requests of any kind, against a breaker that one failure
\* opens and one tick brings to recovery, between start-up and shutdown.
CONSTANTS
    Calls = {r1, r2}
    FailureThreshold = 1
    RecoveryTimeout = 1
    Window = 1
    TicksPerSecond = 1
    MaxTime = 2
    Versions = {v1, v2}
    None = None
SPECIFICATION FairSpec
INVARIANTS
    TypeOK
    CountersTellTheTruth
    RequestsFindWhatTheyUse
PROPERTIES
    HealthTellsAdmission
    ShutdownEnds
CHECK_DEADLOCK FALSE

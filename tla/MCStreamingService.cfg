\* Two overlapping streams, against a breaker that one failure opens; no
\* symmetry, for the liveness properties.  Nothing here waits for the clock.
CONSTANTS
    Calls = {s1, s2}
    FailureThreshold = 1
    RecoveryTimeout = 1
    Window = 1
    TicksPerSecond = 1
    MaxTime = 3
    MaxChunks = 2
    None = None
SPECIFICATION FairSpec
INVARIANTS
    TypeOK
    AuditAgreesWithTheBreaker
    AuditMissesOneTokenAtMost
    DoneMeansComplete
PROPERTIES
    RefinesBreakerClients
    DrivesTheAdapterAsAgreed
    EveryStreamIsAudited
    EveryConnectionCloses
CHECK_DEADLOCK FALSE

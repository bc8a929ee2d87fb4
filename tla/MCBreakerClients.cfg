\* Five calls against a breaker that two failures within a window of two ticks
\* open for four ticks (2 : 1 like the shipped 60 s and 30 s), two ticks to
\* the second.
CONSTANTS
    Calls = {c1, c2, c3, c4, c5}
    FailureThreshold = 2
    RecoveryTimeout = 4
    Window = 2
    TicksPerSecond = 2
    MaxTime = 9
    None = None
SYMMETRY CallSymmetry
SPECIFICATION Spec
INVARIANTS
    TypeOK
    OpeningIsJustified
PROPERTIES
    RetryAfterIsShortByLessThanASecond
    RefinesAbstractBreaker
CHECK_DEADLOCK FALSE

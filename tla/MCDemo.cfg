\* A limiter that declines the third request of four, two polls for a wait; runs
\* start again on the stack the last one left.
CONSTANTS
    Attempts = 4
    RateLimit = 2
    Polls = 2
    None = None
SPECIFICATION FairSpec
INVARIANTS
    TypeOK
    BreaksNothingUnnoticed
PROPERTIES
    EveryRunEnds
CHECK_DEADLOCK FALSE

\* Two calls of either kind for one connection; bodies of up to two lines; no
\* symmetry, for the liveness properties.
CONSTANTS
    Calls = {c1, c2}
    MaxConnections = 1
    MaxLines = 2
    StubTokens = 2
    Configs <- MCConfigs
    ModelKey = "model"
    MessagesKey = "messages"
    StreamKey = "stream"
    None = None
SPECIFICATION FairSpec
INVARIANTS
    TypeOK
    ChunksAreTheContents
    TellsWhatHappened
PROPERTIES
    NobodyWaitsForGood
    KeepsTheContract
CHECK_DEADLOCK FALSE

\* The same instance.  Whatever the code does of itself is fair; the client at the
\* far end of a stream stalls.
CONSTANTS
    Calls = {c1, c2}
    MaxConnections = 1
    MaxLines = 2
    StubTokens = 2
    Configs <- MCConfigs
    ModelKey = "model"
    MessagesKey = "messages"
    StreamKey = "stream"
    None = None
SPECIFICATION FairSpec
PROPERTY StalledStreamsAreClosed
CHECK_DEADLOCK FALSE

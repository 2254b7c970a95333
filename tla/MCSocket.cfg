CONSTANTS
    Call = {k1}
    Stream = {s1}
    Auth = TRUE
    Reconnect = TRUE
    OnStatus <- MCOnStatus
    MaxStreamQueue = 1
    MaxSockets = 4
    MaxTroubles = 1
    MaxHints = 2
    MaxClientCalls = 1
SPECIFICATION LiveSpec
CHECK_DEADLOCK FALSE
INVARIANTS Anchored RequestsExact
PROPERTY Recovers

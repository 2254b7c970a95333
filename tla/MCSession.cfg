CONSTANTS
    User = {"ann", "bob"}
    AuthHook = TRUE
    AdapterAuth = TRUE
    Buffer = 1
    MaxInflight = 1
    FrameLimit = 2
    SubscribeAttempts = 2
    MaxRequests = 2
    MaxItems = 1
SPECIFICATION LiveSpec
CHECK_DEADLOCK FALSE
INVARIANTS LoginExact AnsweredOnce
PROPERTY Decided

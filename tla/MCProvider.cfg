SPECIFICATION Spec
CONSTANTS
    None = None
    Refused = Refused
    Null = Null
    Bad = Bad
    DefaultBudget = 2
    LargeOutput = 4
    MaxBreakpoints = 4
    MaxFrameBytes = 3
    MaxBlockBytes = 6
    MaxResponseBytes = 8
    MaxOpenBlocks = 2
    MaxResponseBlocks = 2
    MaxCount = 4
    Jobs <- MCJobs
    Wire <- MCWire
    Lines <- MCLines
    Responses <- MCResponses
    Sayable <- MCSayable
CHECK_DEADLOCK FALSE
INVARIANTS RequestAccepted AnswerCertified RetainedBounded
PROPERTY UsageCumulative

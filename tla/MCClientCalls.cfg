\* Two calls over a queue of one frame, two replies with any id, two session
\* ends.  No symmetry, since CallsEnd is a liveness property.
SPECIFICATION LiveSpec
CONSTANTS
    k1 = k1  k2 = k2
    Call <- Calls2
    Buffer = 1
    MaxReplies = 2
    MaxCloses = 2
CHECK_DEADLOCK FALSE
INVARIANTS EntryOrAnswer FirstReplyWins
PROPERTY CallsEnd

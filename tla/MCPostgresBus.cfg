\* A publish and a device call of one node, sent by any threads, in batches of
\* two; the other node holds the device, loses its listener twice and has one
\* envelope repeated.
SPECIFICATION Spec
CONSTANTS
    n1 = n1  n2 = n2
    Node <- TwoNodes
    Holder <- HolderSecond
    Outbox = 2
    Batch = 2
    MaxInbound = 1
    MaxPublishes <- Publish1
    MaxCalls <- CallFirst
    MaxLosses <- Lose2
    MaxRepeats = 1
CHECK_DEADLOCK FALSE
INVARIANTS OnceInOrder LossAnnounced

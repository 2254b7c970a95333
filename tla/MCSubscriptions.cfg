\* One key, handles that share and leave it, lost sockets, kicks, denials and
\* broker resets.
SPECIFICATION Spec
CONSTANTS
    k1 = k1  t1 = t1
    Key <- OneKey
    Topic <- OneTopic
    TopicOf <- TopicOfOne
    EarlyPerTopic = 1
    StaleHandles = FALSE
    Leaving = {"message", "resubscribe"}
    MaxGroups = 2
    MaxHandles = 2
    MaxPublishes = 2
    MaxEpochs = 2
    MaxTroubles = 2
CHECK_DEADLOCK FALSE
INVARIANTS Survives SidesAgree
PROPERTY NoSilentLoss

\* One connection, two rooms, a cap of one: kicks, resets and retries around the
\* authorization of a subscribe.
SPECIFICATION Spec
CONSTANTS
    c1 = c1  c2 = c2  c3 = c3  u1 = u1  u2 = u2  d1 = d1
    r1 = r1  r2 = r2  k1 = k1  k2 = k2  s1 = s1
    Conn = {c1}  User = {u1}  Device = {}  Room = {r1, r2}
    Task = {k1}  Slot = {s1}
    NoUser = NoUser  NoDevice = NoDevice  NoConn = NoConn  NoTopic = NoTopic
    Topic <- MCTopic
    UserTopic <- MCUserTopic
    DeviceTopic <- MCDeviceTopic
    SlotOf <- MCSlotOf
    MaxSubscriptions = 1  MaxConnections = 2  Attempts = 2
    MaxEpoch = 3  MaxSeq = 0  MaxRevocations = 2
CHECK_DEADLOCK FALSE
INVARIANTS ExplicitExact RevocationsStick

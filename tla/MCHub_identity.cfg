\* Three connections, two users, one device, a cap of two connections per user:
\* binding, superseding, refusals and the closes they lead to.
SPECIFICATION LiveSpec
CONSTANTS
    c1 = c1  c2 = c2  c3 = c3  u1 = u1  u2 = u2  d1 = d1
    r1 = r1  r2 = r2  k1 = k1  k2 = k2  s1 = s1
    Conn = {c1, c2, c3}  User = {u1, u2}  Device = {d1}  Room = {}
    Task = {}  Slot = {s1}
    NoUser = NoUser  NoDevice = NoDevice  NoConn = NoConn  NoTopic = NoTopic
    Topic <- MCTopic
    UserTopic <- MCUserTopic
    DeviceTopic <- MCDeviceTopic
    SlotOf <- MCSlotOf
    MaxSubscriptions = 1  MaxConnections = 2  Attempts = 1
    MaxEpoch = 4  MaxSeq = 0  MaxRevocations = 0
CHECK_DEADLOCK FALSE
INVARIANT IdentityExact
PROPERTY DoomedAreClosed

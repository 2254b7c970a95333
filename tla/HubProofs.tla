------------------------------ MODULE HubProofs ------------------------------
(***************************************************************************)
(* Proofs about Hub, in three parts: the state (types, closing, routing),  *)
(* the stream (what clients are told), and access (who may be where).      *)
(***************************************************************************)
EXTENDS Hub, FiniteSetTheorems, TLAPS

-----------------------------------------------------------------------------
(* Types                                                                   *)

\* The constant records are of their types.
LEMMA ConstantTypes ==
  /\ NoCursor \in Cursor
  /\ Unregistered \in ConnRecord /\ Registered \in ConnRecord
  /\ Removed \in ConnRecord
  /\ NoWork \in WorkRecord
  <1>1. NoCursor \in Cursor
    BY DEF NoCursor, Cursor
  <1>2. Unregistered \in ConnRecord
    BY DEF Unregistered, ConnRecord, Membership
  <1>3. Registered \in ConnRecord /\ Removed \in ConnRecord
    BY <1>2 DEF Registered, Removed, ConnRecord
  <1>4. NoWork \in WorkRecord
    BY DEF NoWork, WorkRecord
  <1> QED
    BY <1>1, <1>2, <1>3, <1>4

LEMMA InitType == Init => TypeOK
  <1> SUFFICES ASSUME Init PROVE TypeOK
    OBVIOUS
  <1>1. conn \in [Conn -> ConnRecord]
    BY ConstantTypes DEF Init
  <1>2. perUser \in [User -> Nat] /\ devices \in [Device -> Conn \cup {NoConn}]
    BY DEF Init
  <1>3. /\ live \in SUBSET Topic
        /\ subs \in [Topic -> SUBSET Conn]
        /\ interest \in SUBSET Topic
    BY DEF Init
  <1>4. cursor \in [Topic -> Cursor] /\ told \in [Conn -> [Topic -> Cursor]]
    BY ConstantTypes DEF Init
  <1>5. work \in WorkRecord /\ task \in [Task -> BusyTask \cup {IdleTask}]
    BY ConstantTypes DEF Init
  <1>6. access \in [User \X Room -> Access]
    BY DEF Init, Access
  <1>7. revocations \in [Slot -> Nat] /\ nextEpoch \in Nat \ {0}
    BY DEF Init
  <1>8. closing \in SUBSET Conn /\ inbound \in SUBSET (User \X Room)
    BY DEF Init
  <1>9. resetting \in BOOLEAN
    BY Zenon DEF Init
  <1> QED
    BY <1>1, <1>2, <1>3, <1>4, <1>5, <1>6, <1>7, <1>8, <1>9 DEF TypeOK

LEMMA WithType ==
  ASSUME NEW r \in ConnRecord, NEW t \in Topic
  PROVE  /\ With(r, t, "auto") \in ConnRecord
         /\ With(r, t, "explicit") \in ConnRecord
         /\ Without(r, t) \in ConnRecord
  <1>1. /\ [r.topics EXCEPT ![t] = "auto"] \in [Topic -> Membership]
        /\ [r.topics EXCEPT ![t] = "explicit"] \in [Topic -> Membership]
        /\ [r.topics EXCEPT ![t] = "no"] \in [Topic -> Membership]
    BY DEF ConnRecord, Membership
  <1>2. ASSUME NEW f \in [Topic -> Membership], NEW n \in Int
        PROVE [r EXCEPT !.topics = f, !.explicit = n] \in ConnRecord
    BY DEF ConnRecord
  <1>3. r.explicit \in Int /\ r.explicit + 1 \in Int /\ r.explicit - 1 \in Int
    BY DEF ConnRecord
  <1>4. With(r, t, "auto") \in ConnRecord
    BY <1>1, <1>2, <1>3 DEF With
  <1>5. With(r, t, "explicit") \in ConnRecord
    BY <1>1, <1>2, <1>3 DEF With
  <1>6. Without(r, t) \in ConnRecord
    BY <1>1, <1>2, <1>3 DEF Without
  <1> QED
    BY <1>4, <1>5, <1>6

LEMMA SubscribeLockedType ==
  ASSUME TypeOK, NEW c \in Conn, NEW t \in Topic,
         NEW kind \in {"auto", "explicit"}, SubscribeLocked(c, t, kind)
  PROVE  /\ conn' \in [Conn -> ConnRecord]
         /\ live' \in SUBSET Topic
         /\ subs' \in [Topic -> SUBSET Conn]
         /\ cursor' \in [Topic -> Cursor]
         /\ interest' \in SUBSET Topic
         /\ nextEpoch' \in Nat \ {0}
  <1>1. conn' \in [Conn -> ConnRecord]
    <2>1. conn[c] \in ConnRecord
      BY DEF TypeOK
    <2>2. With(conn[c], t, kind) \in ConnRecord
      BY <2>1, WithType
    <2> QED
      BY <2>2 DEF SubscribeLocked, TypeOK
  <1>2. /\ live' \in SUBSET Topic
        /\ interest' \in SUBSET Topic
        /\ nextEpoch' \in Nat \ {0}
    BY DEF SubscribeLocked, TypeOK
  <1>3. subs' \in [Topic -> SUBSET Conn]
    BY DEF SubscribeLocked, TypeOK
  <1>4. cursor' \in [Topic -> Cursor]
    BY DEF SubscribeLocked, TypeOK, CursorOf, Cursor
  <1> QED
    BY <1>1, <1>2, <1>3, <1>4

LEMMA DropSubscriberType ==
  ASSUME TypeOK, NEW c \in Conn, NEW t \in Topic, DropSubscriber(c, t)
  PROVE  /\ live' \in SUBSET Topic
         /\ subs' \in [Topic -> SUBSET Conn]
         /\ cursor' \in [Topic -> Cursor]
         /\ interest' \in SUBSET Topic
         /\ nextEpoch' \in Nat \ {0}
  <1>1. /\ live' \in SUBSET Topic
        /\ interest' \in SUBSET Topic
        /\ nextEpoch' \in Nat \ {0}
    BY DEF DropSubscriber, TypeOK
  <1>2. subs' \in [Topic -> SUBSET Conn]
    BY DEF DropSubscriber, TypeOK
  <1>3. cursor' \in [Topic -> Cursor]
    BY ConstantTypes DEF DropSubscriber, TypeOK
  <1> QED
    BY <1>1, <1>2, <1>3

LEMMA DetachLockedType ==
  ASSUME TypeOK, NEW c \in Conn, DetachLocked(c)
  PROVE  /\ conn' \in [Conn -> ConnRecord]
         /\ perUser' \in [User -> Nat]
         /\ devices' \in [Device -> Conn \cup {NoConn}]
         /\ told' \in [Conn -> [Topic -> Cursor]]
  <1>1. conn' \in [Conn -> ConnRecord]
    BY ConstantTypes DEF DetachLocked, TypeOK
  <1>2. perUser' \in [User -> Nat]
    BY DEF DetachLocked, TypeOK, PerUserWithout
  <1>3. devices' \in [Device -> Conn \cup {NoConn}]
    BY DEF DetachLocked, TypeOK, DevicesWithout
  <1>4. told' \in [Conn -> [Topic -> Cursor]]
    BY ConstantTypes DEF DetachLocked, TypeOK
  <1> QED
    BY <1>1, <1>2, <1>3, <1>4

LEMMA SubscriptionsType ==
  ASSUME NEW c \in Conn
  PROVE  Subscriptions(c) \in SUBSET (Conn \X Topic)
  BY DEF Subscriptions

\* Every step keeps every variable in its type.
LEMMA StepType == TypeOK /\ [Next]_vars => TypeOK'
  <1> SUFFICES ASSUME TypeOK, [Next]_vars PROVE TypeOK'
    OBVIOUS
  <1> USE DEF connVars, topicVars, appVars
  <1>1. ASSUME NEW c \in Conn, Register(c) PROVE TypeOK'
    <2>1. conn' \in [Conn -> ConnRecord]
      BY <1>1, ConstantTypes DEF Register, TypeOK
    <2> QED
      BY <1>1, <2>1 DEF Register, TypeOK
  <1>2. ASSUME NEW c \in Conn, Detach(c), closing' = closing \ {c} PROVE TypeOK'
    <2>1. work' \in WorkRecord
      BY <1>2, SubscriptionsType DEF Detach, TypeOK, WorkRecord
    <2>2. DetachLocked(c)
      BY <1>2 DEF Detach
    <2> QED
      BY <1>2, <2>1, <2>2, DetachLockedType DEF Detach, TypeOK
  <1>3. ASSUME NEW c \in Conn, CloseStale(c) PROVE TypeOK'
    BY <1>3 DEF CloseStale, TypeOK
  <1>4. ASSUME NEW c \in Conn, NEW u \in User \cup {NoUser},
               NEW d \in Device \cup {NoDevice}, Authenticate(c, u, d)
        PROVE TypeOK'
    <2> DEFINE holder == IF d \in Device THEN devices[d] ELSE NoConn
               bind == {[conn |-> c, user |-> u, device |-> d]}
    <2>1. bind \in SUBSET Binding
      BY DEF Binding
    <2>2. CASE holder \in {NoConn, c}
      <3>1. work' = [work EXCEPT !.bind = bind]
        BY <1>4, <2>2 DEF Authenticate
      <3>2. work' \in WorkRecord
        BY <2>1, <3>1 DEF TypeOK, WorkRecord
      <3> QED
        BY <1>4, <2>2, <3>2 DEF Authenticate, TypeOK
    <2>3. CASE holder \notin {NoConn, c}
      <3>1. holder \in Conn
        BY <2>3 DEF TypeOK
      <3>2. /\ DetachLocked(holder)
            /\ work' = [work EXCEPT !.bind = bind, !.drop = Subscriptions(holder)]
        BY <1>4, <2>3 DEF Authenticate
      <3>3. work' \in WorkRecord
        BY <2>1, <3>1, <3>2, SubscriptionsType DEF TypeOK, WorkRecord
      <3> HIDE DEF holder
      <3> QED
        BY <1>4, <3>1, <3>2, <3>3, DetachLockedType DEF Authenticate, TypeOK
    <2> QED
      BY <2>2, <2>3
  <1>5. ASSUME NEW c \in Conn, NEW u \in User \cup {NoUser},
               NEW d \in Device \cup {NoDevice}, Refuse(c, u, d)
        PROVE TypeOK'
    BY <1>5 DEF Refuse, TypeOK
  <1>6. ASSUME NEW u \in User, CloseUser(u) PROVE TypeOK'
    BY <1>6 DEF CloseUser, TypeOK, Open
  <1>7. ASSUME NEW t \in Topic, CloseTopic(t) PROVE TypeOK'
    BY <1>7 DEF CloseTopic, TypeOK
  <1>8. ASSUME Bind PROVE TypeOK'
    <2>1. PICK b \in work.bind : Bind!(b)
      BY <1>8 DEF Bind
    <2>2. b \in Binding
      BY DEF TypeOK, WorkRecord
    <2>3. perUser' \in [User -> Nat] /\ devices' \in [Device -> Conn \cup {NoConn}]
      BY <2>1, <2>2 DEF TypeOK, Binding
    <2>4. conn' \in [Conn -> ConnRecord]
      <3>1. ASSUME NEW r \in ConnRecord
            PROVE [r EXCEPT !.auth = TRUE, !.user = b.user,
                            !.device = b.device] \in ConnRecord
        BY <2>2 DEF Binding, ConnRecord
      <3> QED
        BY <2>1, <2>2, <3>1 DEF TypeOK, Binding
    <2>5. work' \in WorkRecord
      <3>1. {<<b.conn, UserTopic[u]>> : u \in User \cap {b.user}}
              \in SUBSET (Conn \X Topic)
        BY <2>2, TopicAssumption DEF Binding
      <3>2. {<<b.conn, DeviceTopic[p]>> : p \in (User \cap {b.user}) \X
                                               (Device \cap {b.device})}
              \in SUBSET (Conn \X Topic)
        BY <2>2, TopicAssumption DEF Binding
      <3> QED
        BY <2>1, <3>1, <3>2 DEF TypeOK, WorkRecord
    <2> QED
      BY <2>1, <2>3, <2>4, <2>5 DEF TypeOK
  <1>9. ASSUME Join PROVE TypeOK'
    <2>1. PICK p \in work.join : Join!(p)
      BY <1>9 DEF Join
    <2>2. p[1] \in Conn /\ p[2] \in Topic
      BY DEF TypeOK, WorkRecord
    <2>3. work' \in WorkRecord
      BY <2>1 DEF TypeOK, WorkRecord
    <2> QED
      BY <2>1, <2>2, <2>3, SubscribeLockedType DEF TypeOK
  <1>10. ASSUME Drop PROVE TypeOK'
    <2>1. PICK p \in work.drop : Drop!(p)
      BY <1>10 DEF Drop
    <2>2. p[1] \in Conn /\ p[2] \in Topic
      BY DEF TypeOK, WorkRecord
    <2>3. work' \in WorkRecord
      BY <2>1 DEF TypeOK, WorkRecord
    <2> QED
      BY <2>1, <2>2, <2>3, DropSubscriberType DEF TypeOK
  <1>11. ASSUME NEW full \in BOOLEAN, Tell(full) PROVE TypeOK'
    <2>1. PICK p \in work.tell : Tell(full)!(p)
      BY <1>11 DEF Tell
    <2>2. p[1] \in Conn /\ p[2] \in Topic /\ p \in Conn \X Topic
      BY DEF TypeOK, WorkRecord
    <2>3. conn' \in [Conn -> ConnRecord]
      BY <2>1, <2>2, WithType DEF TypeOK
    <2>4. closing' \in SUBSET Conn
      BY <2>1, <2>2 DEF TypeOK
    <2>6. told' \in [Conn -> [Topic -> Cursor]]
      <3>1. [told EXCEPT ![p[1]][p[2]] = NoCursor] \in [Conn -> [Topic -> Cursor]]
        BY <2>2, ConstantTypes DEF TypeOK
      <3> QED
        BY <2>1, <3>1 DEF TypeOK
    <2>5. work' \in WorkRecord
      BY <2>1, <2>2 DEF TypeOK, WorkRecord
    <2> QED
      BY <2>1, <2>3, <2>4, <2>5, <2>6 DEF TypeOK
  <1>12. ASSUME NEW full \in SUBSET Conn, ResetTopic(full) PROVE TypeOK'
    <2>1. PICK t \in work.reset : ResetTopic(full)!(t)
      BY <1>12 DEF ResetTopic
    <2>2. t \in Topic
      BY DEF TypeOK, WorkRecord
    <2>3. NextEpoch(t) \in Cursor
      BY DEF NextEpoch, Cursor, TypeOK
    <2>4. nextEpoch' \in Nat \ {0} /\ closing' \in SUBSET Conn
      BY <2>1 DEF TypeOK
    <2>5. subs' \in [Topic -> SUBSET Conn]
      BY <2>1, <2>2 DEF TypeOK
    <2>6. conn' \in [Conn -> ConnRecord]
      BY <2>1, <2>2, WithType DEF TypeOK
    <2>7. told' \in [Conn -> [Topic -> Cursor]]
      <3> HIDE DEF NextEpoch
      <3>1. ASSUME NEW c \in Conn
            PROVE /\ [told[c] EXCEPT ![t] = NoCursor] \in [Topic -> Cursor]
                  /\ [told[c] EXCEPT ![t] = NextEpoch(t)] \in [Topic -> Cursor]
                  /\ told[c] \in [Topic -> Cursor]
        BY <2>2, <2>3, ConstantTypes DEF TypeOK
      <3> QED
        BY <2>1, <3>1 DEF TypeOK
    <2>8. /\ live' \in SUBSET Topic /\ interest' \in SUBSET Topic
          /\ cursor' \in [Topic -> Cursor]
      BY <2>1, <2>2, <2>3, ConstantTypes DEF TypeOK
    <2>9. work' \in WorkRecord
      BY <2>1 DEF TypeOK, WorkRecord
    <2> QED
      BY <2>1, <2>4, <2>5, <2>6, <2>7, <2>8, <2>9 DEF TypeOK
  <1>13. ASSUME NEW k \in Task, NEW c \in Conn, NEW t \in Room,
                StartSubscribe(k, c, t)
         PROVE TypeOK'
    <2>1. revocations[SlotOf[t]] \in Nat
      BY TopicAssumption DEF TypeOK
    <2>2. task' \in [Task -> BusyTask \cup {IdleTask}]
      BY <1>13, <2>1, TopicAssumption DEF StartSubscribe, TypeOK, BusyTask
    <2> QED
      BY <1>13, <2>2 DEF StartSubscribe, TypeOK
  <1>14. ASSUME NEW k \in Task,
                Grant(k) \/ Deny(k) \/ SubscribeRefused(k) \/ Resolve(k)
         PROVE TypeOK'
    <2>1. task[k].phase # "idle" => task[k] \in BusyTask
      BY DEF TypeOK, IdleTask
    <2>2. ASSUME Grant(k) PROVE task' \in [Task -> BusyTask \cup {IdleTask}]
      <3>1. [task[k] EXCEPT !.phase = "granted"] \in BusyTask
        BY <2>1, <2>2 DEF Grant, BusyTask
      <3> QED
        BY <2>2, <3>1 DEF Grant, TypeOK
    <2>3. ASSUME Deny(k) PROVE task' \in [Task -> BusyTask \cup {IdleTask}]
      BY <2>3 DEF Deny, TypeOK
    <2>4. ASSUME SubscribeRefused(k)
          PROVE  task' \in [Task -> BusyTask \cup {IdleTask}]
      <3>1. [task[k] EXCEPT !.phase = "again"] \in BusyTask
        BY <2>1, <2>4 DEF SubscribeRefused, BusyTask
      <3> QED
        BY <2>4, <3>1 DEF SubscribeRefused, TypeOK
    <2>5. ASSUME Resolve(k) PROVE task' \in [Task -> BusyTask \cup {IdleTask}]
      <3>1. task[k] \in BusyTask
        BY <2>1, <2>5 DEF Resolve
      <3>2. revocations[SlotOf[task[k].topic]] \in Nat
        BY <3>1, TopicAssumption DEF TypeOK, BusyTask
      <3>3. task[k].attempts + 1 \in Nat
        BY <3>1 DEF BusyTask
      <3>4. ASSUME NEW m \in Nat, NEW n \in Nat
            PROVE  [task[k] EXCEPT !.phase = "authorizing", !.mark = m,
                                   !.attempts = n] \in BusyTask
        BY <3>1 DEF BusyTask
      <3> QED
        BY <2>5, <3>2, <3>3, <3>4 DEF Resolve, TypeOK
    <2> QED
      BY <1>14, <2>2, <2>3, <2>4, <2>5
      DEF Grant, Deny, SubscribeRefused, Resolve, TypeOK
  <1>15. ASSUME NEW k \in Task, NEW full \in BOOLEAN, Subscribe(k, full)
         PROVE TypeOK'
    <2> DEFINE c == task[k].conn
               t == task[k].topic
    <2>1. c \in Conn /\ t \in Topic
      BY <1>15, TopicAssumption DEF Subscribe, TypeOK, BusyTask, IdleTask
    <2>2. SubscribeLocked(c, t, "explicit")
      BY <1>15 DEF Subscribe
    <2>3. CursorOf(t) \in Cursor
      BY <2>1 DEF CursorOf, TypeOK, Cursor
    <2> HIDE DEF c, t
    <2>4. [told EXCEPT ![c][t] = CursorOf(t)] \in [Conn -> [Topic -> Cursor]]
      BY <2>1, <2>3 DEF TypeOK
    <2>5. told' \in [Conn -> [Topic -> Cursor]] /\ closing' \in SUBSET Conn
      BY <1>15, <2>1, <2>4 DEF Subscribe, TypeOK, c, t
    <2>6. task' \in [Task -> BusyTask \cup {IdleTask}]
      BY <1>15 DEF Subscribe, TypeOK
    <2> QED
      BY <1>15, <2>1, <2>2, <2>5, <2>6, SubscribeLockedType
      DEF Subscribe, TypeOK
  <1>16. ASSUME NEW c \in Conn, NEW t \in Room, SubscribeSession(c, t)
         PROVE TypeOK'
    <2>1. t \in Topic
      BY TopicAssumption
    <2> QED
      BY <1>16, <2>1, SubscribeLockedType DEF SubscribeSession, TypeOK
  <1>17. ASSUME NEW c \in Conn, NEW t \in Topic, Unsubscribe(c, t)
         PROVE TypeOK'
    <2>1. conn' \in [Conn -> ConnRecord]
      BY <1>17, WithType DEF Unsubscribe, TypeOK
    <2>2. told' \in [Conn -> [Topic -> Cursor]]
      BY <1>17, ConstantTypes DEF Unsubscribe, TypeOK
    <2>3. DropSubscriber(c, t)
      BY <1>17 DEF Unsubscribe
    <2> QED
      BY <1>17, <2>1, <2>2, <2>3, DropSubscriberType DEF Unsubscribe, TypeOK
  <1>18. ASSUME NEW u \in User, NEW t \in Room,
                Withdraw(u, t) \/ Readmit(u, t) \/ LoseKick(u, t)
         PROVE TypeOK'
    BY <1>18 DEF Withdraw, Readmit, LoseKick, TypeOK, Access
  <1>19. ASSUME NEW u \in User, NEW t \in Room, KickLocal(u, t)
         PROVE  /\ work' \in WorkRecord
                /\ revocations' \in [Slot -> Nat]
    <2>1. t \in Topic
      BY TopicAssumption
    <2>2. {<<c, t>> : c \in {x \in subs[t] \cap Open : conn[x].user = u}}
             \in SUBSET (Conn \X Topic)
      BY <2>1 DEF Open
    <2>3. work' \in WorkRecord
      BY <1>19, <2>2 DEF KickLocal, TypeOK, WorkRecord
    <2>4. revocations' \in [Slot -> Nat]
      BY <1>19, <2>1, TopicAssumption DEF KickLocal, TypeOK
    <2> QED
      BY <2>3, <2>4
  <1>20. ASSUME NEW u \in User, NEW t \in Room,
                Kicked(u, t, "kicked") \/ Kicked(u, t, "kickedRemotely")
         PROVE  access' \in [User \X Room -> Access]
    BY <1>20 DEF Kicked, TypeOK, Access
  <1>21. ASSUME NEW u \in User, NEW t \in Room, KickUser(u, t) PROVE TypeOK'
    BY <1>19, <1>20, <1>21 DEF KickUser, KickLocal, TypeOK
  <1>22. ASSUME NEW u \in User, NEW t \in Room, DeliverKick(u, t)
         PROVE TypeOK'
    BY <1>20, <1>22 DEF DeliverKick, TypeOK
  <1>23. ASSUME NEW u \in User, NEW t \in Room, KickDelivered(u, t)
         PROVE TypeOK'
    BY <1>19, <1>20, <1>23 DEF KickDelivered, KickLocal, TypeOK
  <1>24. ASSUME ResetMarks PROVE TypeOK'
    <2>1. revocations' \in [Slot -> Nat]
      BY <1>24 DEF ResetMarks, TypeOK
    <2>2. access' \in [User \X Room -> Access]
      BY <1>24 DEF ResetMarks, Heal, TypeOK, Access
    <2>3. resetting' \in BOOLEAN
      BY <1>24, Zenon DEF ResetMarks
    <2> QED
      BY <1>24, <2>1, <2>2, <2>3 DEF ResetMarks, TypeOK
  <1>25. ASSUME Reset PROVE TypeOK'
    <2>1. work' \in WorkRecord
      BY <1>25 DEF Reset, TypeOK, WorkRecord
    <2>2. access' \in [User \X Room -> Access]
      BY <1>25 DEF Reset, Heal, TypeOK, Access
    <2>3. resetting' \in BOOLEAN
      BY <1>25, Zenon DEF Reset
    <2> QED
      BY <1>25, <2>1, <2>2, <2>3 DEF Reset, TypeOK
  <1>26. ASSUME NEW t \in Topic, NEW full \in SUBSET subs[t], FanOut(t, full)
         PROVE TypeOK'
    <2> DEFINE next == [cursor[t] EXCEPT !.seq = @ + 1]
    <2>1. next \in Cursor
      <3>1. ASSUME NEW r \in Cursor PROVE [r EXCEPT !.seq = @ + 1] \in Cursor
        BY DEF Cursor
      <3> QED
        BY <3>1 DEF TypeOK
    <2>2. cursor' = [cursor EXCEPT ![t] = next]
      BY <1>26 DEF FanOut
    <2>3. told' = [c \in Conn |->
             IF c \in subs[t] \ full /\ told[c][t] # NoCursor
             THEN [told[c] EXCEPT ![t] = next] ELSE told[c]]
      BY <1>26 DEF FanOut
    <2> HIDE DEF next
    <2>4. cursor' \in [Topic -> Cursor] /\ told' \in [Conn -> [Topic -> Cursor]]
      BY <2>1, <2>2, <2>3 DEF TypeOK
    <2>5. closing' \in SUBSET Conn
      BY <1>26 DEF FanOut, TypeOK
    <2> QED
      BY <1>26, <2>4, <2>5 DEF FanOut, TypeOK
  <1>27. CASE UNCHANGED vars
    BY <1>27 DEF vars, TypeOK
  <1>28. IdentityTopic \subseteq Topic
    BY TopicAssumption DEF IdentityTopic
  <1>29. ASSUME NEW c \in Conn, Close(c) \/ Leave(c) PROVE TypeOK'
    BY <1>2, <1>29 DEF Close, Leave, Detach
  <1>30. CASE ConnNext
    BY <1>1, <1>3, <1>4, <1>5, <1>6, <1>7, <1>28, <1>29, <1>30 DEF ConnNext
  <1>31. CASE SectionNext
    BY <1>8, <1>9, <1>10, <1>11, <1>12, <1>31 DEF SectionNext
  <1>32. CASE SubscribeNext
    BY <1>13, <1>14, <1>15, <1>16, <1>17, <1>32 DEF SubscribeNext
  <1>33. CASE RevokeNext
    BY <1>18, <1>21, <1>22, <1>23, <1>24, <1>25, <1>33 DEF RevokeNext
  <1> QED
    BY <1>26, <1>27, <1>30, <1>31, <1>32, <1>33 DEF Next

\* Every variable keeps its type, whatever the instance.
THEOREM TypeCorrect == Spec => []TypeOK
  BY InitType, StepType, PTL DEF Spec

-----------------------------------------------------------------------------
(* The indexes                                                             *)

\* What entering and leaving a topic does to a connection record.
LEMMA WithFacts ==
  ASSUME NEW r \in ConnRecord, NEW t \in Topic, NEW kind \in {"auto", "explicit"}
  PROVE  /\ With(r, t, kind).topics = [r.topics EXCEPT ![t] = kind]
         /\ With(r, t, kind).st = r.st
         /\ Without(r, t).topics = [r.topics EXCEPT ![t] = "no"]
         /\ Without(r, t).st = r.st
  BY DEF With, Without, ConnRecord

\* SubscribeLocked, index by index.
Entered(c, t, kind) ==
  /\ \A x \in Conn : conn'[x].st = conn[x].st
  /\ \A x \in Conn, y \in Topic :
       conn'[x].topics[y] =
         IF x = c /\ y = t /\ conn[c].topics[t] = "no" THEN kind
         ELSE conn[x].topics[y]
  /\ \A x \in Conn, y \in Topic :
       x \in subs'[y] <=>
         x \in subs[y] \/ (x = c /\ y = t /\ conn[c].topics[t] = "no")
  /\ \A y \in Topic : y # t => subs'[y] = subs[y]

LEMMA SubscribeLockedFacts ==
  ASSUME TypeOK, NEW c \in Conn, NEW t \in Topic,
         NEW kind \in {"auto", "explicit"}, SubscribeLocked(c, t, kind)
  PROVE  Entered(c, t, kind)
  <1> USE DEF Entered
  <1>1. CASE conn[c].topics[t] # "no"
    BY <1>1 DEF SubscribeLocked
  <1>2. CASE conn[c].topics[t] = "no"
    <2>1. /\ conn' = [conn EXCEPT ![c] = With(conn[c], t, kind)]
          /\ subs' = [subs EXCEPT ![t] = @ \cup {c}]
      BY <1>2 DEF SubscribeLocked
    <2>2. conn[c] \in ConnRecord /\ conn[c].topics \in [Topic -> Membership]
      BY DEF TypeOK, ConnRecord
    <2>3. /\ With(conn[c], t, kind).topics = [conn[c].topics EXCEPT ![t] = kind]
          /\ With(conn[c], t, kind).st = conn[c].st
      BY <2>2 DEF With, ConnRecord
    <2>4. \A x \in Conn : conn'[x] = IF x = c THEN With(conn[c], t, kind)
                                     ELSE conn[x]
      BY <2>1 DEF TypeOK
    <2>5. \A y \in Topic : subs'[y] = IF y = t THEN subs[y] \cup {c} ELSE subs[y]
      BY <2>1 DEF TypeOK
    <2> HIDE DEF With
    <2> QED
      BY <1>2, <2>2, <2>3, <2>4, <2>5
  <1> QED
    BY <1>1, <1>2

\* A subscribe that is the only thing its section does next keeps the indexes
\* and the interest exact.
LEMMA SubscribeLockedIndex ==
  ASSUME IndexInv, NEW c \in Conn, NEW t \in Topic,
         NEW kind \in {"auto", "explicit"}, SubscribeLocked(c, t, kind),
         work.drop = {}, work'.drop = {}
  PROVE  IndexesAgree' /\ InterestExact'
  <1>1. TypeOK
    BY DEF IndexInv
  <1>4. Entered(c, t, kind)
    BY <1>1, SubscribeLockedFacts
  <1> USE DEF Entered
  <1>2. IndexesAgree'
    <2>1. \A x \in Conn, y \in Topic :
            x \in subs[y] <=> conn[x].topics[y] # "no"
      BY DEF IndexInv, IndexesAgree
    <2>2. \A x \in Conn, y \in Topic :
            x \in subs'[y] <=> conn'[x].topics[y] # "no"
      <3>1. TAKE x \in Conn, y \in Topic
      <3>2. CASE x = c /\ y = t /\ conn[c].topics[t] = "no"
        BY <1>4, <3>2
      <3>3. CASE ~ (x = c /\ y = t /\ conn[c].topics[t] = "no")
        <4>1. conn'[x].topics[y] = conn[x].topics[y]
          BY <1>4, <3>3
        <4>2. x \in subs'[y] <=> x \in subs[y]
          BY <1>4, <3>3, <2>1
        <4> QED
          BY <2>1, <4>1, <4>2
      <3> QED
        BY <3>2, <3>3
    <2> QED
      BY <2>2 DEF IndexesAgree
  <1>3. InterestExact'
    <2>1. c \in subs'[t]
      BY <1>1, <1>4 DEF IndexInv, IndexesAgree, TypeOK
    <2>2. \A y \in Topic : y # t => subs'[y] = subs[y]
      BY <1>4
    <2>3. live' = live \cup {t} /\ interest' = live'
      BY DEF SubscribeLocked, IndexInv, InterestExact
    <2> QED
      BY <1>1, <2>1, <2>2, <2>3 DEF IndexInv, InterestExact, TypeOK
  <1> QED
    BY <1>2, <1>3

\* Dropping a subscriber keeps the interest exact.
LEMMA DropSubscriberInterest ==
  ASSUME TypeOK, InterestExact, NEW c \in Conn, NEW t \in Topic,
         DropSubscriber(c, t)
  PROVE  /\ InterestExact'
         /\ \A y \in Topic : subs'[y] = IF y = t THEN subs[y] \ {c} ELSE subs[y]
  <1>1. \A y \in Topic : subs'[y] = IF y = t THEN subs[y] \ {c} ELSE subs[y]
    BY DEF DropSubscriber, TypeOK
  <1>2. InterestExact'
    BY <1>1 DEF DropSubscriber, InterestExact, TypeOK
  <1> QED
    BY <1>1, <1>2

LEMMA InitIndex == Init => IndexInv
  <1> SUFFICES ASSUME Init PROVE IndexInv
    OBVIOUS
  <1>1. TypeOK
    BY InitType
  <1>2. IndexesAgree /\ InterestExact
    BY DEF Init, IndexesAgree, InterestExact, Unregistered, NoWork
  <1>3. SectionShape
    BY DEF Init, SectionShape, Open, Unregistered, NoWork
  <1> QED
    BY <1>1, <1>2, <1>3 DEF IndexInv

\* Steps that touch neither the indexes nor the section.
LEMMA QuietIndex ==
  ASSUME IndexInv, TypeOK', UNCHANGED <<conn, subs, live, interest, work>>
  PROVE  IndexInv'
  BY DEF IndexInv, SectionShape, IndexesAgree, InterestExact, Open

\* DetachLocked leaves an empty record behind.
LEMMA DetachLockedFacts ==
  ASSUME TypeOK, NEW c \in Conn, DetachLocked(c)
  PROVE  /\ \A y \in Topic : conn'[c].topics[y] = "no"
         /\ conn'[c].st = "gone"
         /\ \A x \in Conn : x # c => conn'[x] = conn[x]
  <1>1. conn'[c] = Removed /\ \A x \in Conn : x # c => conn'[x] = conn[x]
    BY DEF DetachLocked, TypeOK
  <1>2. Removed.st = "gone" /\ Removed.topics = [t \in Topic |-> "no"]
    BY DEF Removed, Unregistered
  <1> QED
    BY <1>1, <1>2

\* A section that starts by detaching a connection, and does nothing else but
\* bind another one.
LEMMA DetachIndex ==
  ASSUME IndexInv, TypeOK', Idle, NEW c \in Conn, DetachLocked(c),
         UNCHANGED <<subs, live, interest>>,
         work'.drop = Subscriptions(c), work'.tell = {}, work'.join = {},
         work'.reset = {}, \A b \in work'.bind : conn[b.conn].st = "open" /\ b.conn \in Conn \ {c}
  PROVE  IndexInv'
  <1>1. TypeOK /\ work.drop = {}
    BY DEF IndexInv, Idle, NoWork
  <1>2. /\ \A y \in Topic : conn'[c].topics[y] = "no"
        /\ conn'[c].st = "gone"
        /\ \A x \in Conn : x # c => conn'[x] = conn[x]
    BY <1>1, DetachLockedFacts
  <1>6. \A x \in Conn, y \in Topic :
          <<x, y>> \in work'.drop <=> x = c /\ conn[c].topics[y] # "no"
    <2>1. TAKE x \in Conn, y \in Topic
    <2>2. <<x, y>> \in Subscriptions(c) <=> x = c /\ conn[c].topics[y] # "no"
      BY DEF Subscriptions
    <2> QED
      BY <2>2
  <1>3. IndexesAgree'
    <2>1. \A x \in Conn, y \in Topic :
             x \in subs'[y] <=> conn[x].topics[y] # "no"
      BY <1>1 DEF IndexInv, IndexesAgree
    <2>2. ASSUME NEW x \in Conn, NEW y \in Topic
          PROVE  x \in subs'[y] <=>
                   conn'[x].topics[y] # "no" \/ <<x, y>> \in work'.drop
      <3>1. CASE x = c
        BY <1>2, <1>6, <2>1, <3>1, Zenon
      <3>2. CASE x # c
        BY <1>2, <1>6, <2>1, <3>2, Zenon
      <3> QED
        BY <3>1, <3>2
    <2> QED
      BY <2>2 DEF IndexesAgree
  <1>4. InterestExact'
    BY DEF IndexInv, InterestExact
  <1>5. SectionShape'
    <2>1. \A x \in Conn, y \in Topic :
            /\ <<x, y>> \in work'.drop => conn'[x].topics[y] = "no"
            /\ conn'[x].st # "open" => conn'[x].topics[y] = "no"
      <3>1. TAKE x \in Conn, y \in Topic
      <3>2. CASE x = c
        BY <1>2, <3>2
      <3>3. CASE x # c
        BY <1>2, <1>6, <3>3 DEF IndexInv, SectionShape
      <3> QED
        BY <3>2, <3>3
    <2>2. \A b \in work'.bind : conn'[b.conn].st = "open"
      BY <1>2
    <2> QED
      BY <2>1, <2>2 DEF SectionShape
  <1> QED
    BY <1>3, <1>4, <1>5 DEF IndexInv

LEMMA StepIndex == IndexInv /\ [Next]_vars => IndexInv'
  <1> SUFFICES ASSUME IndexInv, [Next]_vars PROVE IndexInv'
    OBVIOUS
  <1> USE DEF connVars, topicVars, appVars
  <1>t. TypeOK /\ TypeOK'
    BY StepType DEF IndexInv
  <1>i. SectionShape /\ IndexesAgree /\ InterestExact
    BY DEF IndexInv
  <1>q. UNCHANGED <<conn, subs, live, interest, work>> => IndexInv'
    BY <1>t, QuietIndex
  <1>1. ASSUME NEW c \in Conn, Register(c) PROVE IndexInv'
    <2>1. /\ \A y \in Topic : conn'[c].topics[y] = "no"
          /\ conn'[c].st = "open"
          /\ \A x \in Conn : x # c => conn'[x] = conn[x]
      BY <1>1, <1>t DEF Register, TypeOK, Registered, Unregistered
    <2>2. conn[c].st # "open"
      BY <1>1 DEF Register
    <2>3. \A y \in Topic : conn[c].topics[y] = "no"
      BY <1>i, <2>2 DEF SectionShape
    <2>4. IndexesAgree' /\ InterestExact'
      BY <1>1, <1>i, <2>1, <2>3 DEF Register, IndexesAgree, InterestExact
    <2>5. work' = NoWork
      BY <1>1 DEF Register, Idle
    <2>6. SectionShape'
      <3>1. \A x \in Conn, y \in Topic :
              conn'[x].st # "open" => conn'[x].topics[y] = "no"
        <4>1. TAKE x \in Conn, y \in Topic
        <4>2. CASE x = c
          BY <2>1, <4>2
        <4>3. CASE x # c
          <5>1. conn'[x] = conn[x]
            BY <2>1, <4>3
          <5>2. conn[x].st # "open" => conn[x].topics[y] = "no"
            BY <1>i DEF SectionShape
          <5> QED
            BY <5>1, <5>2
        <4> QED
          BY <4>2, <4>3
      <3> QED
        BY <2>5, <3>1 DEF SectionShape, NoWork
    <2> QED
      BY <1>t, <2>4, <2>6 DEF IndexInv
  <1>2. ASSUME NEW c \in Conn, Detach(c) PROVE IndexInv'
    <2>1. /\ DetachLocked(c) /\ Idle /\ UNCHANGED <<subs, live, interest>>
          /\ work' = [NoWork EXCEPT !.drop = Subscriptions(c)]
      BY <1>2 DEF Detach, Idle
    <2>2. /\ work'.drop = Subscriptions(c) /\ work'.tell = {}
          /\ work'.join = {} /\ work'.reset = {} /\ work'.bind = {}
      BY <2>1 DEF NoWork
    <2> QED
      BY <1>t, <2>1, <2>2, DetachIndex
  <1>3. ASSUME NEW c \in Conn, NEW u \in User \cup {NoUser},
               NEW d \in Device \cup {NoDevice}, Authenticate(c, u, d)
        PROVE IndexInv'
    <2> DEFINE holder == IF d \in Device THEN devices[d] ELSE NoConn
               bind == {[conn |-> c, user |-> u, device |-> d]}
    <2>1. c \in Open /\ Idle /\ UNCHANGED <<subs, live, interest>>
      BY <1>3 DEF Authenticate
    <2>2. CASE holder \in {NoConn, c}
      <3>1. /\ work' = [NoWork EXCEPT !.bind = bind] /\ UNCHANGED conn
        BY <1>3, <2>2 DEF Authenticate, Idle
      <3>2. /\ work'.drop = {} /\ work'.tell = {} /\ work'.join = {}
            /\ work'.reset = {} /\ work'.bind = bind
        BY <3>1 DEF NoWork
      <3>3. work.drop = {}
        BY <2>1 DEF Idle, NoWork
      <3>4. IndexesAgree' /\ InterestExact'
        BY <1>i, <2>1, <3>1, <3>2, <3>3 DEF IndexesAgree, InterestExact
      <3>5. SectionShape'
        BY <1>i, <2>1, <3>1, <3>2 DEF SectionShape, Open
      <3> QED
        BY <1>t, <3>4, <3>5 DEF IndexInv
    <2>3. CASE holder \notin {NoConn, c}
      <3>1. holder \in Conn
        BY <1>t, <2>3 DEF TypeOK
      <3>2. /\ DetachLocked(holder)
            /\ work' = [NoWork EXCEPT !.bind = bind,
                                      !.drop = Subscriptions(holder)]
        BY <1>3, <2>3 DEF Authenticate, Idle
      <3>3. /\ work'.drop = Subscriptions(holder) /\ work'.tell = {}
            /\ work'.join = {} /\ work'.reset = {} /\ work'.bind = bind
        BY <3>2 DEF NoWork
      <3>4. \A b \in bind : conn[b.conn].st = "open" /\ b.conn \in Conn \ {holder}
        BY <2>1, <2>3 DEF Open
      <3> HIDE DEF holder, bind
      <3> QED
        BY <1>t, <2>1, <3>1, <3>2, <3>3, <3>4, DetachIndex
    <2> QED
      BY <2>2, <2>3
  <1>4. ASSUME Bind PROVE IndexInv'
    <2>1. PICK b \in work.bind : Bind!(b)
      BY <1>4 DEF Bind
    <2>2. b \in Binding /\ b.conn \in Conn
      BY <1>t DEF TypeOK, WorkRecord, Binding
    <2>3. work.drop = {} /\ work.tell = {} /\ work.reset = {}
      BY <1>i, <2>1 DEF SectionShape
    <2>4. /\ work'.drop = {} /\ work'.tell = {} /\ work'.reset = {}
          /\ work'.bind = {}
      BY <1>t, <2>1, <2>3 DEF TypeOK, WorkRecord
    <2>5. \A p \in work'.join : p[1] = b.conn
      <3>1. work'.join =
              {<<b.conn, UserTopic[u]>> : u \in User \cap {b.user}}
              \cup {<<b.conn, DeviceTopic[p]>> :
                      p \in (User \cap {b.user}) \X (Device \cap {b.device})}
        BY <1>t, <2>1 DEF TypeOK, WorkRecord
      <3> QED
        BY <3>1
    <2>6. ASSUME NEW x \in Conn
          PROVE  conn'[x].st = conn[x].st /\ conn'[x].topics = conn[x].topics
      BY <1>t, <2>1, <2>2 DEF TypeOK, ConnRecord
    <2>7. IndexesAgree' /\ InterestExact'
      BY <1>i, <2>1, <2>3, <2>4, <2>6 DEF IndexesAgree, InterestExact
    <2>8. SectionShape'
      <3>1. ASSUME NEW x \in Conn, NEW y \in Topic, conn'[x].st # "open"
            PROVE  conn'[x].topics[y] = "no"
        <4>1. conn'[x].st = conn[x].st
          BY <2>6
        <4>2. conn[x].topics[y] = "no"
          BY <1>i, <3>1, <4>1 DEF SectionShape
        <4> QED
          BY <4>2, <2>6
      <3>2. conn'[b.conn].st = "open"
        BY <1>i, <2>2, <2>6 DEF SectionShape
      <3> QED
        BY <2>4, <2>5, <3>1, <3>2 DEF SectionShape
    <2> QED
      BY <1>t, <2>7, <2>8 DEF IndexInv
  <1>5. ASSUME NEW c \in Conn, NEW t \in Topic, NEW kind \in {"auto", "explicit"},
               SubscribeLocked(c, t, kind), conn[c].st = "open",
               work.drop = {}, work.tell = {}, work.bind = {}, work.reset = {},
               work'.drop = {}, work'.tell = {}, work'.bind = {}, work'.reset = {},
               work'.join \subseteq work.join
        PROVE  IndexInv'
    <2>1. IndexesAgree' /\ InterestExact'
      BY <1>5, SubscribeLockedIndex
    <2>2. Entered(c, t, kind)
      BY <1>5, <1>t, SubscribeLockedFacts
    <2>3. SectionShape'
      <3>1. \A x \in Conn, y \in Topic :
              conn'[x].st # "open" => conn'[x].topics[y] = "no"
        BY <1>5, <1>i, <2>2 DEF SectionShape, Entered
      <3>2. \A p \in work'.join : conn'[p[1]].st = "open"
        <4>1. TAKE p \in work'.join
        <4>2. p \in work.join /\ p[1] \in Conn
          BY <1>5, <1>t DEF TypeOK, WorkRecord
        <4> QED
          BY <1>i, <2>2, <4>2 DEF SectionShape, Entered
      <3> QED
        BY <1>5, <3>1, <3>2 DEF SectionShape
    <2> QED
      BY <1>t, <2>1, <2>3 DEF IndexInv
  <1>6. ASSUME Join PROVE IndexInv'
    <2>1. PICK p \in work.join : Join!(p)
      BY <1>6 DEF Join
    <2>2. p[1] \in Conn /\ p[2] \in Topic /\ conn[p[1]].st = "open"
      BY <1>t, <1>i DEF TypeOK, WorkRecord, SectionShape
    <2>3. /\ work.drop = {} /\ work.tell = {} /\ work.bind = {}
          /\ work.reset = {}
      BY <1>i, <2>1 DEF SectionShape
    <2>4. /\ work'.drop = {} /\ work'.tell = {} /\ work'.bind = {}
          /\ work'.reset = {} /\ work'.join \subseteq work.join
      BY <1>t, <2>1, <2>3 DEF TypeOK, WorkRecord
    <2> QED
      BY <1>5, <2>1, <2>2, <2>3, <2>4
  <1>7. ASSUME Idle, UNCHANGED work, NEW c \in Open, NEW t \in Topic,
               NEW kind \in {"auto", "explicit"}, SubscribeLocked(c, t, kind)
        PROVE  IndexInv'
    <2>1. /\ work.drop = {} /\ work.tell = {} /\ work.bind = {}
          /\ work.reset = {}
      BY <1>7 DEF Idle, NoWork
    <2>2. c \in Conn /\ conn[c].st = "open"
      BY DEF Open
    <2> QED
      BY <1>5, <1>7, <2>1, <2>2
  <1>8. ASSUME NEW k \in Task, NEW full \in BOOLEAN, Subscribe(k, full)
        PROVE  IndexInv'
    <2>1. task[k].conn \in Open
      BY <1>8, Zenon DEF Subscribe, Refused
    <2>3. task[k].topic \in Topic
      BY <1>8, <1>t, TopicAssumption DEF Subscribe, TypeOK, BusyTask, IdleTask
    <2>2. Idle /\ UNCHANGED work /\ SubscribeLocked(task[k].conn, task[k].topic, "explicit")
      BY <1>8 DEF Subscribe
    <2> QED
      BY <1>7, <2>1, <2>2, <2>3
  <1>9. ASSUME NEW c \in Conn, NEW t \in Room, SubscribeSession(c, t)
        PROVE  IndexInv'
    BY <1>7, <1>9, TopicAssumption DEF SubscribeSession
  <1>10. ASSUME Drop PROVE IndexInv'
    <2>1. PICK p \in work.drop : Drop!(p)
      BY <1>10 DEF Drop
    <2>2. p[1] \in Conn /\ p[2] \in Topic /\ p = <<p[1], p[2]>>
      BY <1>t DEF TypeOK, WorkRecord
    <2>3. /\ InterestExact'
          /\ \A y \in Topic : subs'[y] = IF y = p[2] THEN subs[y] \ {p[1]}
                                         ELSE subs[y]
      BY <1>t, <1>i, <2>1, <2>2, DropSubscriberInterest
    <2>4. /\ work'.drop = work.drop \ {p} /\ work'.tell = work.tell
          /\ work'.bind = work.bind /\ work'.join = work.join
          /\ work'.reset = work.reset /\ UNCHANGED conn
      BY <1>t, <2>1 DEF TypeOK, WorkRecord
    <2>5. SectionShape'
      BY <1>i, <2>4 DEF SectionShape
    <2>6. conn[p[1]].topics[p[2]] = "no"
      BY <1>i, <2>1, <2>2 DEF SectionShape
    <2>7. IndexesAgree'
      <3>1. SUFFICES ASSUME NEW x \in Conn, NEW y \in Topic
                     PROVE  x \in subs'[y] <=> conn[x].topics[y] # "no"
                                               \/ <<x, y>> \in work'.drop
        BY <2>4 DEF IndexesAgree
      <3>2. CASE x = p[1] /\ y = p[2]
        BY <2>2, <2>3, <2>4, <2>6, <3>2
      <3>3. CASE ~ (x = p[1] /\ y = p[2])
        <4>1. <<x, y>> # p
          BY <2>2, <3>3
        <4>2. x \in subs'[y] <=> x \in subs[y]
          BY <2>3, <3>3
        <4> QED
          BY <1>i, <2>4, <4>1, <4>2 DEF IndexesAgree
      <3> QED
        BY <3>2, <3>3
    <2> QED
      BY <1>t, <2>3, <2>5, <2>7 DEF IndexInv
  <1>11. ASSUME NEW c \in Conn, NEW t \in Topic, Unsubscribe(c, t)
         PROVE  IndexInv'
    <2>1. /\ DropSubscriber(c, t) /\ Idle /\ UNCHANGED work
          /\ conn' = [conn EXCEPT ![c] = Without(conn[c], t)]
      BY <1>11 DEF Unsubscribe
    <2>2. /\ InterestExact'
          /\ \A y \in Topic : subs'[y] = IF y = t THEN subs[y] \ {c} ELSE subs[y]
      BY <1>t, <1>i, <2>1, DropSubscriberInterest
    <2>3. /\ work.drop = {} /\ work.tell = {} /\ work.bind = {}
          /\ work.reset = {} /\ work.join = {}
      BY <2>1 DEF Idle, NoWork
    <2>4. ASSUME NEW x \in Conn
          PROVE  /\ conn'[x].st = conn[x].st
                 /\ \A y \in Topic : conn'[x].topics[y] =
                      IF x = c /\ y = t THEN "no" ELSE conn[x].topics[y]
      BY <1>t, <2>1 DEF TypeOK, ConnRecord, Without
    <2>5. IndexesAgree'
      <3>1. SUFFICES ASSUME NEW x \in Conn, NEW y \in Topic
                     PROVE  x \in subs'[y] <=> conn'[x].topics[y] # "no"
        BY <2>1, <2>3 DEF IndexesAgree
      <3>2. x \in subs[y] <=> conn[x].topics[y] # "no"
        BY <1>i, <2>3 DEF IndexesAgree
      <3> QED
        BY <2>2, <2>4, <3>2
    <2>6. SectionShape'
      BY <1>i, <2>1, <2>3, <2>4 DEF SectionShape
    <2> QED
      BY <1>t, <2>2, <2>5, <2>6 DEF IndexInv
  <1>12. ASSUME NEW full \in BOOLEAN, Tell(full) PROVE IndexInv'
    <2>1. PICK p \in work.tell : Tell(full)!(p)
      BY <1>12 DEF Tell
    <2>2. p[1] \in Conn /\ p[2] \in Topic /\ p = <<p[1], p[2]>>
      BY <1>t DEF TypeOK, WorkRecord
    <2>3. work.drop = {} /\ work.bind = {} /\ work.join = {} /\ work.reset = {}
      BY <1>i, <2>1 DEF SectionShape
    <2>4. /\ work'.tell = work.tell \ {p} /\ work'.drop = {p}
          /\ work'.bind = {} /\ work'.join = {} /\ work'.reset = {}
      BY <1>t, <2>1, <2>3 DEF TypeOK, WorkRecord
    <2>5. conn' = [conn EXCEPT ![p[1]] = Without(conn[p[1]], p[2])]
      BY <2>1
    <2>6. ASSUME NEW x \in Conn
          PROVE  /\ conn'[x].st = conn[x].st
                 /\ \A y \in Topic : conn'[x].topics[y] =
                      IF x = p[1] /\ y = p[2] THEN "no" ELSE conn[x].topics[y]
      BY <1>t, <2>2, <2>5 DEF TypeOK, ConnRecord, Without
    <2>7. \A x \in Conn, y \in Topic : <<x, y>> = p <=> x = p[1] /\ y = p[2]
      BY <2>2
    <2>8. IndexesAgree' /\ InterestExact'
      <3>1. \A x \in Conn, y \in Topic :
              x \in subs[y] <=> conn[x].topics[y] # "no"
        BY <1>i, <2>3 DEF IndexesAgree
      <3>2. conn[p[1]].topics[p[2]] # "no"
        BY <1>i, <2>1, <2>2 DEF SectionShape
      <3>3. UNCHANGED <<subs, live, interest>>
        BY <2>1
      <3>4. IndexesAgree'
        BY <2>4, <2>6, <2>7, <3>1, <3>2, <3>3 DEF IndexesAgree
      <3> QED
        BY <1>i, <3>3, <3>4 DEF InterestExact
    <2>9. SectionShape'
      <3>1. ASSUME NEW x \in Conn, NEW y \in Topic, conn'[x].st # "open"
            PROVE  conn'[x].topics[y] = "no"
        <4>1. conn'[x].st = conn[x].st
          BY <2>6
        <4>2. conn[x].topics[y] = "no"
          BY <1>i, <3>1, <4>1 DEF SectionShape
        <4> QED
          BY <4>2, <2>6
      <3>2. \A x \in Conn, y \in Topic :
              <<x, y>> \in work'.drop => conn'[x].topics[y] = "no"
        BY <2>4, <2>6, <2>7
      <3>3. \A x \in Conn, y \in Topic :
              <<x, y>> \in work'.tell => conn'[x].topics[y] # "no"
        BY <1>i, <2>4, <2>6, <2>7 DEF SectionShape
      <3> QED
        BY <2>4, <3>1, <3>2, <3>3 DEF SectionShape
    <2> QED
      BY <1>t, <2>8, <2>9 DEF IndexInv
  <1>13. ASSUME NEW u \in User, NEW t \in Room, KickLocal(u, t)
         PROVE  IndexInv'
    <2>1. t \in Topic
      BY TopicAssumption
    <2>2. /\ work.drop = {}
          /\ work'.tell = {<<c, t>> : c \in {x \in subs[t] \cap Open :
                                               conn[x].user = u}}
          /\ work'.drop = {} /\ work'.bind = {} /\ work'.join = {}
          /\ work'.reset = {}
          /\ UNCHANGED <<conn, subs, live, interest>>
      BY <1>13 DEF KickLocal, Idle, NoWork
    <2>3. \A x \in Conn, y \in Topic : <<x, y>> \in work'.tell => x \in subs[y]
      BY <2>2
    <2>4. IndexesAgree' /\ InterestExact'
      BY <1>i, <2>2 DEF IndexesAgree, InterestExact
    <2>5. \A x \in Conn, y \in Topic :
            <<x, y>> \in work'.tell => conn[x].topics[y] # "no"
      BY <1>i, <2>2, <2>3 DEF IndexesAgree
    <2>6. SectionShape'
      BY <1>i, <2>2, <2>5 DEF SectionShape
    <2> QED
      BY <1>t, <2>4, <2>6 DEF IndexInv
  <1>14. ASSUME Reset PROVE IndexInv'
    <2>1. /\ work.drop = {}
          /\ work'.drop = {} /\ work'.tell = {} /\ work'.bind = {}
          /\ work'.join = {}
          /\ UNCHANGED <<conn, subs, live, interest>>
      BY <1>14 DEF Reset, Idle, NoWork
    <2>2. IndexesAgree' /\ InterestExact'
      BY <1>i, <2>1 DEF IndexesAgree, InterestExact
    <2>3. SectionShape'
      BY <1>i, <2>1 DEF SectionShape
    <2> QED
      BY <1>t, <2>2, <2>3 DEF IndexInv
  <1>15. ASSUME NEW full \in SUBSET Conn, ResetTopic(full) PROVE IndexInv'
    <2>1. PICK t \in work.reset : ResetTopic(full)!(t)
      BY <1>15 DEF ResetTopic
    <2>2. t \in Topic
      BY <1>t DEF TypeOK, WorkRecord
    <2> DEFINE dropped == {c \in subs[t] \cap Open :
                             conn[c].topics[t] = "explicit"}
    <2>3. work.drop = {} /\ work.tell = {} /\ work.bind = {} /\ work.join = {}
      BY <1>i, <2>1 DEF SectionShape
    <2>4. /\ work'.drop = {} /\ work'.tell = {} /\ work'.bind = {}
          /\ work'.join = {}
      BY <1>t, <2>1, <2>3 DEF TypeOK, WorkRecord
    <2>5. /\ subs' = [subs EXCEPT ![t] = subs[t] \ dropped]
          /\ conn' = [c \in Conn |-> IF c \in dropped THEN Without(conn[c], t)
                                     ELSE conn[c]]
      BY <2>1
    <2>6. \A y \in Topic : subs'[y] = IF y = t THEN subs[t] \ dropped ELSE subs[y]
      BY <1>t, <2>2, <2>5 DEF TypeOK
    <2>7. InterestExact'
      <3>1. CASE subs[t] \ dropped = {}
        <4>1. live' = live \ {t} /\ interest' = interest \ {t}
          BY <2>1, <3>1
        <4> QED
          BY <1>t, <1>i, <2>6, <3>1, <4>1 DEF InterestExact, TypeOK
      <3>2. CASE subs[t] \ dropped # {}
        <4>1. live' = live /\ interest' = interest
          BY <2>1, <3>2
        <4> QED
          BY <1>t, <1>i, <2>2, <2>6, <3>2, <4>1 DEF InterestExact, TypeOK
      <3> QED
        BY <3>1, <3>2
    <2> HIDE DEF dropped
    <2>8. ASSUME NEW x \in Conn
          PROVE  /\ conn'[x].st = conn[x].st
                 /\ \A y \in Topic : conn'[x].topics[y] =
                      IF x \in dropped /\ y = t THEN "no" ELSE conn[x].topics[y]
      <3>1. conn[x] \in ConnRecord
        BY <1>t DEF TypeOK
      <3>2. CASE x \in dropped
        <4>1. conn'[x] = Without(conn[x], t)
          BY <2>5, <3>2
        <4> QED
          BY <2>2, <3>1, <3>2, <4>1 DEF ConnRecord, Without
      <3>3. CASE x \notin dropped
        <4>1. conn'[x] = conn[x]
          BY <2>5, <3>3
        <4> QED
          BY <3>3, <4>1
      <3> QED
        BY <3>2, <3>3
    <2>9. IndexesAgree'
      <3>1. SUFFICES ASSUME NEW x \in Conn, NEW y \in Topic
                     PROVE  x \in subs'[y] <=> conn'[x].topics[y] # "no"
        BY <2>4 DEF IndexesAgree
      <3>2. x \in subs[y] <=> conn[x].topics[y] # "no"
        BY <1>i, <2>3 DEF IndexesAgree
      <3> QED
        BY <2>6, <2>8, <3>2
    <2>10. SectionShape'
      <3>1. ASSUME NEW x \in Conn, NEW y \in Topic, conn'[x].st # "open"
            PROVE  conn'[x].topics[y] = "no"
        <4>1. conn'[x].st = conn[x].st
          BY <2>8
        <4>2. conn[x].topics[y] = "no"
          BY <1>i, <3>1, <4>1 DEF SectionShape
        <4> QED
          BY <4>2, <2>8
      <3> QED
        BY <2>4, <3>1 DEF SectionShape
    <2> QED
      BY <1>t, <2>7, <2>9, <2>10 DEF IndexInv
  <1>16. ASSUME NEW c \in Conn,
                CloseStale(c) \/ \E u \in User \cup {NoUser},
                                    d \in Device \cup {NoDevice} : Refuse(c, u, d)
         PROVE  IndexInv'
    BY <1>16, <1>q DEF CloseStale, Refuse
  <1>17. CASE ConnNext
    BY <1>1, <1>2, <1>3, <1>16, <1>17, <1>q
    DEF ConnNext, Close, Leave, CloseUser, CloseTopic
  <1>18. CASE SectionNext
    BY <1>4, <1>6, <1>10, <1>12, <1>15, <1>18 DEF SectionNext
  <1>19. CASE SubscribeNext
    <2>1. ASSUME NEW k \in Task,
                 Grant(k) \/ Deny(k) \/ SubscribeRefused(k) \/ Resolve(k)
          PROVE  IndexInv'
      BY <2>1, <1>q DEF Grant, Deny, SubscribeRefused, Resolve
    <2>2. ASSUME NEW k \in Task, NEW c \in Conn, NEW t \in Room,
                 StartSubscribe(k, c, t)
          PROVE  IndexInv'
      BY <2>2, <1>q DEF StartSubscribe
    <2> QED
      BY <1>8, <1>9, <1>11, <1>19, <2>1, <2>2 DEF SubscribeNext
  <1>20. CASE RevokeNext
    <2>1. ASSUME NEW u \in User, NEW t \in Room,
                 \/ Withdraw(u, t) \/ Readmit(u, t) \/ DeliverKick(u, t)
                 \/ LoseKick(u, t)
          PROVE  IndexInv'
      BY <2>1, <1>q DEF Withdraw, Readmit, DeliverKick, LoseKick
    <2>2. ASSUME NEW u \in User, NEW t \in Room,
                 KickUser(u, t) \/ KickDelivered(u, t)
          PROVE  IndexInv'
      BY <2>2, <1>13 DEF KickUser, KickDelivered
    <2>3. ASSUME ResetMarks PROVE IndexInv'
      BY <2>3, <1>q DEF ResetMarks
    <2> QED
      BY <1>14, <1>20, <2>1, <2>2, <2>3 DEF RevokeNext
  <1>21. ASSUME NEW t \in Topic, NEW full \in SUBSET subs[t], FanOut(t, full)
         PROVE  IndexInv'
    BY <1>21, <1>q DEF FanOut
  <1>22. CASE UNCHANGED vars
    BY <1>22, <1>q DEF vars
  <1> QED
    BY <1>17, <1>18, <1>19, <1>20, <1>21, <1>22 DEF Next

LEMMA IndexInvariant == Spec => []IndexInv
  BY InitIndex, StepIndex, PTL DEF Spec

\* A connection's topics and the topics' subscribers agree at every moment at
\* which no section is half-way through dropping a subscriber, for every
\* interleaving of subscribes, kicks, resets, supersedes and closes.
THEOREM IndexesAlwaysAgree == Spec => []IndexesAgree
  BY IndexInvariant, PTL DEF IndexInv

\* The broker's interest is exactly the topics with a local subscriber.
THEOREM InterestAlwaysExact == Spec => []InterestExact
  BY IndexInvariant, PTL DEF IndexInv

-----------------------------------------------------------------------------
(* The stream: no message is lost without a trace, and no cursor goes      *)
(* backwards.                                                              *)

-----------------------------------------------------------------------------
(* The cursors                                                             *)

LEMMA SubscribeLockedCursor ==
  ASSUME TypeOK, NEW c \in Conn, NEW t \in Topic,
         NEW kind \in {"auto", "explicit"}, SubscribeLocked(c, t, kind)
  PROVE  /\ \A y \in Topic : cursor'[y] = IF y = t THEN CursorOf(t) ELSE cursor[y]
         /\ CursorOf(t) \in Cursor
  BY DEF SubscribeLocked, CursorOf, TypeOK, Cursor

LEMMA DropSubscriberCursor ==
  ASSUME TypeOK, NEW c \in Conn, NEW t \in Topic, DropSubscriber(c, t)
  PROVE  /\ \A y \in Topic : y # t => cursor'[y] = cursor[y]
         /\ subs[t] \ {c} # {} => cursor'[t] = cursor[t]
         /\ cursor'[t] \in {cursor[t], NoCursor}
         /\ t \in live' => cursor'[t] = cursor[t]
         /\ live' \subseteq live
         /\ \A y \in Topic : subs'[y] = IF y = t THEN subs[y] \ {c} ELSE subs[y]
  BY DEF DropSubscriber, TypeOK

LEMMA DetachLockedTold ==
  ASSUME TypeOK, NEW c \in Conn, DetachLocked(c)
  PROVE  /\ \A x \in Conn, y \in Topic :
              told'[x][y] = IF x = c THEN NoCursor ELSE told[x][y]
         /\ \A x \in Conn : x # c => conn'[x].st = conn[x].st
  <1>1. told' = [told EXCEPT ![c] = [t \in Topic |-> NoCursor]]
        /\ conn' = [conn EXCEPT ![c] = Removed]
    BY DEF DetachLocked
  <1> QED
    BY <1>1 DEF TypeOK

-----------------------------------------------------------------------------
(* No silent gap                                                           *)

LEMMA InitStream == Init => StreamInv
  <1>1. Init => Settled /\ NoSilentGap
    BY DEF Init, Settled, NoSilentGap, NoWork
  <1> QED
    BY <1>1, InitIndex DEF StreamInv

\* Steps that leave the streams alone, and close no fewer connections.
LEMMA QuietStream ==
  ASSUME Settled, NoSilentGap, UNCHANGED <<told, subs, cursor>>,
         closing \subseteq closing', work'.drop = {} \/ work'.drop = work.drop,
         \A c \in Conn : conn'[c].st # "open" => conn[c].st # "open"
  PROVE  (Settled /\ NoSilentGap)'
  BY DEF Settled, NoSilentGap

\* Steps of a section that subscribes a connection without an ack.
LEMMA SubscribeLockedStream ==
  ASSUME StreamInv, NEW c \in Conn, NEW t \in Topic,
         NEW kind \in {"auto", "explicit"}, SubscribeLocked(c, t, kind),
         work'.drop = {}
  PROVE  /\ UNCHANGED <<told, closing>> => (Settled /\ NoSilentGap)'
         /\ \A x \in Conn, y \in Topic :
              told[x][y] # NoCursor =>
                x \in closing \/ (x \in subs'[y] /\ told[x][y] = cursor'[y])
         /\ \A x \in Conn : conn'[x].st = conn[x].st
  <1>1. TypeOK /\ IndexInv /\ Settled /\ NoSilentGap
    BY DEF StreamInv, IndexInv
  <1>2. Entered(c, t, kind)
    BY <1>1, SubscribeLockedFacts
  <1>3. \A y \in Topic : cursor'[y] = IF y = t THEN CursorOf(t) ELSE cursor[y]
    BY <1>1, SubscribeLockedCursor
  <1>4. \A y \in Topic : subs[y] # {} => cursor'[y] = cursor[y]
    BY <1>1, <1>3 DEF IndexInv, InterestExact, CursorOf
  <1>5. ASSUME NEW x \in Conn, NEW y \in Topic, told[x][y] # NoCursor
        PROVE  x \in closing \/ (x \in subs'[y] /\ told[x][y] = cursor'[y])
    BY <1>1, <1>2, <1>4, <1>5 DEF NoSilentGap, Entered
  <1>6. \A x \in Conn : conn'[x].st = conn[x].st
    BY <1>2 DEF Entered
  <1>7. ASSUME UNCHANGED <<told, closing>> PROVE (Settled /\ NoSilentGap)'
    BY <1>1, <1>5, <1>6, <1>7 DEF Settled, NoSilentGap
  <1> QED
    BY <1>5, <1>6, <1>7

\* Taking a connection out of the table.
LEMMA DetachStream ==
  ASSUME TypeOK, Settled, NoSilentGap, NEW c \in Conn, DetachLocked(c),
         UNCHANGED <<subs, cursor>>, closing \subseteq closing' \cup {c},
         work'.drop = Subscriptions(c)
  PROVE  (Settled /\ NoSilentGap)'
  <1>1. /\ \A x \in Conn, y \in Topic :
              told'[x][y] = IF x = c THEN NoCursor ELSE told[x][y]
        /\ \A x \in Conn : x # c => conn'[x].st = conn[x].st
    BY DetachLockedTold
  <1>2. \A x \in Conn, y \in Topic : <<x, y>> \in work'.drop => x = c
    BY DEF Subscriptions
  <1> QED
    BY <1>1, <1>2 DEF Settled, NoSilentGap

LEMMA StepStream == StreamInv /\ [Next]_vars => StreamInv'
  <1> SUFFICES ASSUME StreamInv, [Next]_vars PROVE (Settled /\ NoSilentGap)'
    BY StepIndex DEF StreamInv
  <1> USE DEF connVars, topicVars, appVars
  <1>t. TypeOK /\ TypeOK'
    BY StepType DEF StreamInv, IndexInv
  <1>i. IndexInv /\ SectionShape /\ IndexesAgree /\ InterestExact
    BY DEF StreamInv, IndexInv
  <1>s. Settled /\ NoSilentGap
    BY DEF StreamInv
  <1>q. ASSUME UNCHANGED <<told, subs, cursor, conn>>,
               work'.drop = {} \/ work'.drop = work.drop,
               closing \subseteq closing'
        PROVE  (Settled /\ NoSilentGap)'
    BY <1>s, <1>q, QuietStream
  <1>1. ASSUME NEW c \in Conn, Register(c) PROVE (Settled /\ NoSilentGap)'
    <2>1. \A x \in Conn : conn'[x].st # "open" => conn[x].st # "open"
      BY <1>1, <1>t DEF Register, TypeOK, Registered, Unregistered
    <2> QED
      BY <1>1, <1>s, <2>1, QuietStream DEF Register
  <1>2. ASSUME NEW c \in Conn, Detach(c) PROVE (Settled /\ NoSilentGap)'
    <2>1. /\ DetachLocked(c) /\ UNCHANGED <<subs, cursor>>
          /\ closing' = closing \ {c}
          /\ work' = [NoWork EXCEPT !.drop = Subscriptions(c)]
      BY <1>2 DEF Detach, Idle
    <2>2. work'.drop = Subscriptions(c)
      BY <2>1 DEF NoWork
    <2> QED
      BY <1>t, <1>s, <2>1, <2>2, DetachStream
  <1>3. ASSUME NEW c \in Conn, NEW u \in User \cup {NoUser},
               NEW d \in Device \cup {NoDevice}, Authenticate(c, u, d)
        PROVE  (Settled /\ NoSilentGap)'
    <2> DEFINE holder == IF d \in Device THEN devices[d] ELSE NoConn
    <2>1. Idle /\ UNCHANGED <<subs, cursor, closing>>
      BY <1>3 DEF Authenticate
    <2>2. CASE holder \in {NoConn, c}
      <3>1. UNCHANGED <<conn, told>> /\ work' = [work EXCEPT !.bind = work'.bind]
        BY <1>3, <2>2, <1>t DEF Authenticate, TypeOK, WorkRecord
      <3>2. work'.drop = work.drop
        BY <1>t, <3>1 DEF TypeOK, WorkRecord
      <3> QED
        BY <1>q, <2>1, <3>1, <3>2
    <2>3. CASE holder \notin {NoConn, c}
      <3>1. holder \in Conn
        BY <1>t, <2>3 DEF TypeOK
      <3>2. DetachLocked(holder) /\ work'.drop = Subscriptions(holder)
        BY <1>3, <1>t, <2>3 DEF Authenticate, TypeOK, WorkRecord
      <3> HIDE DEF holder
      <3> QED
        BY <1>t, <1>s, <2>1, <3>1, <3>2, DetachStream
    <2> QED
      BY <2>2, <2>3
  <1>4. ASSUME Bind PROVE (Settled /\ NoSilentGap)'
    <2>1. PICK b \in work.bind : Bind!(b)
      BY <1>4 DEF Bind
    <2>2. b.conn \in Conn
      BY <1>t DEF TypeOK, WorkRecord, Binding
    <2>3. work'.drop = work.drop
      BY <1>t, <2>1 DEF TypeOK, WorkRecord
    <2>4. \A x \in Conn : conn'[x].st = conn[x].st
      BY <1>t, <2>1, <2>2 DEF TypeOK, ConnRecord
    <2> QED
      BY <1>s, <2>1, <2>3, <2>4, QuietStream
  <1>5. ASSUME Join PROVE (Settled /\ NoSilentGap)'
    <2>1. PICK p \in work.join : Join!(p)
      BY <1>5 DEF Join
    <2>2. p[1] \in Conn /\ p[2] \in Topic /\ work.drop = {}
      BY <1>t, <1>i, <2>1 DEF TypeOK, WorkRecord, SectionShape
    <2>3. work'.drop = {}
      BY <1>t, <2>1, <2>2 DEF TypeOK, WorkRecord
    <2> QED
      BY <2>1, <2>2, <2>3, SubscribeLockedStream
  <1>6. ASSUME NEW k \in Task, NEW full \in BOOLEAN, Subscribe(k, full)
        PROVE  (Settled /\ NoSilentGap)'
    <2> DEFINE c == task[k].conn
               t == task[k].topic
    <2>1. c \in Conn /\ conn[c].st = "open"
      <3>1. c \in Open
        BY <1>6, Zenon DEF Subscribe, Refused
      <3> QED
        BY <3>1 DEF Open
    <2>2. t \in Topic
      BY <1>6, <1>t, TopicAssumption DEF Subscribe, TypeOK, BusyTask, IdleTask
    <2>3. /\ Idle /\ UNCHANGED work /\ SubscribeLocked(c, t, "explicit")
          /\ \/ closing' = closing \cup {c} /\ UNCHANGED told
             \/ told' = [told EXCEPT ![c][t] = CursorOf(t)] /\ UNCHANGED closing
      BY <1>6 DEF Subscribe
    <2>4. work'.drop = {}
      BY <2>3 DEF Idle, NoWork
    <2> HIDE DEF c, t
    <2>5. /\ \A x \in Conn, y \in Topic :
               told[x][y] # NoCursor =>
                 x \in closing \/ (x \in subs'[y] /\ told[x][y] = cursor'[y])
          /\ \A x \in Conn : conn'[x].st = conn[x].st
      BY <2>1, <2>2, <2>3, <2>4, SubscribeLockedStream
    <2>6. CASE closing' = closing \cup {c} /\ UNCHANGED told
      BY <1>s, <2>4, <2>5, <2>6 DEF Settled, NoSilentGap
    <2>7. CASE told' = [told EXCEPT ![c][t] = CursorOf(t)] /\ UNCHANGED closing
      <3>1. \A x \in Conn, y \in Topic :
              told'[x][y] = IF x = c /\ y = t THEN CursorOf(t) ELSE told[x][y]
        BY <1>t, <2>1, <2>2, <2>7 DEF TypeOK
      <3>2. cursor'[t] = CursorOf(t)
        BY <1>t, <2>1, <2>2, <2>3, SubscribeLockedCursor
      <3>3. c \in subs'[t]
        <4>1. Entered(c, t, "explicit")
          BY <1>t, <2>1, <2>2, <2>3, SubscribeLockedFacts
        <4> QED
          BY <1>i, <2>1, <2>2, <4>1 DEF IndexesAgree, Entered
      <3>4. NoSilentGap'
        BY <2>5, <2>7, <3>1, <3>2, <3>3 DEF NoSilentGap
      <3>5. Settled'
        <4>1. ASSUME NEW x \in Conn, NEW y \in Topic, conn'[x].st # "open"
              PROVE  told'[x][y] = NoCursor
          <5>1. x # c /\ conn[x].st # "open"
            BY <2>1, <2>5, <4>1
          <5> QED
            BY <1>s, <3>1, <5>1 DEF Settled
        <4> QED
          BY <2>4, <4>1 DEF Settled
      <3> QED
        BY <3>4, <3>5
    <2> QED
      BY <2>3, <2>6, <2>7
  <1>7. ASSUME NEW c \in Conn, NEW t \in Room, SubscribeSession(c, t)
        PROVE  (Settled /\ NoSilentGap)'
    <2>1. t \in Topic
      BY TopicAssumption
    <2>2. work'.drop = {}
      BY <1>7 DEF SubscribeSession, Idle, NoWork
    <2> QED
      BY <1>7, <2>1, <2>2, SubscribeLockedStream DEF SubscribeSession
  <1>8. ASSUME NEW c \in Conn, NEW t \in Topic, DropSubscriber(c, t),
               UNCHANGED closing, \A x \in Conn : conn'[x].st = conn[x].st,
               \A y \in Topic : told'[c][y] = told[c][y] \/ told'[c][y] = NoCursor,
               \A x \in Conn : x # c => told'[x] = told[x],
               told'[c][t] = NoCursor \/ c \in closing,
               work'.drop \subseteq work.drop
        PROVE  (Settled /\ NoSilentGap)'
    <2>1. /\ \A y \in Topic : y # t => cursor'[y] = cursor[y]
          /\ subs[t] \ {c} # {} => cursor'[t] = cursor[t]
          /\ \A y \in Topic : subs'[y] = IF y = t THEN subs[y] \ {c} ELSE subs[y]
      BY <1>8, <1>t, DropSubscriberCursor
    <2>2. ASSUME NEW x \in Conn, NEW y \in Topic, told'[x][y] # NoCursor
          PROVE  x \in closing' \/ (x \in subs'[y] /\ told'[x][y] = cursor'[y])
      <3>1. told'[x][y] = told[x][y]
        BY <1>8, <2>2
      <3>2. x \in closing \/ (x \in subs[y] /\ told[x][y] = cursor[y])
        BY <1>s, <2>2, <3>1 DEF NoSilentGap
      <3>3. CASE x = c /\ y = t
        BY <1>8, <2>2, <3>3
      <3>4. CASE ~ (x = c /\ y = t)
        BY <1>8, <2>1, <3>1, <3>2, <3>4
      <3> QED
        BY <3>3, <3>4
    <2>3. Settled'
      BY <1>8, <1>s DEF Settled
    <2> QED
      BY <2>2, <2>3 DEF NoSilentGap
  <1>9. ASSUME Drop PROVE (Settled /\ NoSilentGap)'
    <2>1. PICK p \in work.drop : Drop!(p)
      BY <1>9 DEF Drop
    <2>2. p[1] \in Conn /\ p[2] \in Topic /\ p = <<p[1], p[2]>>
      BY <1>t DEF TypeOK, WorkRecord
    <2>3. work'.drop \subseteq work.drop
      BY <1>t, <2>1 DEF TypeOK, WorkRecord
    <2>4. told[p[1]][p[2]] = NoCursor \/ p[1] \in closing
      BY <1>s, <2>1, <2>2 DEF Settled
    <2> QED
      BY <1>8, <2>1, <2>2, <2>3, <2>4
  <1>10. ASSUME NEW c \in Conn, NEW t \in Topic, Unsubscribe(c, t)
         PROVE  (Settled /\ NoSilentGap)'
    <2>1. /\ DropSubscriber(c, t) /\ UNCHANGED <<closing, work>> /\ Idle
          /\ told' = [told EXCEPT ![c][t] = NoCursor]
          /\ conn' = [conn EXCEPT ![c] = Without(conn[c], t)]
      BY <1>10 DEF Unsubscribe
    <2>2. \A x \in Conn, y \in Topic :
            told'[x][y] = IF x = c /\ y = t THEN NoCursor ELSE told[x][y]
      BY <1>t, <2>1 DEF TypeOK
    <2>3. \A x \in Conn : conn'[x].st = conn[x].st
      BY <1>t, <2>1 DEF TypeOK, ConnRecord, Without
    <2>4. work'.drop \subseteq work.drop
      BY <2>1 DEF Idle, NoWork
    <2>5. \A x \in Conn : x # c => told'[x] = told[x]
      BY <1>t, <2>1 DEF TypeOK
    <2>6. told'[c][t] = NoCursor
          /\ \A y \in Topic : told'[c][y] = told[c][y] \/ told'[c][y] = NoCursor
      BY <2>2
    <2> QED
      BY <1>8, <2>1, <2>3, <2>4, <2>5, <2>6
  <1>11. ASSUME NEW full \in BOOLEAN, Tell(full) PROVE (Settled /\ NoSilentGap)'
    <2>1. PICK p \in work.tell : Tell(full)!(p)
      BY <1>11 DEF Tell
    <2>2. p[1] \in Conn /\ p[2] \in Topic /\ p = <<p[1], p[2]>>
      BY <1>t DEF TypeOK, WorkRecord
    <2>3. work'.drop = {p} /\ UNCHANGED <<subs, cursor>>
      BY <1>t, <2>1 DEF TypeOK, WorkRecord
    <2>4. \/ closing' = closing \cup {p[1]} /\ UNCHANGED told
          \/ told' = [told EXCEPT ![p[1]][p[2]] = NoCursor] /\ UNCHANGED closing
      BY <2>1
    <2>5. \A x \in Conn : conn'[x].st = conn[x].st
      BY <1>t, <2>1, <2>2 DEF TypeOK, ConnRecord, Without
    <2>6. /\ \A x \in Conn, y \in Topic : \/ told'[x][y] = told[x][y]
                                          \/ told'[x][y] = NoCursor
          /\ told'[p[1]][p[2]] = NoCursor \/ p[1] \in closing'
          /\ closing \subseteq closing'
      <3>1. CASE closing' = closing \cup {p[1]} /\ UNCHANGED told
        BY <3>1
      <3>2. CASE told' = [told EXCEPT ![p[1]][p[2]] = NoCursor] /\ UNCHANGED closing
        <4> DEFINE c == p[1]
                   t == p[2]
        <4>1. c \in Conn /\ t \in Topic /\ told' = [told EXCEPT ![c][t] = NoCursor]
          BY <2>2, <3>2
        <4> HIDE DEF c, t
        <4>2. \A x \in Conn, y \in Topic :
                told'[x][y] = IF x = c /\ y = t THEN NoCursor ELSE told[x][y]
          BY <1>t, <4>1 DEF TypeOK
        <4> QED
          BY <2>2, <3>2, <4>2 DEF c, t
      <3> QED
        BY <2>4, <3>1, <3>2
    <2>7. NoSilentGap'
      BY <1>s, <2>3, <2>6 DEF NoSilentGap
    <2>8. \A x \in Conn, y \in Topic : <<x, y>> \in work'.drop => x = p[1] /\ y = p[2]
      BY <2>2, <2>3
    <2>9. Settled'
      <3>1. ASSUME NEW x \in Conn, NEW y \in Topic
            PROVE  /\ conn'[x].st # "open" => told'[x][y] = NoCursor
                   /\ <<x, y>> \in work'.drop =>
                        told'[x][y] = NoCursor \/ x \in closing'
        <4>1. conn[x].st # "open" => told[x][y] = NoCursor
          BY <1>s DEF Settled
        <4> QED
          BY <2>5, <2>6, <2>8, <4>1
      <3> QED
        BY <3>1 DEF Settled
    <2> QED
      BY <2>7, <2>9
  <1>12. ASSUME NEW full \in SUBSET Conn, ResetTopic(full)
         PROVE  (Settled /\ NoSilentGap)'
    <2>1. PICK t \in work.reset : ResetTopic(full)!(t)
      BY <1>12 DEF ResetTopic
    <2>2. t \in Topic
      BY <1>t DEF TypeOK, WorkRecord
    <2> DEFINE dropped == {c \in subs[t] \cap Open :
                             conn[c].topics[t] = "explicit"}
               kept == subs[t] \ dropped
    <2>3. /\ subs' = [subs EXCEPT ![t] = kept] /\ closing' = closing \cup full
          /\ cursor' = [cursor EXCEPT ![t] =
                          IF kept = {} THEN NoCursor ELSE NextEpoch(t)]
          /\ conn' = [c \in Conn |-> IF c \in dropped THEN Without(conn[c], t)
                                     ELSE conn[c]]
          /\ full \subseteq subs[t]
      BY <2>1
    <2>4. told' = [c \in Conn |->
               CASE c \in dropped \ full -> [told[c] EXCEPT ![t] = NoCursor]
                 [] c \in kept \ full /\ told[c][t] # NoCursor ->
                      [told[c] EXCEPT ![t] = NextEpoch(t)]
                 [] OTHER -> told[c]]
      BY <2>1
    <2>5. work.drop = {} /\ work'.drop = {}
      BY <1>t, <1>i, <2>1 DEF SectionShape, TypeOK, WorkRecord
    <2>6. \A x \in Conn : conn'[x].st = conn[x].st
      <3>1. TAKE x \in Conn
      <3>2. conn[x] \in ConnRecord
        BY <1>t DEF TypeOK
      <3>3. Without(conn[x], t).st = conn[x].st
        BY <2>2, <3>2, WithFacts
      <3>4. conn'[x] = Without(conn[x], t) \/ conn'[x] = conn[x]
        BY <2>3
      <3> QED
        BY <3>3, <3>4
    <2>7. \A y \in Topic : /\ subs'[y] = IF y = t THEN kept ELSE subs[y]
                           /\ y # t => cursor'[y] = cursor[y]
                           /\ kept # {} => cursor'[t] = NextEpoch(t)
      BY <1>t, <2>2, <2>3 DEF TypeOK
    <2>8. kept \subseteq subs[t] /\ kept \cup dropped = subs[t]
          /\ kept \cap dropped = {}
      OBVIOUS
    <2> HIDE DEF dropped, kept
    <2>9. ASSUME NEW x \in Conn
          PROVE  /\ \A y \in Topic : y # t => told'[x][y] = told[x][y]
                 /\ x \in dropped \ full => told'[x][t] = NoCursor
                 /\ x \in kept \ full /\ told[x][t] # NoCursor =>
                      told'[x][t] = NextEpoch(t)
                 /\ told[x][t] = NoCursor => told'[x][t] = NoCursor
      BY <1>t, <2>2, <2>4, <2>8 DEF TypeOK
    <2>10. ASSUME NEW x \in Conn, NEW y \in Topic, told'[x][y] # NoCursor
           PROVE  x \in closing' \/ (x \in subs'[y] /\ told'[x][y] = cursor'[y])
      <3>1. CASE y # t
        BY <1>s, <2>3, <2>7, <2>9, <2>10, <3>1 DEF NoSilentGap
      <3>2. CASE y = t
        <4>1. told[x][t] # NoCursor
          BY <2>9, <2>10, <3>2
        <4>2. x \in closing \/ x \in subs[t]
          BY <1>s, <2>2, <4>1 DEF NoSilentGap
        <4>3. CASE x \in closing \/ x \in full
          BY <2>3, <4>3
        <4>4. CASE x \in kept \ full
          BY <2>7, <2>9, <3>2, <4>1, <4>4
        <4> QED
          BY <2>8, <2>9, <2>10, <3>2, <4>2, <4>3, <4>4
      <3> QED
        BY <3>1, <3>2
    <2>11. Settled'
      BY <1>s, <2>2, <2>5, <2>6, <2>9 DEF Settled
    <2> QED
      BY <2>10, <2>11 DEF NoSilentGap
  <1>13. ASSUME NEW t \in Topic, NEW full \in SUBSET subs[t], FanOut(t, full)
         PROVE  (Settled /\ NoSilentGap)'
    <2> DEFINE next == [cursor[t] EXCEPT !.seq = @ + 1]
    <2>1. /\ cursor' = [cursor EXCEPT ![t] = next] /\ closing' = closing \cup full
          /\ told' = [c \in Conn |->
                IF c \in subs[t] \ full /\ told[c][t] # NoCursor
                THEN [told[c] EXCEPT ![t] = next] ELSE told[c]]
          /\ UNCHANGED <<conn, subs, work>>
      BY <1>13 DEF FanOut
    <2> HIDE DEF next
    <2>2. \A y \in Topic : cursor'[y] = IF y = t THEN next ELSE cursor[y]
      BY <1>t, <2>1 DEF TypeOK
    <2>3. \A x \in Conn, y \in Topic : told'[x][y] =
             IF y = t /\ x \in subs[t] \ full /\ told[x][t] # NoCursor
             THEN next ELSE told[x][y]
      BY <1>t, <2>1 DEF TypeOK
    <2>4. NoSilentGap'
      <3>1. ASSUME NEW x \in Conn, NEW y \in Topic, told'[x][y] # NoCursor
            PROVE  x \in closing' \/ (x \in subs'[y] /\ told'[x][y] = cursor'[y])
        <4>1. CASE y # t
          BY <1>s, <2>1, <2>2, <2>3, <3>1, <4>1 DEF NoSilentGap
        <4>2. CASE y = t /\ told[x][t] # NoCursor
          <5>1. x \in closing \/ x \in subs[t]
            BY <1>s, <4>2 DEF NoSilentGap
          <5> QED
            BY <2>1, <2>2, <2>3, <4>2, <5>1
        <4>3. CASE y = t /\ told[x][t] = NoCursor
          BY <2>3, <3>1, <4>3
        <4> QED
          BY <4>1, <4>2, <4>3
      <3> QED
        BY <3>1 DEF NoSilentGap
    <2>5. Settled'
      <3>1. /\ \A x \in Conn, y \in Topic :
                 told[x][y] = NoCursor => told'[x][y] = NoCursor
            /\ closing \subseteq closing' /\ UNCHANGED <<conn, work>>
        BY <2>1, <2>3
      <3> QED
        BY <1>s, <3>1 DEF Settled
    <2> QED
      BY <2>4, <2>5
  <1>14. ASSUME NEW c \in Conn, CloseStale(c) PROVE (Settled /\ NoSilentGap)'
    <2>1. /\ closing' = closing \ {c} /\ conn[c].st # "open"
          /\ UNCHANGED <<conn, subs, cursor, told, work>> /\ Idle
      BY <1>14 DEF CloseStale, Open
    <2>2. \A y \in Topic : told[c][y] = NoCursor
      BY <1>s, <2>1 DEF Settled
    <2>3. work.drop = {}
      BY <2>1 DEF Idle, NoWork
    <2> QED
      BY <1>s, <2>1, <2>2, <2>3 DEF Settled, NoSilentGap
  <1>15. CASE ConnNext
    <2>1. ASSUME NEW c \in Conn, NEW u \in User \cup {NoUser},
                 NEW d \in Device \cup {NoDevice}, Refuse(c, u, d)
          PROVE  (Settled /\ NoSilentGap)'
      BY <1>q, <2>1 DEF Refuse
    <2>2. ASSUME NEW u \in User, CloseUser(u) PROVE (Settled /\ NoSilentGap)'
      BY <1>q, <2>2 DEF CloseUser
    <2>3. ASSUME NEW t \in IdentityTopic, CloseTopic(t)
          PROVE  (Settled /\ NoSilentGap)'
      BY <1>q, <2>3 DEF CloseTopic
    <2> QED
      BY <1>1, <1>2, <1>3, <1>14, <1>15, <2>1, <2>2, <2>3
      DEF ConnNext, Close, Leave
  <1>16. CASE SectionNext
    BY <1>4, <1>5, <1>9, <1>11, <1>12, <1>16 DEF SectionNext
  <1>17. CASE SubscribeNext
    <2>1. ASSUME NEW k \in Task,
                 Grant(k) \/ Deny(k) \/ SubscribeRefused(k) \/ Resolve(k)
          PROVE  (Settled /\ NoSilentGap)'
      BY <2>1, <1>q DEF Grant, Deny, SubscribeRefused, Resolve
    <2>2. ASSUME NEW k \in Task, NEW c \in Conn, NEW t \in Room,
                 StartSubscribe(k, c, t)
          PROVE  (Settled /\ NoSilentGap)'
      BY <2>2, <1>q DEF StartSubscribe
    <2> QED
      BY <1>6, <1>7, <1>10, <1>17, <2>1, <2>2 DEF SubscribeNext
  <1>18. CASE RevokeNext
    <2>1. ASSUME NEW u \in User, NEW t \in Room,
                 \/ Withdraw(u, t) \/ Readmit(u, t) \/ DeliverKick(u, t)
                 \/ LoseKick(u, t)
          PROVE  (Settled /\ NoSilentGap)'
      BY <2>1, <1>q DEF Withdraw, Readmit, DeliverKick, LoseKick
    <2>2. ASSUME NEW u \in User, NEW t \in Room, KickLocal(u, t)
          PROVE  (Settled /\ NoSilentGap)'
      <3>1. work'.drop = {}
        BY <2>2 DEF KickLocal, Idle, NoWork
      <3> QED
        BY <2>2, <3>1, <1>q DEF KickLocal
    <2>3. ASSUME ResetMarks PROVE (Settled /\ NoSilentGap)'
      BY <2>3, <1>q DEF ResetMarks
    <2>4. ASSUME Reset PROVE (Settled /\ NoSilentGap)'
      <3>1. work'.drop = {}
        BY <2>4 DEF Reset, Idle, NoWork
      <3> QED
        BY <2>4, <3>1, <1>q DEF Reset
    <2> QED
      BY <1>18, <2>1, <2>2, <2>3, <2>4 DEF RevokeNext, KickUser, KickDelivered
  <1>19. CASE UNCHANGED vars
    BY <1>19, <1>q DEF vars
  <1> QED
    BY <1>13, <1>15, <1>16, <1>17, <1>18, <1>19 DEF Next

\* An acknowledged client is up to date with its topic or about to be closed,
\* through every interleaving of fan-outs with the steps of a section.
THEOREM NeverASilentGap == Spec => []NoSilentGap
  <1>1. StreamInv => NoSilentGap
    BY DEF StreamInv
  <1> QED
    BY <1>1, InitStream, StepStream, PTL DEF Spec

-----------------------------------------------------------------------------
(* Cursors only move forward                                               *)

\* What ToldForward says of one step.
Forward ==
  \A c \in Conn, t \in Topic :
     told[c][t] # NoCursor /\ told'[c][t] \notin {NoCursor, told[c][t]}
       => Before(told[c][t], told'[c][t])

LEMMA InitForward == Init => ForwardInv
  <1>1. Init => ToldBehind
    BY DEF Init, ToldBehind, NoCursor
  <1> QED
    BY <1>1, InitType DEF ForwardInv

\* Steps that tell nobody anything new, and move no cursor of a live topic.
LEMMA QuietForward ==
  ASSUME ForwardInv, TypeOK', nextEpoch' \in {nextEpoch, nextEpoch + 1},
         live' \subseteq live,
         \A x \in Conn, y \in Topic : told'[x][y] \in {told[x][y], NoCursor},
         \A y \in Topic : /\ cursor'[y] \in {cursor[y], NoCursor}
                          /\ y \in live' => cursor'[y] = cursor[y]
  PROVE  ToldBehind' /\ Forward
  <1>1. /\ nextEpoch \in Nat \ {0} /\ nextEpoch' \in Nat /\ nextEpoch' >= nextEpoch
        /\ NoCursor.epoch = 0
    BY DEF ForwardInv, TypeOK, NoCursor
  <1>2. ASSUME NEW x \in Conn, NEW y \in Topic
        PROVE  /\ told[x][y].epoch \in Nat /\ cursor[y].epoch \in Nat
               /\ told[x][y].epoch < nextEpoch /\ cursor[y].epoch < nextEpoch
               /\ y \in live /\ told[x][y] # NoCursor =>
                    told[x][y] = cursor[y] \/ Before(told[x][y], cursor[y])
    <2>1. told[x][y] \in Cursor /\ cursor[y] \in Cursor
      BY DEF ForwardInv, TypeOK
    <2> QED
      BY <2>1 DEF ForwardInv, ToldBehind, Cursor
  <1>5. \A y \in Topic : cursor'[y].epoch < nextEpoch'
    <2>1. TAKE y \in Topic
    <2>2. cursor[y].epoch \in Nat /\ cursor[y].epoch < nextEpoch
      BY DEF ForwardInv, TypeOK, Cursor, ToldBehind
    <2> QED
      BY <1>1, <2>2
  <1>3. ASSUME NEW x \in Conn, NEW y \in Topic
        PROVE  /\ told'[x][y].epoch < nextEpoch'
               /\ y \in live' /\ told'[x][y] # NoCursor =>
                    told'[x][y] = cursor'[y] \/ Before(told'[x][y], cursor'[y])
    <2>1. told'[x][y] = told[x][y] \/ told'[x][y] = NoCursor
      OBVIOUS
    <2>2. cursor'[y] = cursor[y] \/ (cursor'[y] = NoCursor /\ y \notin live')
      OBVIOUS
    <2>3. told'[x][y].epoch < nextEpoch'
      BY <1>1, <1>2, <2>1
    <2>4. ASSUME y \in live', told'[x][y] # NoCursor
          PROVE  told'[x][y] = cursor'[y] \/ Before(told'[x][y], cursor'[y])
      BY <1>2, <2>1, <2>2, <2>4
    <2> QED
      BY <2>3, <2>4
  <1>4. ToldBehind'
    BY <1>3, <1>5 DEF ToldBehind
  <1> QED
    BY <1>4 DEF Forward

\* Steps that move topic t on, from a cursor it had to a later one, and tell
\* some clients.
LEMMA MovedForward ==
  ASSUME ForwardInv, TypeOK', NEW t \in Topic, NEW next \in Cursor,
         nextEpoch' \in {nextEpoch, nextEpoch + 1}, next.epoch < nextEpoch',
         \/ next.epoch = nextEpoch
         \/ t \in live /\ next = cursor[t]
         \/ t \in live /\ Before(cursor[t], next),
         live' \subseteq live \cup {t},
         \A x \in Conn, y \in Topic :
            \/ told'[x][y] \in {told[x][y], NoCursor}
            \/ y = t /\ told'[x][y] = next,
         \A y \in Topic : y # t => cursor'[y] = cursor[y],
         cursor'[t] = next \/ (t \notin live' /\ cursor'[t] = NoCursor)
  PROVE  ToldBehind' /\ Forward
  <1>1. /\ nextEpoch \in Nat \ {0} /\ nextEpoch' \in Nat /\ nextEpoch' >= nextEpoch
        /\ NoCursor.epoch = 0 /\ next.epoch \in Nat /\ next.seq \in Nat
    BY DEF ForwardInv, TypeOK, NoCursor, Cursor
  <1>2. ASSUME NEW x \in Conn, NEW y \in Topic
        PROVE  /\ told[x][y].epoch \in Nat /\ cursor[y].epoch \in Nat
               /\ told[x][y].seq \in Nat /\ cursor[y].seq \in Nat
               /\ told[x][y].epoch < nextEpoch /\ cursor[y].epoch < nextEpoch
               /\ y \in live /\ told[x][y] # NoCursor =>
                    told[x][y] = cursor[y] \/ Before(told[x][y], cursor[y])
    <2>1. told[x][y] \in Cursor /\ cursor[y] \in Cursor
      BY DEF ForwardInv, TypeOK
    <2> QED
      BY <2>1 DEF ForwardInv, ToldBehind, Cursor
  <1>3. ASSUME NEW x \in Conn, told[x][t] # NoCursor
        PROVE  told[x][t] = next \/ Before(told[x][t], next)
    <2>1. CASE next.epoch = nextEpoch
      BY <1>2, <2>1 DEF Before
    <2>2. CASE t \in live /\ next = cursor[t]
      BY <1>2, <1>3, <2>2
    <2>3. CASE t \in live /\ Before(cursor[t], next)
      <3>1. told[x][t] = cursor[t] \/ Before(told[x][t], cursor[t])
        BY <1>2, <1>3, <2>3
      <3> QED
        BY <1>1, <1>2, <2>3, <3>1 DEF Before
    <2> QED
      BY <2>1, <2>2, <2>3
  <1>4. ASSUME NEW x \in Conn, NEW y \in Topic
        PROVE  /\ told'[x][y].epoch < nextEpoch'
               /\ y \in live' /\ told'[x][y] # NoCursor =>
                    told'[x][y] = cursor'[y] \/ Before(told'[x][y], cursor'[y])
    <2>1. \/ told'[x][y] = told[x][y] \/ told'[x][y] = NoCursor
          \/ y = t /\ told'[x][y] = next
      OBVIOUS
    <2>2. told'[x][y].epoch < nextEpoch'
      BY <1>1, <1>2, <2>1
    <2>3. \/ y # t /\ cursor'[y] = cursor[y]
          \/ y = t /\ cursor'[y] = next
          \/ y = t /\ y \notin live' /\ cursor'[y] = NoCursor
      OBVIOUS
    <2>5. ASSUME y \in live', told'[x][y] # NoCursor
          PROVE  told'[x][y] = cursor'[y] \/ Before(told'[x][y], cursor'[y])
      <3>1. CASE y # t
        BY <1>2, <2>1, <2>3, <2>5, <3>1
      <3>2. CASE y = t
        <4>1. cursor'[y] = next
          BY <2>3, <2>5, <3>2
        <4> QED
          BY <1>3, <2>1, <2>5, <3>2, <4>1
      <3> QED
        BY <3>1, <3>2
    <2> QED
      BY <2>2, <2>5
  <1>7. \A y \in Topic : cursor'[y].epoch < nextEpoch'
    <2>1. TAKE y \in Topic
    <2>2. cursor[y].epoch \in Nat /\ cursor[y].epoch < nextEpoch
      BY DEF ForwardInv, TypeOK, Cursor, ToldBehind
    <2> QED
      BY <1>1, <2>2
  <1>5. Forward
    BY <1>3 DEF Forward
  <1>6. ToldBehind'
    BY <1>4, <1>7 DEF ToldBehind
  <1> QED
    BY <1>5, <1>6

LEMMA StepForward == ForwardInv /\ [Next]_vars => ForwardInv' /\ Forward
  <1> SUFFICES ASSUME ForwardInv, [Next]_vars PROVE ToldBehind' /\ Forward
    BY StepType DEF ForwardInv
  <1> USE DEF connVars, topicVars, appVars
  <1>t. TypeOK /\ TypeOK' /\ nextEpoch \in Nat /\ nextEpoch' \in Nat
    BY StepType DEF ForwardInv, TypeOK
  <1>q. ASSUME UNCHANGED <<told, cursor, live, nextEpoch>>
        PROVE  ToldBehind' /\ Forward
    BY <1>q, <1>t, QuietForward
  <1>1. ASSUME NEW c \in Conn, NEW t \in Topic, NEW kind \in {"auto", "explicit"},
               SubscribeLocked(c, t, kind),
               \A x \in Conn, y \in Topic : told'[x][y] =
                  IF told'[x][y] # told[x][y] THEN CursorOf(t) ELSE told[x][y],
               \A x \in Conn, y \in Topic : told'[x][y] # told[x][y] => y = t
        PROVE  ToldBehind' /\ Forward
    <2> DEFINE next == CursorOf(t)
    <2>1. /\ \A y \in Topic : cursor'[y] = IF y = t THEN next ELSE cursor[y]
          /\ next \in Cursor
      BY <1>1, <1>t, SubscribeLockedCursor
    <2>2. /\ live' = live \cup {t}
          /\ nextEpoch' = IF t \in live THEN nextEpoch ELSE nextEpoch + 1
      BY <1>1 DEF SubscribeLocked
    <2>3. /\ next.epoch < nextEpoch'
          /\ next.epoch = nextEpoch \/ (t \in live /\ next = cursor[t])
      BY <1>1, <1>t, <2>2 DEF CursorOf, ForwardInv, ToldBehind
    <2> HIDE DEF next
    <2>4. \A x \in Conn, y \in Topic :
            \/ told'[x][y] \in {told[x][y], NoCursor}
            \/ y = t /\ told'[x][y] = next
      BY <1>1 DEF next
    <2> QED
      BY <1>t, <2>1, <2>2, <2>3, <2>4, MovedForward
  <1>2. ASSUME NEW c \in Conn, NEW t \in Topic, DropSubscriber(c, t),
               \A x \in Conn, y \in Topic : told'[x][y] \in {told[x][y], NoCursor}
        PROVE  ToldBehind' /\ Forward
    <2>1. /\ \A y \in Topic : y # t => cursor'[y] = cursor[y]
          /\ cursor'[t] \in {cursor[t], NoCursor}
          /\ t \in live' => cursor'[t] = cursor[t]
          /\ live' \subseteq live
      BY <1>2, <1>t, DropSubscriberCursor
    <2>2. nextEpoch' = nextEpoch
      BY <1>2 DEF DropSubscriber
    <2>3. \A y \in Topic : /\ cursor'[y] \in {cursor[y], NoCursor}
                           /\ y \in live' => cursor'[y] = cursor[y]
      BY <2>1
    <2> QED
      BY <1>2, <1>t, <2>1, <2>2, <2>3, QuietForward
  <1>3. ASSUME NEW c \in Conn, DetachLocked(c), UNCHANGED <<cursor, live, nextEpoch>>
        PROVE  ToldBehind' /\ Forward
    <2>1. \A x \in Conn, y \in Topic :
             told'[x][y] = IF x = c THEN NoCursor ELSE told[x][y]
      BY <1>3, <1>t, DetachLockedTold
    <2> QED
      BY <1>3, <1>t, <2>1, QuietForward
  <1>4. ASSUME NEW c \in Conn, NEW u \in User \cup {NoUser},
               NEW d \in Device \cup {NoDevice}, Authenticate(c, u, d)
        PROVE  ToldBehind' /\ Forward
    <2> DEFINE holder == IF d \in Device THEN devices[d] ELSE NoConn
    <2>1. UNCHANGED <<cursor, live, nextEpoch>>
      BY <1>4 DEF Authenticate
    <2>2. CASE holder \in {NoConn, c}
      BY <1>4, <1>q, <2>1, <2>2 DEF Authenticate
    <2>3. CASE holder \notin {NoConn, c}
      <3>1. holder \in Conn
        BY <1>t, <2>3 DEF TypeOK
      <3>2. DetachLocked(holder)
        BY <1>4, <2>3 DEF Authenticate
      <3> HIDE DEF holder
      <3> QED
        BY <1>3, <2>1, <3>1, <3>2
    <2> QED
      BY <2>2, <2>3
  <1>5. ASSUME NEW c \in Conn, Detach(c) PROVE ToldBehind' /\ Forward
    BY <1>3, <1>5 DEF Detach
  <1>6. ASSUME Join PROVE ToldBehind' /\ Forward
    <2>1. PICK p \in work.join : Join!(p)
      BY <1>6 DEF Join
    <2>2. p[1] \in Conn /\ p[2] \in Topic
      BY <1>t DEF TypeOK, WorkRecord
    <2> QED
      BY <1>1, <2>1, <2>2
  <1>7. ASSUME NEW k \in Task, NEW full \in BOOLEAN, Subscribe(k, full)
        PROVE  ToldBehind' /\ Forward
    <2> DEFINE c == task[k].conn
               t == task[k].topic
    <2>1. c \in Conn
      <3>1. c \in Open
        BY <1>7, Zenon DEF Subscribe, Refused
      <3> QED
        BY <3>1 DEF Open
    <2>2. t \in Topic
      BY <1>7, <1>t, TopicAssumption DEF Subscribe, TypeOK, BusyTask, IdleTask
    <2>3. /\ SubscribeLocked(c, t, "explicit")
          /\ \/ UNCHANGED told
             \/ told' = [told EXCEPT ![c][t] = CursorOf(t)]
      BY <1>7 DEF Subscribe
    <2> HIDE DEF c, t
    <2>4. \A x \in Conn, y \in Topic :
            \/ told'[x][y] = told[x][y]
            \/ y = t /\ told'[x][y] = CursorOf(t)
      <3>1. CASE UNCHANGED told
        BY <3>1
      <3>2. CASE told' = [told EXCEPT ![c][t] = CursorOf(t)]
        BY <1>t, <2>1, <2>2, <3>2 DEF TypeOK
      <3> QED
        BY <2>3, <3>1, <3>2
    <2> QED
      BY <1>1, <2>1, <2>2, <2>3, <2>4
  <1>8. ASSUME NEW c \in Conn, NEW t \in Room, SubscribeSession(c, t)
        PROVE  ToldBehind' /\ Forward
    BY <1>1, <1>8, TopicAssumption DEF SubscribeSession
  <1>9. ASSUME Drop PROVE ToldBehind' /\ Forward
    <2>1. PICK p \in work.drop : Drop!(p)
      BY <1>9 DEF Drop
    <2>2. p[1] \in Conn /\ p[2] \in Topic
      BY <1>t DEF TypeOK, WorkRecord
    <2> QED
      BY <1>2, <2>1, <2>2
  <1>10. ASSUME NEW c \in Conn, NEW t \in Topic, Unsubscribe(c, t)
         PROVE  ToldBehind' /\ Forward
    <2>1. DropSubscriber(c, t) /\ told' = [told EXCEPT ![c][t] = NoCursor]
      BY <1>10 DEF Unsubscribe
    <2>2. \A x \in Conn, y \in Topic : told'[x][y] \in {told[x][y], NoCursor}
      BY <1>t, <2>1 DEF TypeOK
    <2> QED
      BY <1>2, <2>1, <2>2
  <1>11. ASSUME NEW full \in BOOLEAN, Tell(full) PROVE ToldBehind' /\ Forward
    <2>1. PICK p \in work.tell : Tell(full)!(p)
      BY <1>11 DEF Tell
    <2> DEFINE c == p[1]
               t == p[2]
    <2>2. c \in Conn /\ t \in Topic
      BY <1>t DEF TypeOK, WorkRecord
    <2>3. /\ UNCHANGED <<cursor, live, nextEpoch>>
          /\ UNCHANGED told \/ told' = [told EXCEPT ![c][t] = NoCursor]
      BY <2>1
    <2> HIDE DEF c, t
    <2>4. \A x \in Conn, y \in Topic : told'[x][y] \in {told[x][y], NoCursor}
      <3>1. CASE UNCHANGED told
        BY <3>1
      <3>2. CASE told' = [told EXCEPT ![c][t] = NoCursor]
        BY <1>t, <2>2, <3>2 DEF TypeOK
      <3> QED
        BY <2>3, <3>1, <3>2
    <2> QED
      BY <1>t, <2>3, <2>4, QuietForward
  <1>12. ASSUME NEW full \in SUBSET Conn, ResetTopic(full)
         PROVE  ToldBehind' /\ Forward
    <2>1. PICK t \in work.reset : ResetTopic(full)!(t)
      BY <1>12 DEF ResetTopic
    <2>2. t \in Topic
      BY <1>t DEF TypeOK, WorkRecord
    <2> DEFINE dropped == {c \in subs[t] \cap Open :
                             conn[c].topics[t] = "explicit"}
               kept == subs[t] \ dropped
               next == NextEpoch(t)
    <2>3. /\ nextEpoch' = nextEpoch + 1 /\ live' \subseteq live
          /\ \/ cursor' = [cursor EXCEPT ![t] = next]
             \/ cursor' = [cursor EXCEPT ![t] = NoCursor] /\ t \notin live'
      BY <2>1
    <2>4. told' = [c \in Conn |->
               CASE c \in dropped \ full -> [told[c] EXCEPT ![t] = NoCursor]
                 [] c \in kept \ full /\ told[c][t] # NoCursor ->
                      [told[c] EXCEPT ![t] = next]
                 [] OTHER -> told[c]]
      BY <2>1
    <2>5. next \in Cursor /\ next.epoch = nextEpoch
      BY <1>t DEF NextEpoch, Cursor
    <2> HIDE DEF dropped, kept, next
    <2>6. \A x \in Conn, y \in Topic :
            \/ told'[x][y] \in {told[x][y], NoCursor}
            \/ y = t /\ told'[x][y] = next
      <3>1. TAKE x \in Conn, y \in Topic
      <3>2. \/ told'[x] = [told[x] EXCEPT ![t] = NoCursor]
            \/ told'[x] = [told[x] EXCEPT ![t] = next]
            \/ told'[x] = told[x]
        BY <2>4
      <3> QED
        BY <1>t, <2>2, <3>2 DEF TypeOK
    <2>7. /\ \A y \in Topic : y # t => cursor'[y] = cursor[y]
          /\ cursor'[t] = next \/ (t \notin live' /\ cursor'[t] = NoCursor)
      BY <1>t, <2>2, <2>3 DEF TypeOK
    <2> QED
      BY <1>t, <2>2, <2>3, <2>5, <2>6, <2>7, MovedForward
  <1>13. ASSUME NEW t \in Topic, NEW full \in SUBSET subs[t], FanOut(t, full)
         PROVE  ToldBehind' /\ Forward
    <2> DEFINE next == [cursor[t] EXCEPT !.seq = @ + 1]
    <2>1. /\ cursor' = [cursor EXCEPT ![t] = next] /\ t \in live
          /\ told' = [c \in Conn |->
                IF c \in subs[t] \ full /\ told[c][t] # NoCursor
                THEN [told[c] EXCEPT ![t] = next] ELSE told[c]]
          /\ UNCHANGED <<live, nextEpoch>>
      BY <1>13 DEF FanOut
    <2>2. cursor[t] \in Cursor
      BY <1>t DEF TypeOK
    <2>3. next \in Cursor /\ next.epoch = cursor[t].epoch /\ Before(cursor[t], next)
      BY <2>2 DEF Cursor, Before
    <2>4. next.epoch < nextEpoch'
      BY <2>1, <2>3 DEF ForwardInv, ToldBehind
    <2> HIDE DEF next
    <2>5. \A x \in Conn, y \in Topic :
            \/ told'[x][y] \in {told[x][y], NoCursor}
            \/ y = t /\ told'[x][y] = next
      BY <1>t, <2>1 DEF TypeOK
    <2>6. /\ \A y \in Topic : y # t => cursor'[y] = cursor[y]
          /\ cursor'[t] = next
      BY <1>t, <2>1 DEF TypeOK
    <2> QED
      BY <1>t, <2>1, <2>3, <2>4, <2>5, <2>6, MovedForward
  <1>14. CASE ConnNext
    <2>1. ASSUME NEW c \in Conn, Register(c) \/ CloseStale(c)
                 \/ \E u \in User \cup {NoUser}, d \in Device \cup {NoDevice} :
                       Refuse(c, u, d)
          PROVE  ToldBehind' /\ Forward
      BY <1>q, <2>1 DEF Register, CloseStale, Refuse
    <2>2. ASSUME (\E u \in User : CloseUser(u))
                 \/ \E t \in IdentityTopic : CloseTopic(t)
          PROVE  ToldBehind' /\ Forward
      BY <1>q, <2>2 DEF CloseUser, CloseTopic
    <2> QED
      BY <1>4, <1>5, <1>14, <2>1, <2>2 DEF ConnNext, Close, Leave
  <1>15. CASE SectionNext
    <2>1. ASSUME Bind PROVE ToldBehind' /\ Forward
      BY <1>q, <2>1 DEF Bind
    <2> QED
      BY <1>6, <1>9, <1>11, <1>12, <1>15, <2>1 DEF SectionNext
  <1>16. CASE SubscribeNext
    <2>1. ASSUME NEW k \in Task,
                 \/ Grant(k) \/ Deny(k) \/ SubscribeRefused(k) \/ Resolve(k)
                 \/ \E c \in Conn, t \in Room : StartSubscribe(k, c, t)
          PROVE  ToldBehind' /\ Forward
      BY <2>1, <1>q DEF Grant, Deny, SubscribeRefused, Resolve, StartSubscribe
    <2> QED
      BY <1>7, <1>8, <1>10, <1>16, <2>1 DEF SubscribeNext
  <1>17. CASE RevokeNext
    BY <1>17, <1>q
    DEF RevokeNext, Withdraw, Readmit, DeliverKick, LoseKick, KickUser,
        KickDelivered, KickLocal, ResetMarks, Reset
  <1>18. CASE UNCHANGED vars
    BY <1>18, <1>q DEF vars
  <1> QED
    BY <1>13, <1>14, <1>15, <1>16, <1>17, <1>18 DEF Next

\* What a connection is told of a topic only moves forward, whatever is
\* published, reset, dropped and created again in between.
THEOREM ToldOnlyForward == Spec => ToldForward
  <1>1. ForwardInv /\ [Next]_vars => [Forward]_vars
    BY StepForward
  <1>2. Spec => [](ForwardInv)
    BY InitForward, StepForward, PTL DEF Spec
  <1>3. Spec => [][Forward]_vars
    BY <1>1, <1>2, PTL DEF Spec
  <1> QED
    BY <1>3, PTL DEF ToldForward, Forward

-----------------------------------------------------------------------------
(* Access: users and devices are counted and held exactly, a client's own  *)
(* subscriptions stay within their limit, and access that was taken away   *)
(* stays away.  The set of connections may be infinite: only the open ones *)
(* are counted.                                                            *)

LEMMA BoundTypes ==
  /\ MaxSubscriptions \in Nat /\ MaxConnections \in Nat
  /\ NoUser \notin User /\ NoDevice \notin Device /\ NoConn \notin Conn
  /\ Room \subseteq Topic /\ SlotOf \in [Topic -> Slot]
  BY IdAssumption, TopicAssumption, BoundAssumption

-----------------------------------------------------------------------------
(* What a step does to the identity of a connection                        *)

SameIdentity(x) ==
  /\ conn'[x].st = conn[x].st /\ conn'[x].auth = conn[x].auth
  /\ conn'[x].user = conn[x].user /\ conn'[x].device = conn[x].device

IdentitiesKept ==
  /\ \A x \in Conn : SameIdentity(x)
  /\ UNCHANGED <<perUser, devices>>
  /\ work'.bind \subseteq work.bind

\* Entering and leaving a topic leaves the identity alone.
LEMMA WithIdentity ==
  ASSUME NEW r \in ConnRecord, NEW t \in Topic, NEW kind \in {"auto", "explicit"}
  PROVE  /\ With(r, t, kind).st = r.st /\ With(r, t, kind).auth = r.auth
         /\ With(r, t, kind).user = r.user /\ With(r, t, kind).device = r.device
         /\ Without(r, t).st = r.st /\ Without(r, t).auth = r.auth
         /\ Without(r, t).user = r.user /\ Without(r, t).device = r.device
  BY DEF With, Without, ConnRecord

LEMMA SubscribeLockedIdentity ==
  ASSUME TypeOK, NEW c \in Conn, NEW t \in Topic,
         NEW kind \in {"auto", "explicit"}, SubscribeLocked(c, t, kind)
  PROVE  \A x \in Conn : SameIdentity(x)
  <1>1. TAKE x \in Conn
  <1>2. conn[x] \in ConnRecord
    BY DEF TypeOK
  <1>3. conn'[x] = conn[x] \/ conn'[x] = With(conn[x], t, kind)
    BY DEF SubscribeLocked, TypeOK
  <1> QED
    BY <1>2, <1>3, WithIdentity DEF SameIdentity

LEMMA WithoutIdentity ==
  ASSUME TypeOK, NEW t \in Topic,
         \A x \in Conn : conn'[x] = conn[x] \/ conn'[x] = Without(conn[x], t)
  PROVE  \A x \in Conn : SameIdentity(x)
  <1>1. TAKE x \in Conn
  <1>2. conn[x] \in ConnRecord
    BY DEF TypeOK
  <1> QED
    BY <1>2, WithIdentity DEF SameIdentity

\* Only four steps touch an identity.
LEMMA IdentityStep ==
  ASSUME TypeOK, [Next]_vars
  PROVE  \/ \E c \in Conn : Register(c) \/ Detach(c)
         \/ \E c \in Conn, u \in User \cup {NoUser}, d \in Device \cup {NoDevice} :
               Authenticate(c, u, d)
         \/ Bind
         \/ IdentitiesKept
  <1> USE DEF connVars, topicVars, appVars
  <1>q. ASSUME UNCHANGED <<conn, perUser, devices>>, work'.bind \subseteq work.bind
        PROVE  IdentitiesKept
    BY <1>q DEF IdentitiesKept, SameIdentity
  <1>1. ASSUME Join PROVE IdentitiesKept
    <2>1. PICK p \in work.join : Join!(p)
      BY <1>1 DEF Join
    <2>2. p[1] \in Conn /\ p[2] \in Topic
      BY DEF TypeOK, WorkRecord
    <2>3. work'.bind = work.bind
      BY <2>1 DEF TypeOK, WorkRecord
    <2> QED
      BY <2>1, <2>2, <2>3, SubscribeLockedIdentity DEF IdentitiesKept
  <1>2. ASSUME Drop PROVE IdentitiesKept
    <2>1. PICK p \in work.drop : Drop!(p)
      BY <1>2 DEF Drop
    <2>2. work'.bind = work.bind
      BY <2>1 DEF TypeOK, WorkRecord
    <2> QED
      BY <1>q, <2>1, <2>2
  <1>3. ASSUME NEW full \in BOOLEAN, Tell(full) PROVE IdentitiesKept
    <2>1. PICK p \in work.tell : Tell(full)!(p)
      BY <1>3 DEF Tell
    <2>2. p[1] \in Conn /\ p[2] \in Topic
      BY DEF TypeOK, WorkRecord
    <2>3. work'.bind = work.bind
      BY <2>1 DEF TypeOK, WorkRecord
    <2>4. \A x \in Conn : conn'[x] = conn[x] \/ conn'[x] = Without(conn[x], p[2])
      BY <2>1, <2>2 DEF TypeOK
    <2> QED
      BY <2>1, <2>2, <2>3, <2>4, WithoutIdentity DEF IdentitiesKept
  <1>4. ASSUME NEW full \in SUBSET Conn, ResetTopic(full) PROVE IdentitiesKept
    <2>1. PICK t \in work.reset : ResetTopic(full)!(t)
      BY <1>4 DEF ResetTopic
    <2>2. t \in Topic
      BY DEF TypeOK, WorkRecord
    <2>3. work'.bind = work.bind
      BY <2>1 DEF TypeOK, WorkRecord
    <2>4. \A x \in Conn : conn'[x] = conn[x] \/ conn'[x] = Without(conn[x], t)
      BY <2>1
    <2> QED
      BY <2>1, <2>2, <2>3, <2>4, WithoutIdentity DEF IdentitiesKept
  <1>5. ASSUME NEW k \in Task, NEW full \in BOOLEAN, Subscribe(k, full)
        PROVE  IdentitiesKept
    <2>1. task[k].conn \in Conn
      BY <1>5, Zenon DEF Subscribe, Refused, Open
    <2>2. task[k].topic \in Topic
      BY <1>5, BoundTypes DEF Subscribe, TypeOK, BusyTask, IdleTask
    <2> QED
      BY <1>5, <2>1, <2>2, SubscribeLockedIdentity DEF Subscribe, IdentitiesKept
  <1>6. ASSUME NEW c \in Conn, NEW t \in Room, SubscribeSession(c, t)
        PROVE  IdentitiesKept
    <2>1. t \in Topic
      BY BoundTypes
    <2> QED
      BY <1>6, <2>1, SubscribeLockedIdentity DEF SubscribeSession, IdentitiesKept
  <1>7. ASSUME NEW c \in Conn, NEW t \in Topic, Unsubscribe(c, t)
        PROVE  IdentitiesKept
    <2>1. \A x \in Conn : conn'[x] = conn[x] \/ conn'[x] = Without(conn[x], t)
      BY <1>7 DEF Unsubscribe, TypeOK
    <2> QED
      BY <1>7, <2>1, WithoutIdentity DEF Unsubscribe, IdentitiesKept
  <1>8. ASSUME NEW c \in Conn, CloseStale(c)
               \/ \E u \in User \cup {NoUser}, d \in Device \cup {NoDevice} :
                     Refuse(c, u, d)
        PROVE  IdentitiesKept
    BY <1>8, <1>q DEF CloseStale, Refuse
  <1>9. ASSUME (\E u \in User : CloseUser(u)) \/ \E t \in IdentityTopic : CloseTopic(t)
        PROVE  IdentitiesKept
    BY <1>9, <1>q DEF CloseUser, CloseTopic
  <1>10. ASSUME NEW k \in Task,
                \/ Grant(k) \/ Deny(k) \/ SubscribeRefused(k) \/ Resolve(k)
                \/ \E c \in Conn, t \in Room : StartSubscribe(k, c, t)
         PROVE  IdentitiesKept
    BY <1>10, <1>q DEF Grant, Deny, SubscribeRefused, Resolve, StartSubscribe
  <1>11. ASSUME RevokeNext PROVE IdentitiesKept
    <2>1. ASSUME NEW u \in User, NEW t \in Room, KickLocal(u, t)
          PROVE  IdentitiesKept
      <3>1. work'.bind = work.bind
        BY <2>1 DEF KickLocal, TypeOK, WorkRecord
      <3> QED
        BY <1>q, <2>1, <3>1 DEF KickLocal
    <2>2. ASSUME Reset PROVE IdentitiesKept
      <3>1. work'.bind = work.bind
        BY <2>2 DEF Reset, TypeOK, WorkRecord
      <3> QED
        BY <1>q, <2>2, <3>1 DEF Reset
    <2>3. ASSUME ResetMarks \/ \E u \in User, t \in Room :
                   \/ Withdraw(u, t) \/ Readmit(u, t) \/ DeliverKick(u, t)
                   \/ LoseKick(u, t)
          PROVE  IdentitiesKept
      BY <1>q, <2>3 DEF ResetMarks, Withdraw, Readmit, DeliverKick, LoseKick
    <2> QED
      BY <1>11, <2>1, <2>2, <2>3 DEF RevokeNext, KickUser, KickDelivered
  <1>12. ASSUME NEW t \in Topic, NEW full \in SUBSET subs[t], FanOut(t, full)
         PROVE  IdentitiesKept
    BY <1>12, <1>q DEF FanOut
  <1>13. CASE UNCHANGED vars
    BY <1>13, <1>q DEF vars
  <1> QED
    BY <1>1, <1>2, <1>3, <1>4, <1>5, <1>6, <1>7, <1>8, <1>9, <1>10, <1>11,
       <1>12, <1>13
    DEF Next, ConnNext, SectionNext, SubscribeNext, Close, Leave

-----------------------------------------------------------------------------
(* Users and devices                                                       *)

\* The open connections of a user.
BoundTo(u) == {c \in Open : conn[c].user = u}

LEMMA InitIdentity == Init => IdentityInv
  <1> SUFFICES ASSUME Init PROVE IdentityInv
    OBVIOUS
  <1>1. /\ \A c \in Conn : conn[c].st = "new" /\ conn[c].user = NoUser
                           /\ conn[c].device = NoDevice
        /\ work.bind = {} /\ \A d \in Device : devices[d] = NoConn
        /\ \A u \in User : perUser[u] = 0
    BY DEF Init, Unregistered, NoWork
  <1>2. Open = {}
    BY <1>1 DEF Open
  <1>3. \A u \in User : {c \in Open : conn[c].user = u} = {}
    BY <1>2
  <1>4. IdentityReady
    BY <1>1, <1>2, FS_EmptySet DEF IdentityReady
  <1>5. PerUserExact
    <2>1. Cardinality({}) = 0
      BY FS_EmptySet
    <2>2. \A u \in User : Cardinality({c \in Open : conn[c].user = u}) = 0
      BY <1>3, <2>1
    <2> QED
      BY <1>1, <2>2, BoundTypes DEF PerUserExact
  <1>6. DeviceExclusive
    BY <1>1, <1>2, BoundTypes DEF DeviceExclusive
  <1> QED
    BY <1>4, <1>5, <1>6, InitType DEF IdentityInv

\* Taking a connection out of the table: it is counted down once, and its
\* device is free if it was the holder.
LEMMA DetachIdentity ==
  ASSUME IdentityInv, NEW c \in Open, DetachLocked(c)
  PROVE  /\ Open' = Open \ {c} /\ IsFiniteSet(Open')
         /\ \A x \in Conn : ~ conn'[x].auth =>
               conn'[x].user = NoUser /\ conn'[x].device = NoDevice
         /\ PerUserExact' /\ DeviceExclusive'
         /\ \A u \in User : perUser'[u] <= perUser[u]
         /\ \A x \in Conn : x # c => conn'[x] = conn[x]
         /\ \A d \in Device : devices'[d] = IF devices[d] = c THEN NoConn
                                            ELSE devices[d]
  <1>0. TypeOK /\ IdentityReady /\ PerUserExact /\ DeviceExclusive /\ c \in Conn
    BY DEF IdentityInv, Open
  <1>1. /\ conn'[c] = Removed /\ \A x \in Conn : x # c => conn'[x] = conn[x]
        /\ perUser' = PerUserWithout(c) /\ devices' = DevicesWithout(c)
    BY <1>0 DEF DetachLocked, TypeOK
  <1>2. Removed.st = "gone" /\ Removed.user = NoUser /\ Removed.device = NoDevice
    BY DEF Removed, Unregistered
  <1>3. Open' = Open \ {c}
    BY <1>0, <1>1, <1>2 DEF Open
  <1>4. IsFiniteSet(Open')
    BY <1>0, <1>3, FS_RemoveElement DEF IdentityReady
  <1>5. ASSUME NEW x \in Conn, ~ conn'[x].auth
        PROVE  conn'[x].user = NoUser /\ conn'[x].device = NoDevice
    <2>1. CASE x = c
      BY <1>1, <1>2, <2>1
    <2>2. CASE x # c
      <3>1. conn'[x] = conn[x]
        BY <1>1, <2>2
      <3> QED
        BY <1>0, <1>5, <3>1 DEF IdentityReady
    <2> QED
      BY <2>1, <2>2
  <1>6. ASSUME NEW u \in User
        PROVE  /\ perUser'[u] = Cardinality(BoundTo(u)')
               /\ perUser'[u] <= perUser[u] /\ perUser'[u] <= MaxConnections
    <2>1. IsFiniteSet(BoundTo(u))
      BY <1>0, FS_Subset DEF IdentityReady, BoundTo
    <2>2. /\ perUser[u] = Cardinality(BoundTo(u)) /\ perUser[u] <= MaxConnections
          /\ perUser[u] \in Nat
      BY <1>0 DEF PerUserExact, TypeOK, BoundTo
    <2>3. BoundTo(u)' = BoundTo(u) \ {c}
      BY <1>1, <1>2, <1>3, BoundTypes DEF BoundTo, Open
    <2>4. perUser'[u] = IF conn[c].user = u /\ perUser[u] > 0
                        THEN perUser[u] - 1 ELSE perUser[u]
      BY <1>1 DEF PerUserWithout
    <2>5. c \in BoundTo(u) <=> conn[c].user = u
      BY DEF BoundTo
    <2>6. Cardinality(BoundTo(u) \ {c}) = IF c \in BoundTo(u)
            THEN Cardinality(BoundTo(u)) - 1 ELSE Cardinality(BoundTo(u))
      BY <2>1, FS_RemoveElement
    <2>7. c \in BoundTo(u) => Cardinality(BoundTo(u)) # 0
      BY <2>1, FS_EmptySet
    <2> QED
      BY <2>2, <2>3, <2>4, <2>5, <2>6, <2>7, BoundTypes
  <1>7. PerUserExact'
    BY <1>6 DEF PerUserExact, BoundTo
  <1>8. \A d \in Device : devices'[d] = IF devices[d] = c THEN NoConn
                                        ELSE devices[d]
    BY <1>0, <1>1 DEF DevicesWithout, DeviceExclusive
  <1>9. DeviceExclusive'
    BY <1>0, <1>1, <1>2, <1>3, <1>8, BoundTypes DEF DeviceExclusive
  <1> QED
    BY <1>1, <1>3, <1>4, <1>5, <1>6, <1>7, <1>8, <1>9

LEMMA StepIdentity == IdentityInv /\ [Next]_vars => IdentityInv'
  <1> SUFFICES ASSUME IdentityInv, [Next]_vars
               PROVE  (IdentityReady /\ PerUserExact /\ DeviceExclusive)'
    BY StepType DEF IdentityInv
  <1> USE DEF connVars, topicVars, appVars
  <1>0. TypeOK /\ TypeOK' /\ IdentityReady /\ PerUserExact /\ DeviceExclusive
    BY StepType DEF IdentityInv
  <1>1. ASSUME NEW c \in Conn, Register(c)
        PROVE  (IdentityReady /\ PerUserExact /\ DeviceExclusive)'
    <2>1. /\ conn'[c] = Registered /\ \A x \in Conn : x # c => conn'[x] = conn[x]
          /\ conn[c].st = "new" /\ work' = NoWork
          /\ UNCHANGED <<perUser, devices>>
      BY <1>0, <1>1 DEF Register, TypeOK, Idle
    <2>2. /\ Registered.st = "open" /\ Registered.user = NoUser
          /\ Registered.device = NoDevice
      BY DEF Registered, Unregistered
    <2>3. Open' = Open \cup {c} /\ c \notin Open
      BY <2>1, <2>2 DEF Open
    <2>4. IsFiniteSet(Open')
      BY <1>0, <2>3, FS_AddElement DEF IdentityReady
    <2>5. \A u \in User : BoundTo(u)' = BoundTo(u)
      BY <2>1, <2>2, <2>3, BoundTypes DEF BoundTo, Open
    <2>6. PerUserExact'
      BY <1>0, <2>1, <2>5 DEF PerUserExact, BoundTo
    <2>7. DeviceExclusive'
      BY <1>0, <2>1, <2>2, <2>3, BoundTypes DEF DeviceExclusive
    <2>8. \A x \in Conn : ~ conn'[x].auth =>
             conn'[x].user = NoUser /\ conn'[x].device = NoDevice
      <3>1. TAKE x \in Conn
      <3>2. CASE x = c
        BY <2>1, <2>2, <3>2
      <3>3. CASE x # c
        BY <1>0, <2>1, <3>3 DEF IdentityReady
      <3> QED
        BY <3>2, <3>3
    <2>9. work'.bind = {}
      BY <2>1 DEF NoWork
    <2> QED
      BY <2>4, <2>6, <2>7, <2>8, <2>9 DEF IdentityReady
  <1>2. ASSUME NEW c \in Conn, Detach(c)
        PROVE  (IdentityReady /\ PerUserExact /\ DeviceExclusive)'
    <2>1. c \in Open /\ DetachLocked(c)
          /\ work' = [NoWork EXCEPT !.drop = Subscriptions(c)]
      BY <1>2 DEF Detach, Idle
    <2>2. work'.bind = {}
      BY <2>1 DEF NoWork
    <2> QED
      BY <2>1, <2>2, DetachIdentity DEF IdentityReady
  <1>3. ASSUME NEW c \in Conn, NEW u \in User \cup {NoUser},
               NEW d \in Device \cup {NoDevice}, Authenticate(c, u, d)
        PROVE  (IdentityReady /\ PerUserExact /\ DeviceExclusive)'
    <2> DEFINE holder == IF d \in Device THEN devices[d] ELSE NoConn
               b == [conn |-> c, user |-> u, device |-> d]
    <2>1. /\ c \in Open /\ ~ conn[c].auth
          /\ u \in User => perUser[u] < MaxConnections
      <3>1. c \in Open /\ ~ AuthRefused(c, u, d)
        BY <1>3 DEF Authenticate
      <3>2. ~ conn[c].auth /\ ~ (u \in User /\ perUser[u] >= MaxConnections)
        BY <3>1, Zenon DEF AuthRefused
      <3>3. u \in User => perUser[u] \in Nat
        BY <1>0 DEF TypeOK
      <3> QED
        BY <3>1, <3>2, <3>3, BoundTypes
    <2>2. b.conn = c /\ b.user = u /\ b.device = d
      OBVIOUS
    <2>3. CASE holder \in {NoConn, c}
      <3>1. work' = [NoWork EXCEPT !.bind = {b}] /\ UNCHANGED <<conn, perUser, devices>>
        BY <1>3, <2>3 DEF Authenticate, Idle
      <3>2. work'.bind = {b}
        BY <3>1 DEF NoWork
      <3>3. d \in Device => devices[d] = NoConn
        <4>1. conn[c].device = NoDevice
          BY <1>0, <2>1 DEF IdentityReady
        <4> QED
          BY <1>0, <2>3, <4>1, BoundTypes DEF DeviceExclusive
      <3>4. Open' = Open
        BY <3>1 DEF Open
      <3> HIDE DEF b
      <3>5. IdentityReady'
        BY <1>0, <2>1, <2>2, <3>1, <3>2, <3>3, <3>4 DEF IdentityReady
      <3> QED
        BY <1>0, <3>1, <3>4, <3>5 DEF PerUserExact, DeviceExclusive
    <2>4. CASE holder \notin {NoConn, c}
      <3>1. d \in Device /\ holder = devices[d] /\ holder \in Conn
        BY <1>0, <2>4 DEF TypeOK
      <3>2. holder \in Open /\ conn[holder].device = d
        BY <1>0, <3>1 DEF DeviceExclusive
      <3>3. /\ DetachLocked(holder)
            /\ work' = [NoWork EXCEPT !.bind = {b}, !.drop = Subscriptions(holder)]
        BY <1>3, <2>4 DEF Authenticate, Idle
      <3>4. work'.bind = {b}
        BY <3>3 DEF NoWork
      <3> HIDE DEF b, holder
      <3>5. /\ Open' = Open \ {holder} /\ IsFiniteSet(Open')
            /\ \A x \in Conn : ~ conn'[x].auth =>
                  conn'[x].user = NoUser /\ conn'[x].device = NoDevice
            /\ PerUserExact' /\ DeviceExclusive'
            /\ \A v \in User : perUser'[v] <= perUser[v]
            /\ \A x \in Conn : x # holder => conn'[x] = conn[x]
            /\ devices'[d] = NoConn
        BY <3>1, <3>2, <3>3, DetachIdentity
      <3>6. c # holder
        BY <2>4
      <3>7. u \in User => perUser'[u] < MaxConnections
        <4>1. u \in User => perUser[u] \in Nat /\ perUser'[u] \in Nat
          BY <1>0 DEF TypeOK
        <4> QED
          BY <2>1, <3>5, <4>1, BoundTypes
      <3>8. c \in Open' /\ ~ conn'[c].auth
        BY <2>1, <3>5, <3>6
      <3>9. \A x \in work'.bind :
               /\ x.conn \in Open' /\ ~ conn'[x.conn].auth
               /\ x.user \in User => perUser'[x.user] < MaxConnections
               /\ x.device \in Device => devices'[x.device] = NoConn
        BY <2>2, <3>4, <3>5, <3>7, <3>8
      <3> QED
        BY <3>5, <3>9 DEF IdentityReady
    <2> QED
      BY <2>3, <2>4
  <1>4. ASSUME Bind PROVE (IdentityReady /\ PerUserExact /\ DeviceExclusive)'
    <2>1. PICK b \in work.bind : Bind!(b)
      BY <1>4 DEF Bind
    <2> DEFINE c == b.conn
    <2>2. /\ b \in Binding /\ c \in Conn /\ b.user \in User \cup {NoUser}
          /\ b.device \in Device \cup {NoDevice}
      BY <1>0 DEF TypeOK, WorkRecord, Binding
    <2>3. /\ c \in Open /\ conn[c].user = NoUser /\ conn[c].device = NoDevice
          /\ b.user \in User => perUser[b.user] < MaxConnections
          /\ b.device \in Device => devices[b.device] = NoConn
      BY <1>0, <2>1, <2>2 DEF IdentityReady
    <2>4. /\ \A x \in Conn : x # c => conn'[x] = conn[x]
          /\ conn'[c].st = "open" /\ conn'[c].user = b.user
          /\ conn'[c].device = b.device /\ conn'[c].auth = TRUE
      <3>1. conn[c] \in ConnRecord /\ conn[c].st = "open"
        BY <1>0, <2>2, <2>3 DEF TypeOK, Open
      <3>2. conn'[c] = [conn[c] EXCEPT !.auth = TRUE, !.user = b.user,
                                       !.device = b.device]
            /\ \A x \in Conn : x # c => conn'[x] = conn[x]
        BY <1>0, <2>1, <2>2 DEF TypeOK
      <3> QED
        BY <3>1, <3>2 DEF ConnRecord
    <2>5. work'.bind = {}
      BY <1>0, <2>1 DEF TypeOK, WorkRecord
    <2>6. Open' = Open
      BY <2>2, <2>3, <2>4 DEF Open
    <2>7. /\ \A v \in User : perUser'[v] = IF v = b.user THEN perUser[v] + 1
                                           ELSE perUser[v]
          /\ \A d \in Device : devices'[d] = IF d = b.device THEN c ELSE devices[d]
      BY <2>1
    <2> HIDE DEF c
    <2>8. ASSUME NEW v \in User
          PROVE  /\ perUser'[v] = Cardinality(BoundTo(v)')
                 /\ perUser'[v] <= MaxConnections
      <3>1. IsFiniteSet(BoundTo(v))
        BY <1>0, FS_Subset DEF IdentityReady, BoundTo
      <3>2. /\ perUser[v] = Cardinality(BoundTo(v)) /\ perUser[v] <= MaxConnections
            /\ perUser[v] \in Nat
        BY <1>0 DEF PerUserExact, TypeOK, BoundTo
      <3>3. c \notin BoundTo(v)
        BY <2>3, BoundTypes DEF BoundTo
      <3>4. CASE v = b.user
        <4>1. BoundTo(v)' = BoundTo(v) \cup {c}
          BY <2>3, <2>4, <2>6, <3>4 DEF BoundTo, Open
        <4>2. Cardinality(BoundTo(v) \cup {c}) = Cardinality(BoundTo(v)) + 1
          BY <3>1, <3>3, FS_AddElement
        <4> QED
          BY <2>3, <2>7, <3>2, <3>4, <4>1, <4>2, BoundTypes
      <3>5. CASE v # b.user
        <4>1. BoundTo(v)' = BoundTo(v)
          BY <2>4, <2>6, <3>3, <3>5 DEF BoundTo, Open
        <4> QED
          BY <2>7, <3>2, <3>5, <4>1
      <3> QED
        BY <3>4, <3>5
    <2>9. PerUserExact'
      BY <2>8 DEF PerUserExact, BoundTo
    <2>10. DeviceExclusive'
      <3>1. SUFFICES ASSUME NEW d \in Device, NEW x \in Conn
                     PROVE  devices'[d] = x <=> x \in Open /\ conn'[x].device = d
        BY <2>6 DEF DeviceExclusive
      <3>2. devices[d] = x <=> x \in Open /\ conn[x].device = d
        BY <1>0 DEF DeviceExclusive
      <3>3. CASE x = c
        BY <2>3, <2>4, <2>7, <3>2, <3>3, BoundTypes
      <3>4. CASE x # c
        <4>1. conn'[x] = conn[x]
          BY <2>4, <3>4
        <4>2. CASE d = b.device
          BY <2>3, <2>7, <3>2, <3>4, <4>1, <4>2, BoundTypes
        <4>3. CASE d # b.device
          BY <2>7, <3>2, <4>1, <4>3
        <4> QED
          BY <4>2, <4>3
      <3> QED
        BY <3>3, <3>4
    <2>11. \A x \in Conn : ~ conn'[x].auth =>
              conn'[x].user = NoUser /\ conn'[x].device = NoDevice
      <3>1. TAKE x \in Conn
      <3>2. CASE x = c
        BY <2>4, <3>2
      <3>3. CASE x # c
        BY <1>0, <2>4, <3>3 DEF IdentityReady
      <3> QED
        BY <3>2, <3>3
    <2> QED
      BY <1>0, <2>5, <2>6, <2>9, <2>10, <2>11 DEF IdentityReady
  <1>5. ASSUME IdentitiesKept
        PROVE  (IdentityReady /\ PerUserExact /\ DeviceExclusive)'
    <2>1. /\ \A x \in Conn : SameIdentity(x)
          /\ UNCHANGED <<perUser, devices>> /\ work'.bind \subseteq work.bind
      BY <1>5 DEF IdentitiesKept
    <2>2. Open' = Open
      BY <2>1 DEF Open, SameIdentity
    <2>3. \A u \in User : BoundTo(u)' = BoundTo(u)
      BY <2>1, <2>2 DEF BoundTo, SameIdentity, Open
    <2>4. PerUserExact'
      BY <1>0, <2>1, <2>3 DEF PerUserExact, BoundTo
    <2>5. DeviceExclusive'
      BY <1>0, <2>1, <2>2 DEF DeviceExclusive, SameIdentity
    <2>6. \A x \in Conn : ~ conn'[x].auth =>
             conn'[x].user = NoUser /\ conn'[x].device = NoDevice
      BY <1>0, <2>1 DEF IdentityReady, SameIdentity
    <2>7. \A b \in work'.bind :
             /\ b.conn \in Open' /\ ~ conn'[b.conn].auth
             /\ b.user \in User => perUser'[b.user] < MaxConnections
             /\ b.device \in Device => devices'[b.device] = NoConn
      <3>1. TAKE b \in work'.bind
      <3>2. /\ b.conn \in Open /\ ~ conn[b.conn].auth
            /\ b.user \in User => perUser[b.user] < MaxConnections
            /\ b.device \in Device => devices[b.device] = NoConn
        BY <1>0, <2>1 DEF IdentityReady
      <3>3. ~ conn'[b.conn].auth
        BY <2>1, <3>2, Zenon DEF SameIdentity, Open
      <3> QED
        BY <2>1, <2>2, <3>2, <3>3
    <2> QED
      BY <1>0, <2>2, <2>4, <2>5, <2>6, <2>7 DEF IdentityReady
  <1> QED
    BY <1>0, <1>1, <1>2, <1>3, <1>4, <1>5, IdentityStep

\* Conns::per_user counts exactly the open connections of a user, within the
\* cap, and a device is held by exactly the open connection bound to it, in
\* whatever order connections are bound, superseded, refused and closed.
THEOREM IdentityAlwaysExact == Spec => []IdentityExact
  <1>1. IdentityInv => IdentityExact
    BY DEF IdentityInv, IdentityExact
  <1> QED
    BY <1>1, InitIdentity, StepIdentity, PTL DEF Spec

-----------------------------------------------------------------------------
(* The client's own subscriptions                                          *)

\* The client's own subscribe enters `x` in the topic of its task.
OwnSubscribe(x, k) ==
  /\ \E full \in BOOLEAN : Subscribe(k, full)
  /\ task[k].conn = x
  /\ conn[x].topics[task[k].topic] = "no"
  /\ conn'[x] = With(conn[x], task[k].topic, "explicit")

\* What a step can do to the topics of one connection.
TopicsStep(x) ==
  \/ conn'[x].topics = conn[x].topics /\ conn'[x].explicit = conn[x].explicit
  \/ conn'[x] = Registered \/ conn'[x] = Removed
  \/ \E t \in Topic : conn'[x] = Without(conn[x], t)
  \/ \E t \in Topic : conn[x].topics[t] = "no"
                      /\ conn'[x] = With(conn[x], t, "auto")
  \/ \E k \in Task : OwnSubscribe(x, k)

LEMMA MembershipStep ==
  ASSUME TypeOK, [Next]_vars, NEW x \in Conn
  PROVE  TopicsStep(x)
  <1> USE DEF connVars, topicVars, appVars
  <1>q. ASSUME UNCHANGED conn PROVE TopicsStep(x)
    BY <1>q DEF TopicsStep
  <1>s. ASSUME NEW c \in Conn, NEW t \in Topic, NEW kind \in {"auto", "explicit"},
               SubscribeLocked(c, t, kind)
        PROVE  \/ conn'[x] = conn[x]
               \/ /\ x = c /\ conn[x].topics[t] = "no"
                  /\ conn'[x] = With(conn[x], t, kind)
    BY <1>s DEF SubscribeLocked, TypeOK
  <1>w. ASSUME NEW t \in Topic,
               conn'[x] = conn[x] \/ conn'[x] = Without(conn[x], t)
        PROVE  TopicsStep(x)
    BY <1>w DEF TopicsStep
  <1>a. ASSUME NEW c \in Conn, NEW t \in Topic, SubscribeLocked(c, t, "auto")
        PROVE  TopicsStep(x)
    BY <1>a, <1>s DEF TopicsStep
  <1>d. ASSUME NEW c \in Conn, DetachLocked(c) PROVE TopicsStep(x)
    BY <1>d DEF DetachLocked, TopicsStep, TypeOK
  <1>1. ASSUME NEW c \in Conn, Register(c) PROVE TopicsStep(x)
    BY <1>1 DEF Register, TopicsStep, TypeOK
  <1>2. ASSUME NEW c \in Conn, Detach(c) PROVE TopicsStep(x)
    BY <1>2, <1>d DEF Detach
  <1>3. ASSUME NEW c \in Conn, NEW u \in User \cup {NoUser},
               NEW d \in Device \cup {NoDevice}, Authenticate(c, u, d)
        PROVE  TopicsStep(x)
    <2> DEFINE holder == IF d \in Device THEN devices[d] ELSE NoConn
    <2>1. CASE holder \in {NoConn, c}
      BY <1>3, <1>q, <2>1 DEF Authenticate
    <2>2. CASE holder \notin {NoConn, c}
      <3>1. holder \in Conn
        BY <2>2 DEF TypeOK
      <3>2. DetachLocked(holder)
        BY <1>3, <2>2 DEF Authenticate
      <3> QED
        BY <1>d, <3>1, <3>2
    <2> QED
      BY <2>1, <2>2
  <1>4. ASSUME Bind PROVE TopicsStep(x)
    <2>1. PICK b \in work.bind : Bind!(b)
      BY <1>4 DEF Bind
    <2>2. conn[x] \in ConnRecord
      BY DEF TypeOK
    <2>3. conn'[x] = conn[x] \/ conn'[x] = [conn[x] EXCEPT !.auth = TRUE,
             !.user = b.user, !.device = b.device]
      BY <2>1 DEF TypeOK
    <2> QED
      BY <2>2, <2>3 DEF TopicsStep, ConnRecord
  <1>5. ASSUME Join PROVE TopicsStep(x)
    <2>1. PICK p \in work.join : Join!(p)
      BY <1>5 DEF Join
    <2>2. p[1] \in Conn /\ p[2] \in Topic
      BY DEF TypeOK, WorkRecord
    <2> QED
      BY <1>a, <2>1, <2>2
  <1>6. ASSUME NEW full \in BOOLEAN, Tell(full) PROVE TopicsStep(x)
    <2>1. PICK p \in work.tell : Tell(full)!(p)
      BY <1>6 DEF Tell
    <2>2. p[2] \in Topic
      BY DEF TypeOK, WorkRecord
    <2>3. conn'[x] = conn[x] \/ conn'[x] = Without(conn[x], p[2])
      BY <2>1, <2>2 DEF TypeOK
    <2> QED
      BY <1>w, <2>2, <2>3
  <1>7. ASSUME NEW full \in SUBSET Conn, ResetTopic(full) PROVE TopicsStep(x)
    <2>1. PICK t \in work.reset : ResetTopic(full)!(t)
      BY <1>7 DEF ResetTopic
    <2>2. t \in Topic
      BY DEF TypeOK, WorkRecord
    <2>3. conn'[x] = conn[x] \/ conn'[x] = Without(conn[x], t)
      BY <2>1
    <2> QED
      BY <1>w, <2>2, <2>3
  <1>8. ASSUME NEW k \in Task, NEW full \in BOOLEAN, Subscribe(k, full)
        PROVE  TopicsStep(x)
    <2>1. task[k].conn \in Conn
      BY <1>8, Zenon DEF Subscribe, Refused, Open
    <2>2. task[k].topic \in Topic
      BY <1>8, BoundTypes DEF Subscribe, TypeOK, BusyTask, IdleTask
    <2>3. SubscribeLocked(task[k].conn, task[k].topic, "explicit")
      BY <1>8 DEF Subscribe
    <2>4. conn'[x] = conn[x] \/ OwnSubscribe(x, k)
      BY <1>8, <1>s, <2>1, <2>2, <2>3 DEF OwnSubscribe
    <2> QED
      BY <2>4 DEF TopicsStep
  <1>9. ASSUME NEW c \in Conn, NEW t \in Room, SubscribeSession(c, t)
        PROVE  TopicsStep(x)
    <2>1. t \in Topic
      BY BoundTypes
    <2> QED
      BY <1>9, <1>a, <2>1 DEF SubscribeSession
  <1>10. ASSUME NEW c \in Conn, NEW t \in Topic, Unsubscribe(c, t)
         PROVE  TopicsStep(x)
    <2>1. conn'[x] = conn[x] \/ conn'[x] = Without(conn[x], t)
      BY <1>10 DEF Unsubscribe, TypeOK
    <2> QED
      BY <1>w, <2>1
  <1>11. ASSUME \/ Drop \/ RevokeNext
                \/ \E t \in Topic : \E full \in SUBSET subs[t] : FanOut(t, full)
         PROVE  UNCHANGED conn
    BY <1>11 DEF Drop, RevokeNext, KickUser, KickDelivered, KickLocal, ResetMarks,
       Reset, Withdraw, Readmit, DeliverKick, LoseKick, FanOut
  <1>12. ASSUME \/ \E c \in Conn : CloseStale(c)
                \/ \E c \in Conn, u \in User \cup {NoUser},
                      d \in Device \cup {NoDevice} : Refuse(c, u, d)
                \/ \E u \in User : CloseUser(u)
                \/ \E t \in IdentityTopic : CloseTopic(t)
         PROVE  UNCHANGED conn
    BY <1>12 DEF CloseStale, Refuse, CloseUser, CloseTopic
  <1>13. ASSUME NEW k \in Task,
                \/ Grant(k) \/ Deny(k) \/ SubscribeRefused(k) \/ Resolve(k)
                \/ \E c \in Conn, t \in Room : StartSubscribe(k, c, t)
         PROVE  UNCHANGED conn
    BY <1>13 DEF Grant, Deny, SubscribeRefused, Resolve, StartSubscribe
  <1>14. ASSUME UNCHANGED vars PROVE UNCHANGED conn
    BY <1>14 DEF vars
  <1> QED
    BY <1>q, <1>1, <1>2, <1>3, <1>4, <1>5, <1>6, <1>7, <1>8, <1>9, <1>10, <1>11,
       <1>12, <1>13, <1>14
    DEF Next, ConnNext, SectionNext, SubscribeNext, Close, Leave

\* How entering and leaving a topic counts.
LEMMA WithCounts ==
  ASSUME NEW r \in ConnRecord, NEW t \in Topic
  PROVE  /\ With(r, t, "auto").topics = [r.topics EXCEPT ![t] = "auto"]
         /\ With(r, t, "auto").explicit = r.explicit
         /\ With(r, t, "explicit").topics = [r.topics EXCEPT ![t] = "explicit"]
         /\ With(r, t, "explicit").explicit = r.explicit + 1
         /\ Without(r, t).topics = [r.topics EXCEPT ![t] = "no"]
         /\ Without(r, t).explicit =
              IF r.topics[t] = "explicit" THEN r.explicit - 1 ELSE r.explicit
  BY DEF With, Without, ConnRecord

Counts(x, t) ==
  /\ With(conn[x], t, "auto").topics = [conn[x].topics EXCEPT ![t] = "auto"]
  /\ With(conn[x], t, "auto").explicit = conn[x].explicit
  /\ With(conn[x], t, "explicit").topics = [conn[x].topics EXCEPT ![t] = "explicit"]
  /\ With(conn[x], t, "explicit").explicit = conn[x].explicit + 1
  /\ Without(conn[x], t).topics = [conn[x].topics EXCEPT ![t] = "no"]
  /\ Without(conn[x], t).explicit =
       IF conn[x].topics[t] = "explicit" THEN conn[x].explicit - 1
       ELSE conn[x].explicit

LEMMA ConnCounts == TypeOK => \A x \in Conn, t \in Topic : Counts(x, t)
  <1> SUFFICES ASSUME TypeOK, NEW x \in Conn, NEW t \in Topic PROVE Counts(x, t)
    OBVIOUS
  <1>1. conn[x] \in ConnRecord
    BY DEF TypeOK
  <1> QED
    BY <1>1, WithCounts, Zenon DEF Counts

LEMMA InitExplicit == Init => ExplicitInv
  <1> SUFFICES ASSUME Init PROVE ExplicitInv
    OBVIOUS
  <1>1. \A c \in Conn : conn[c].explicit = 0
                        /\ conn[c].topics = [t \in Topic |-> "no"]
    BY DEF Init, Unregistered
  <1>2. \A c \in Conn : ExplicitTopics(c) = {}
    BY <1>1 DEF ExplicitTopics
  <1>3. \A c \in Conn : Cardinality(ExplicitTopics(c)) = 0
                        /\ IsFiniteSet(ExplicitTopics(c))
    BY <1>2, FS_EmptySet
  <1>4. ExplicitExact
    BY <1>1, <1>3, BoundTypes DEF ExplicitExact, ExplicitTopics
  <1> QED
    BY <1>3, <1>4, InitType DEF ExplicitInv

LEMMA StepExplicit == ExplicitInv /\ [Next]_vars => ExplicitInv'
  <1> SUFFICES ASSUME ExplicitInv, [Next]_vars, NEW x \in Conn
               PROVE  /\ conn'[x].explicit = Cardinality(ExplicitTopics(x)')
                      /\ conn'[x].explicit <= MaxSubscriptions
                      /\ IsFiniteSet(ExplicitTopics(x)')
    BY StepType DEF ExplicitInv, ExplicitExact, ExplicitTopics
  <1> DEFINE S == ExplicitTopics(x)
             T == {t \in Topic : conn'[x].topics[t] = "explicit"}
  <1>0. /\ TypeOK /\ IsFiniteSet(S) /\ conn[x].explicit = Cardinality(S)
        /\ conn[x].explicit <= MaxSubscriptions
        /\ conn[x] \in ConnRecord /\ conn[x].topics \in [Topic -> Membership]
        /\ conn[x].explicit \in Int
    BY DEF ExplicitInv, ExplicitExact, TypeOK, ConnRecord, ExplicitTopics
  <1>s. \A t \in Topic : t \in S <=> conn[x].topics[t] = "explicit"
    BY DEF ExplicitTopics
  <1>t. ExplicitTopics(x)' = T
    BY DEF ExplicitTopics
  <1>c. \A t \in Topic : Counts(x, t)
    BY <1>0, ConnCounts
  <1> HIDE DEF S
  <1>1. ASSUME conn'[x].topics = conn[x].topics, conn'[x].explicit = conn[x].explicit
        PROVE  /\ conn'[x].explicit = Cardinality(T)
               /\ conn'[x].explicit <= MaxSubscriptions /\ IsFiniteSet(T)
    <2>1. T = S
      BY <1>1, <1>s DEF ExplicitTopics, S
    <2> QED
      BY <1>0, <1>1, <2>1
  <1>2. ASSUME conn'[x] = Registered \/ conn'[x] = Removed
        PROVE  /\ conn'[x].explicit = Cardinality(T)
               /\ conn'[x].explicit <= MaxSubscriptions /\ IsFiniteSet(T)
    <2>1. conn'[x].explicit = 0 /\ conn'[x].topics = [t \in Topic |-> "no"]
      BY <1>2 DEF Registered, Removed, Unregistered
    <2>2. T = {}
      BY <2>1
    <2>3. Cardinality(T) = 0 /\ IsFiniteSet(T)
      BY <2>2, FS_EmptySet
    <2> QED
      BY <2>1, <2>3, BoundTypes
  <1>3. ASSUME NEW t \in Topic, conn'[x] = Without(conn[x], t)
        PROVE  /\ conn'[x].explicit = Cardinality(T)
               /\ conn'[x].explicit <= MaxSubscriptions /\ IsFiniteSet(T)
    <2>1. /\ conn'[x].topics = [conn[x].topics EXCEPT ![t] = "no"]
          /\ conn'[x].explicit = IF t \in S THEN conn[x].explicit - 1
                                 ELSE conn[x].explicit
      BY <1>3, <1>c, <1>s DEF Counts
    <2>2. T = S \ {t}
      BY <1>0, <1>s, <2>1 DEF S, ExplicitTopics
    <2>3. /\ IsFiniteSet(S \ {t})
          /\ Cardinality(S \ {t}) = IF t \in S THEN Cardinality(S) - 1
                                    ELSE Cardinality(S)
      BY <1>0, FS_RemoveElement
    <2> HIDE DEF T
    <2> QED
      BY <1>0, <2>1, <2>2, <2>3, BoundTypes
  <1>4. ASSUME NEW t \in Topic, conn[x].topics[t] = "no",
               conn'[x] = With(conn[x], t, "auto")
        PROVE  /\ conn'[x].explicit = Cardinality(T)
               /\ conn'[x].explicit <= MaxSubscriptions /\ IsFiniteSet(T)
    <2>1. /\ conn'[x].topics = [conn[x].topics EXCEPT ![t] = "auto"]
          /\ conn'[x].explicit = conn[x].explicit
      BY <1>4, <1>c DEF Counts
    <2>2. T = S
      BY <1>0, <1>4, <1>s, <2>1 DEF S, ExplicitTopics
    <2> HIDE DEF T
    <2> QED
      BY <1>0, <2>1, <2>2
  <1>5. ASSUME NEW k \in Task, OwnSubscribe(x, k)
        PROVE  /\ conn'[x].explicit = Cardinality(T)
               /\ conn'[x].explicit <= MaxSubscriptions /\ IsFiniteSet(T)
    <2> DEFINE t == task[k].topic
    <2>0. \E full \in BOOLEAN : Subscribe(k, full)
      BY <1>5 DEF OwnSubscribe
    <2>1. t \in Topic
      BY <1>0, <2>0, BoundTypes DEF Subscribe, TypeOK, BusyTask, IdleTask
    <2>2. ~ OverLimit(k)
      BY <2>0, Zenon DEF Subscribe, Refused
    <2>3. ~ (conn[x].explicit >= MaxSubscriptions)
      BY <1>5, <2>2 DEF OverLimit, OwnSubscribe
    <2>4. conn[x].topics[t] = "no" /\ conn'[x] = With(conn[x], t, "explicit")
      BY <1>5 DEF OwnSubscribe
    <2> HIDE DEF t
    <2>5. /\ conn'[x].topics = [conn[x].topics EXCEPT ![t] = "explicit"]
          /\ conn'[x].explicit = conn[x].explicit + 1
      BY <1>c, <2>1, <2>4 DEF Counts
    <2>6. T = S \cup {t} /\ t \notin S
      BY <1>0, <1>s, <2>1, <2>4, <2>5 DEF S, ExplicitTopics
    <2>7. IsFiniteSet(S \cup {t}) /\ Cardinality(S \cup {t}) = Cardinality(S) + 1
      BY <1>0, <2>6, FS_AddElement
    <2> HIDE DEF T
    <2> QED
      BY <1>0, <2>3, <2>5, <2>6, <2>7, BoundTypes
  <1>6. TopicsStep(x)
    BY <1>0, MembershipStep
  <1> QED
    BY <1>t, <1>1, <1>2, <1>3, <1>4, <1>5, <1>6 DEF TopicsStep

\* Conn::explicit is the number of the client's own topics, so the decrement of
\* unsubscribe, kick and reset never underflows, and max_subscriptions holds
\* although the check and the authorization are steps apart.
THEOREM ExplicitAlwaysExact == Spec => []ExplicitExact
  <1>1. ExplicitInv => ExplicitExact
    BY DEF ExplicitInv
  <1> QED
    BY <1>1, InitExplicit, StepExplicit, PTL DEF Spec

-----------------------------------------------------------------------------
(* Revoked access                                                          *)

\* What a step can do to the identity of one connection.
IdentityAt(x) ==
  \/ SameIdentity(x)
  \/ conn[x].st = "new" /\ conn'[x] = Registered
  \/ conn'[x] = Removed
  \/ /\ \E b \in work.bind : b.conn = x
     /\ conn'[x].auth /\ conn'[x].st = conn[x].st
     /\ conn'[x].topics = conn[x].topics

LEMMA IdentityAtStep ==
  ASSUME TypeOK, [Next]_vars, NEW x \in Conn
  PROVE  IdentityAt(x)
  <1>0. ASSUME conn'[x] = conn[x] PROVE IdentityAt(x)
    BY <1>0 DEF IdentityAt, SameIdentity
  <1>1. ASSUME NEW c \in Conn, Register(c) PROVE IdentityAt(x)
    <2>1. CASE x = c
      BY <1>1, <2>1 DEF Register, TypeOK, IdentityAt
    <2>2. CASE x # c
      BY <1>0, <1>1, <2>2 DEF Register, TypeOK
    <2> QED
      BY <2>1, <2>2
  <1>d. ASSUME NEW c \in Conn, DetachLocked(c) PROVE IdentityAt(x)
    <2>1. conn'[x] = Removed \/ conn'[x] = conn[x]
      BY <1>d DEF DetachLocked, TypeOK
    <2> QED
      BY <1>0, <2>1 DEF IdentityAt
  <1>2. ASSUME NEW c \in Conn, Detach(c) PROVE IdentityAt(x)
    BY <1>2, <1>d DEF Detach
  <1>3. ASSUME NEW c \in Conn, NEW u \in User \cup {NoUser},
               NEW d \in Device \cup {NoDevice}, Authenticate(c, u, d)
        PROVE  IdentityAt(x)
    <2> DEFINE holder == IF d \in Device THEN devices[d] ELSE NoConn
    <2>1. CASE holder \in {NoConn, c}
      <3>1. UNCHANGED conn
        BY <1>3, <2>1 DEF Authenticate, connVars
      <3> QED
        BY <1>0, <3>1
    <2>2. CASE holder \notin {NoConn, c}
      <3>1. holder \in Conn
        BY <2>2 DEF TypeOK
      <3>2. DetachLocked(holder)
        BY <1>3, <2>2 DEF Authenticate
      <3> QED
        BY <1>d, <3>1, <3>2
    <2> QED
      BY <2>1, <2>2
  <1>4. ASSUME Bind PROVE IdentityAt(x)
    <2>1. PICK b \in work.bind : Bind!(b)
      BY <1>4 DEF Bind
    <2>2. CASE x # b.conn
      <3>1. conn'[x] = conn[x]
        BY <2>1, <2>2 DEF TypeOK
      <3> QED
        BY <1>0, <3>1
    <2>3. CASE x = b.conn
      <3>1. conn[x] \in ConnRecord
        BY DEF TypeOK
      <3>2. conn'[x] = [conn[x] EXCEPT !.auth = TRUE, !.user = b.user,
                                       !.device = b.device]
        BY <2>1, <2>3 DEF TypeOK
      <3>3. /\ conn'[x].auth = TRUE /\ conn'[x].st = conn[x].st
            /\ conn'[x].topics = conn[x].topics
        BY <3>1, <3>2 DEF ConnRecord
      <3> QED
        BY <2>3, <3>3 DEF IdentityAt
    <2> QED
      BY <2>2, <2>3
  <1> QED
    BY <1>1, <1>2, <1>3, <1>4, IdentityStep DEF IdentitiesKept, IdentityAt

\* What a step can do to one subscribe task.
TaskStep(k) ==
  \/ task'[k] = task[k]
  \/ task'[k].phase = "idle"
  \/ /\ task'[k].phase = "authorizing"
     /\ task'[k].conn \in Open /\ conn[task'[k].conn].auth
     /\ task'[k].mark = revocations[SlotOf[task'[k].topic]]
     /\ UNCHANGED <<conn, revocations>>
  \/ /\ task[k].phase # "idle" /\ task'[k].phase # "idle"
     /\ task'[k].conn = task[k].conn /\ task'[k].topic = task[k].topic
     /\ task'[k].mark \in {task[k].mark, revocations[SlotOf[task[k].topic]]}
     /\ task'[k].phase = "granted" =>
           MayJoin(conn[task[k].conn].user, task[k].topic)
     /\ UNCHANGED <<conn, revocations, access>>

LEMMA TaskTypes ==
  ASSUME TypeOK, NEW k \in Task
  PROVE  /\ task[k] = IdleTask \/ task[k] \in BusyTask
         /\ IdleTask.phase = "idle"
         /\ task[k].phase # "idle" =>
              /\ task[k].conn \in Conn /\ task[k].topic \in Room
              /\ task[k].topic \in Topic /\ task[k].mark \in Nat
              /\ SlotOf[task[k].topic] \in Slot
              /\ revocations[SlotOf[task[k].topic]] \in Nat
  <1>1. task[k] = IdleTask \/ task[k] \in BusyTask
    BY DEF TypeOK
  <1>2. IdleTask.phase = "idle"
    BY DEF IdleTask
  <1>3. task[k].phase # "idle" => task[k] \in BusyTask
    BY <1>1, <1>2
  <1> QED
    BY <1>1, <1>2, <1>3, BoundTypes DEF BusyTask, TypeOK

LEMMA TasksStep ==
  ASSUME TypeOK, [Next]_vars, NEW k \in Task
  PROVE  TaskStep(k)
  <1> USE DEF connVars, topicVars, appVars
  <1>q. ASSUME UNCHANGED task PROVE TaskStep(k)
    BY <1>q DEF TaskStep
  <1>0. task[k].phase # "idle" => task[k] \in BusyTask
    BY TaskTypes
  <1>1. ASSUME NEW l \in Task, NEW c \in Conn, NEW t \in Room, StartSubscribe(l, c, t)
        PROVE  TaskStep(k)
    <2>1. CASE k # l
      BY <1>1, <2>1 DEF StartSubscribe, TypeOK, TaskStep
    <2>2. CASE k = l
      <3>1. task'[k] = [phase |-> "authorizing", conn |-> c, topic |-> t,
                        mark |-> revocations[SlotOf[t]], attempts |-> 1]
        BY <1>1, <2>2 DEF StartSubscribe, TypeOK
      <3>2. c \in Open /\ conn[c].auth /\ UNCHANGED <<conn, revocations>>
        BY <1>1 DEF StartSubscribe
      <3> QED
        BY <3>1, <3>2 DEF TaskStep
    <2> QED
      BY <2>1, <2>2
  <1>2. ASSUME NEW l \in Task, Grant(l) PROVE TaskStep(k)
    <2>1. CASE k # l
      BY <1>2, <2>1 DEF Grant, TypeOK, TaskStep
    <2>2. CASE k = l
      <3>1. /\ task[k].phase = "authorizing"
            /\ MayJoin(conn[task[k].conn].user, task[k].topic)
            /\ UNCHANGED <<conn, revocations, access>>
            /\ task'[k] = [task[k] EXCEPT !.phase = "granted"]
        BY <1>2, <2>2 DEF Grant, TypeOK
      <3>2. task[k] \in BusyTask
        BY <1>0, <3>1
      <3>3. /\ task'[k].phase = "granted" /\ task'[k].conn = task[k].conn
            /\ task'[k].topic = task[k].topic /\ task'[k].mark = task[k].mark
        BY <3>1, <3>2 DEF BusyTask
      <3> QED
        BY <3>1, <3>3 DEF TaskStep
    <2> QED
      BY <2>1, <2>2
  <1>3. ASSUME NEW l \in Task, Deny(l) \/ \E full \in BOOLEAN : Subscribe(l, full)
        PROVE  TaskStep(k)
    <2>1. task' = [task EXCEPT ![l] = IdleTask]
      BY <1>3 DEF Deny, Subscribe
    <2> QED
      BY <2>1, TaskTypes DEF TaskStep, TypeOK
  <1>4. ASSUME NEW l \in Task, SubscribeRefused(l) PROVE TaskStep(k)
    <2>1. CASE k # l
      BY <1>4, <2>1 DEF SubscribeRefused, TypeOK, TaskStep
    <2>2. CASE k = l
      <3>1. /\ task[k].phase = "granted" /\ UNCHANGED <<conn, revocations, access>>
            /\ task'[k] = IdleTask \/ task'[k] = [task[k] EXCEPT !.phase = "again"]
        BY <1>4, <2>2 DEF SubscribeRefused, TypeOK
      <3>2. task[k] \in BusyTask
        BY <1>0, <3>1
      <3>3. \/ task'[k].phase = "idle"
            \/ /\ task'[k].phase = "again" /\ task'[k].conn = task[k].conn
               /\ task'[k].topic = task[k].topic /\ task'[k].mark = task[k].mark
        BY <3>1, <3>2, TaskTypes DEF BusyTask
      <3> QED
        BY <3>1, <3>3 DEF TaskStep
    <2> QED
      BY <2>1, <2>2
  <1>5. ASSUME NEW l \in Task, Resolve(l) PROVE TaskStep(k)
    <2>1. CASE k # l
      BY <1>5, <2>1 DEF Resolve, TypeOK, TaskStep
    <2>2. CASE k = l
      <3>1. /\ task[k].phase = "again" /\ UNCHANGED <<conn, revocations, access>>
            /\ task'[k] = [task[k] EXCEPT !.phase = "authorizing",
                             !.mark = revocations[SlotOf[task[k].topic]],
                             !.attempts = @ + 1]
        BY <1>5, <2>2 DEF Resolve, TypeOK
      <3>2. task[k] \in BusyTask
        BY <1>0, <3>1
      <3>3. /\ task'[k].phase = "authorizing" /\ task'[k].conn = task[k].conn
            /\ task'[k].topic = task[k].topic
            /\ task'[k].mark = revocations[SlotOf[task[k].topic]]
        BY <3>1, <3>2 DEF BusyTask
      <3> QED
        BY <3>1, <3>3 DEF TaskStep
    <2> QED
      BY <2>1, <2>2
  <1>6. ASSUME \/ ConnNext \/ SectionNext
        PROVE  UNCHANGED task
    BY <1>6 DEF ConnNext, SectionNext, Register, Close, CloseStale, Leave, Detach,
       Authenticate, Refuse, CloseUser, CloseTopic, Bind, Join, Drop, Tell, ResetTopic
  <1>7. ASSUME RevokeNext \/ \E t \in Topic : \E full \in SUBSET subs[t] : FanOut(t, full)
        PROVE  UNCHANGED task
    BY <1>7 DEF RevokeNext, KickUser, KickDelivered, KickLocal, ResetMarks,
       Reset, Withdraw, Readmit, DeliverKick, LoseKick, FanOut
  <1>8. ASSUME \/ \E c \in Conn, t \in Room : SubscribeSession(c, t)
               \/ \E c \in Conn, t \in Topic : Unsubscribe(c, t)
        PROVE  UNCHANGED task
    BY <1>8 DEF SubscribeSession, Unsubscribe
  <1>9. ASSUME UNCHANGED vars PROVE UNCHANGED task
    BY <1>9 DEF vars
  <1> QED
    BY <1>q, <1>1, <1>2, <1>3, <1>4, <1>5, <1>6, <1>7, <1>8, <1>9
    DEF Next, SubscribeNext

\* What a step can do to a user's access to a room, and to the marks.
AccessStep(u, t) ==
  \/ access'[<<u, t>>] = access[<<u, t>>]
  \/ access'[<<u, t>>] \in {"member", "leaving", "lost", "kickedRemotely"}
  \/ access'[<<u, t>>] = "kicked" /\ KickUser(u, t)
  \/ access'[<<u, t>>] = "healing" /\ ResetMarks
  \/ access'[<<u, t>>] = "healed" /\ access[<<u, t>>] = "healing" /\ Reset

LEMMA AccessesStep ==
  ASSUME TypeOK, [Next]_vars, NEW u \in User, NEW t \in Room
  PROVE  AccessStep(u, t)
  <1> USE DEF connVars, topicVars, appVars
  <1>0. access \in [User \X Room -> Access] /\ <<u, t>> \in User \X Room
    BY DEF TypeOK
  <1>q. ASSUME UNCHANGED access PROVE AccessStep(u, t)
    BY <1>q DEF AccessStep
  <1>k. ASSUME NEW v \in User, NEW s \in Room, NEW how, Kicked(v, s, how)
        PROVE  \/ access'[<<u, t>>] = access[<<u, t>>]
               \/ v = u /\ s = t /\ access'[<<u, t>>] = how
    <2>1. CASE <<v, s>> = <<u, t>>
      BY <1>0, <1>k, <2>1 DEF Kicked
    <2>2. CASE <<v, s>> # <<u, t>>
      BY <1>0, <1>k, <2>2 DEF Kicked
    <2> QED
      BY <2>1, <2>2
  <1>1. ASSUME NEW v \in User, NEW s \in Room, KickUser(v, s) PROVE AccessStep(u, t)
    <2>1. Kicked(v, s, "kicked")
      BY <1>1 DEF KickUser
    <2> QED
      BY <1>1, <1>k, <2>1 DEF AccessStep
  <1>2. ASSUME NEW v \in User, NEW s \in Room, KickDelivered(v, s)
        PROVE  AccessStep(u, t)
    <2>1. Kicked(v, s, "kickedRemotely")
      BY <1>2 DEF KickDelivered
    <2> QED
      BY <1>k, <2>1 DEF AccessStep
  <1>3. ASSUME NEW v \in User, NEW s \in Room, DeliverKick(v, s)
        PROVE  AccessStep(u, t)
    <2>1. UNCHANGED access \/ Kicked(v, s, "kickedRemotely")
      BY <1>3 DEF DeliverKick
    <2> QED
      BY <1>q, <1>k, <2>1 DEF AccessStep
  <1>4. ASSUME NEW v \in User, NEW s \in Room,
               Withdraw(v, s) \/ Readmit(v, s) \/ LoseKick(v, s)
        PROVE  AccessStep(u, t)
    <2>1. PICK how \in {"member", "leaving", "lost"} :
             access' = [access EXCEPT ![<<v, s>>] = how]
      BY <1>4 DEF Withdraw, Readmit, LoseKick
    <2>2. access'[<<u, t>>] = access[<<u, t>>] \/ access'[<<u, t>>] = how
      BY <1>0, <2>1
    <2> QED
      BY <2>2 DEF AccessStep
  <1>5. ASSUME ResetMarks PROVE AccessStep(u, t)
    <2>1. Heal("lost", "healing")
      BY <1>5 DEF ResetMarks
    <2>2. access'[<<u, t>>] = IF access[<<u, t>>] = "lost" THEN "healing"
                              ELSE access[<<u, t>>]
      BY <1>0, <2>1 DEF Heal
    <2> QED
      BY <1>5, <2>2 DEF AccessStep
  <1>6. ASSUME Reset PROVE AccessStep(u, t)
    <2>1. Heal("healing", "healed")
      BY <1>6 DEF Reset
    <2>2. access'[<<u, t>>] = IF access[<<u, t>>] = "healing" THEN "healed"
                              ELSE access[<<u, t>>]
      BY <1>0, <2>1 DEF Heal
    <2> QED
      BY <1>6, <2>2 DEF AccessStep
  <1>7. ASSUME ConnNext \/ SectionNext PROVE UNCHANGED access
    BY <1>7 DEF ConnNext, SectionNext, Register, Close, CloseStale, Leave, Detach,
       Authenticate, Refuse, CloseUser, CloseTopic, Bind, Join, Drop, Tell, ResetTopic
  <1>8. ASSUME SubscribeNext PROVE UNCHANGED access
    BY <1>8 DEF SubscribeNext, StartSubscribe, Grant, Deny, SubscribeRefused,
       Resolve, Subscribe, SubscribeSession, Unsubscribe
  <1>9. ASSUME \/ UNCHANGED vars
               \/ \E s \in Topic : \E full \in SUBSET subs[s] : FanOut(s, full)
        PROVE  UNCHANGED access
    BY <1>9 DEF vars, FanOut
  <1> QED
    BY <1>q, <1>1, <1>2, <1>3, <1>4, <1>5, <1>6, <1>7, <1>8, <1>9 DEF Next, RevokeNext

\* Marks only go up; a kick and a reset move the marks they stand for.
LEMMA MarksStep ==
  ASSUME TypeOK, [Next]_vars
  PROVE  /\ \A s \in Slot : revocations[s] \in Nat /\ revocations'[s] >= revocations[s]
         /\ \A u \in User, t \in Room : KickUser(u, t) =>
               revocations'[SlotOf[t]] > revocations[SlotOf[t]]
         /\ ResetMarks => \A s \in Slot : revocations'[s] > revocations[s]
  <1> USE DEF connVars, topicVars, appVars
  <1>0. revocations \in [Slot -> Nat] /\ \A s \in Slot : revocations[s] \in Nat
    BY DEF TypeOK
  <1>1. ASSUME NEW u \in User, NEW t \in Room, KickLocal(u, t)
        PROVE  /\ \A s \in Slot : revocations'[s] >= revocations[s]
               /\ revocations'[SlotOf[t]] > revocations[SlotOf[t]]
    <2>1. SlotOf[t] \in Slot
      BY BoundTypes
    <2>2. revocations' = [revocations EXCEPT ![SlotOf[t]] = @ + 1]
      BY <1>1 DEF KickLocal
    <2> QED
      BY <1>0, <2>1, <2>2
  <1>2. ASSUME ResetMarks PROVE \A s \in Slot : revocations'[s] > revocations[s]
    <2>1. revocations' = [s \in Slot |-> revocations[s] + 1]
      BY <1>2 DEF ResetMarks
    <2> QED
      BY <1>0, <2>1
  <1>3. ASSUME UNCHANGED revocations
        PROVE  \A s \in Slot : revocations'[s] >= revocations[s]
    BY <1>0, <1>3
  <1>4. ASSUME ConnNext \/ SectionNext PROVE UNCHANGED revocations
    BY <1>4 DEF ConnNext, SectionNext, Register, Close, CloseStale, Leave, Detach,
       Authenticate, Refuse, CloseUser, CloseTopic, Bind, Join, Drop, Tell, ResetTopic
  <1>5. ASSUME SubscribeNext PROVE UNCHANGED revocations
    BY <1>5 DEF SubscribeNext, StartSubscribe, Grant, Deny, SubscribeRefused,
       Resolve, Subscribe, SubscribeSession, Unsubscribe
  <1>6. ASSUME \/ Reset \/ UNCHANGED vars
               \/ \E s \in Topic : \E full \in SUBSET subs[s] : FanOut(s, full)
               \/ \E u \in User, t \in Room :
                     Withdraw(u, t) \/ Readmit(u, t) \/ DeliverKick(u, t) \/ LoseKick(u, t)
        PROVE  UNCHANGED revocations
    BY <1>6 DEF vars, FanOut, Reset, Withdraw, Readmit, DeliverKick, LoseKick
  <1>7. \A s \in Slot : revocations'[s] >= revocations[s]
    <2>1. ASSUME ResetMarks PROVE \A s \in Slot : revocations'[s] >= revocations[s]
      <3>1. revocations' = [s \in Slot |-> revocations[s] + 1]
        BY <2>1 DEF ResetMarks
      <3> QED
        BY <1>0, <3>1
    <2> QED
      BY <1>1, <2>1, <1>3, <1>4, <1>5, <1>6
      DEF Next, RevokeNext, KickUser, KickDelivered
  <1> QED
    BY <1>0, <1>1, <1>2, <1>7 DEF KickUser

\* What a step can do to the kicks and the resets still to be done.
WorkStep ==
  \/ Idle
  \/ /\ work'.tell = work.tell \/ \E full \in BOOLEAN : Tell(full)
     /\ work'.reset = work.reset \/ \E full \in SUBSET Conn : ResetTopic(full)

LEMMA WorksStep == TypeOK /\ [Next]_vars => WorkStep
  <1> SUFFICES ASSUME TypeOK, [Next]_vars PROVE WorkStep
    OBVIOUS
  <1> USE DEF connVars, topicVars, appVars
  <1>q. ASSUME UNCHANGED work PROVE WorkStep
    BY <1>q DEF WorkStep
  <1>0. work \in WorkRecord
    BY DEF TypeOK
  <1>1. ASSUME Bind \/ Join \/ Drop PROVE WorkStep
    <2>1. work'.tell = work.tell /\ work'.reset = work.reset
      BY <1>0, <1>1 DEF Bind, Join, Drop, WorkRecord
    <2> QED
      BY <2>1 DEF WorkStep
  <1>2. ASSUME NEW full \in BOOLEAN, Tell(full) PROVE WorkStep
    <2>1. work'.reset = work.reset
      BY <1>0, <1>2 DEF Tell, WorkRecord
    <2> QED
      BY <1>2, <2>1 DEF WorkStep
  <1>3. ASSUME NEW full \in SUBSET Conn, ResetTopic(full) PROVE WorkStep
    <2>1. work'.tell = work.tell
      BY <1>0, <1>3 DEF ResetTopic, WorkRecord
    <2> QED
      BY <1>3, <2>1 DEF WorkStep
  <1>4. ASSUME ConnNext PROVE Idle \/ UNCHANGED work
    BY <1>4 DEF ConnNext, Register, Close, CloseStale, Leave, Detach,
       Authenticate, Refuse, CloseUser, CloseTopic
  <1>5. ASSUME SubscribeNext PROVE UNCHANGED work
    BY <1>5 DEF SubscribeNext, StartSubscribe, Grant, Deny, SubscribeRefused,
       Resolve, Subscribe, SubscribeSession, Unsubscribe
  <1>6. ASSUME RevokeNext PROVE Idle \/ UNCHANGED work
    BY <1>6 DEF RevokeNext, KickUser, KickDelivered, KickLocal, ResetMarks,
       Reset, Withdraw, Readmit, DeliverKick, LoseKick
  <1>7. ASSUME \/ UNCHANGED vars
               \/ \E s \in Topic : \E full \in SUBSET subs[s] : FanOut(s, full)
        PROVE  UNCHANGED work
    BY <1>7 DEF vars, FanOut
  <1> QED
    BY <1>q, <1>1, <1>2, <1>3, <1>4, <1>5, <1>6, <1>7 DEF Next, SectionNext, WorkStep

\* A subscription of the client's own is an old one, or was just made by a task
\* of that connection that was granted and whose mark has not moved.
LEMMA ExplicitFrom ==
  ASSUME TypeOK, [Next]_vars, NEW x \in Conn, NEW t \in Topic,
         conn'[x].topics[t] = "explicit"
  PROVE  \/ conn[x].topics[t] = "explicit"
         \/ \E k \in Task : /\ OwnSubscribe(x, k) /\ task[k].topic = t
                            /\ task[k].phase = "granted" /\ task[k].conn = x
                            /\ x \in Open /\ ~ Moved(k)
  <1>0. conn[x] \in ConnRecord /\ conn[x].topics \in [Topic -> Membership]
    BY DEF TypeOK, ConnRecord
  <1>c. \A s \in Topic : Counts(x, s)
    BY ConnCounts
  <1>1. TopicsStep(x)
    BY MembershipStep
  <1>2. ASSUME conn'[x] = Registered \/ conn'[x] = Removed PROVE FALSE
    BY <1>2 DEF Registered, Removed, Unregistered
  <1>3. ASSUME NEW s \in Topic, conn'[x] = Without(conn[x], s)
        PROVE  conn[x].topics[t] = "explicit"
    <2>1. conn'[x].topics = [conn[x].topics EXCEPT ![s] = "no"]
      BY <1>3, <1>c DEF Counts
    <2> QED
      BY <1>0, <2>1
  <1>4. ASSUME NEW s \in Topic, conn'[x] = With(conn[x], s, "auto")
        PROVE  conn[x].topics[t] = "explicit"
    <2>1. conn'[x].topics = [conn[x].topics EXCEPT ![s] = "auto"]
      BY <1>4, <1>c DEF Counts
    <2> QED
      BY <1>0, <2>1
  <1>5. ASSUME NEW k \in Task, OwnSubscribe(x, k), conn[x].topics[t] # "explicit"
        PROVE  /\ task[k].topic = t /\ task[k].phase = "granted"
               /\ task[k].conn = x /\ x \in Open /\ ~ Moved(k)
    <2>1. /\ \E full \in BOOLEAN : Subscribe(k, full)
          /\ task[k].conn = x
          /\ conn'[x] = With(conn[x], task[k].topic, "explicit")
      BY <1>5 DEF OwnSubscribe
    <2>2. task[k].phase = "granted"
      BY <2>1 DEF Subscribe
    <2>3. ~ Refused(k)
      BY <2>1 DEF Subscribe
    <2>4. x \in Open /\ ~ Moved(k)
      BY <2>1, <2>3, Zenon DEF Refused
    <2>5. task[k].topic \in Topic
      BY <2>2, TaskTypes
    <2>6. conn'[x].topics = [conn[x].topics EXCEPT ![task[k].topic] = "explicit"]
      BY <1>c, <2>1, <2>5 DEF Counts
    <2>7. task[k].topic = t
      BY <1>0, <1>5, <2>6
    <2> QED
      BY <2>1, <2>2, <2>4, <2>7
  <1> QED
    BY <1>1, <1>2, <1>3, <1>4, <1>5 DEF TopicsStep

\* Whoever holds a subscription of its own as a user held it, or was granted it,
\* as that user before the step.
LEMMA UserFrom ==
  ASSUME TypeOK, TasksAuthenticated, [Next]_vars, NEW x \in Conn, NEW t \in Topic,
         NEW u \in User, conn'[x].user = u, conn'[x].topics[t] = "explicit"
  PROVE  conn[x].user = u
  <1>1. IdentityAt(x)
    BY IdentityAtStep
  <1>2. ASSUME conn'[x] = Registered \/ conn'[x] = Removed PROVE FALSE
    BY <1>2 DEF Registered, Removed, Unregistered
  <1>3. ASSUME NEW b \in work.bind, b.conn = x, conn'[x].topics = conn[x].topics
        PROVE  FALSE
    <2>1. ~ conn[x].auth
      BY <1>3 DEF TasksAuthenticated
    <2>2. conn[x].topics[t] # "explicit"
      BY <2>1 DEF TasksAuthenticated
    <2> QED
      BY <1>3, <2>2
  <1> QED
    BY <1>1, <1>2, <1>3 DEF IdentityAt, SameIdentity

LEMMA StepAuthenticated ==
  ASSUME TypeOK, TypeOK', TasksAuthenticated, [Next]_vars
  PROVE  TasksAuthenticated'
  <1> USE DEF connVars, topicVars, appVars
  <1>0. /\ \A x \in Conn : IdentityAt(x)
        /\ \A k \in Task : TaskStep(k)
    BY IdentityAtStep, TasksStep
  <1>e. /\ Registered.st = "open" /\ Registered.auth = FALSE
        /\ Registered.user = NoUser /\ Registered.topics = [t \in Topic |-> "no"]
        /\ Removed.st = "gone" /\ Removed.auth = FALSE
        /\ Removed.user = NoUser /\ Removed.topics = [t \in Topic |-> "no"]
    BY DEF Registered, Removed, Unregistered
  <1>b. \A b \in work.bind : b.conn \in Conn /\ conn[b.conn].st = "open"
                             /\ ~ conn[b.conn].auth
    BY DEF TypeOK, WorkRecord, Binding, TasksAuthenticated
  <1>1. ASSUME NEW x \in Conn PROVE conn'[x].auth => conn'[x].st = "open"
    <2>1. conn[x].auth => conn[x].st = "open"
      BY DEF TasksAuthenticated
    <2>2. CASE SameIdentity(x)
      BY <2>1, <2>2, Zenon DEF SameIdentity
    <2>3. CASE ~ SameIdentity(x)
      BY <1>0, <1>b, <1>e, <2>3 DEF IdentityAt
    <2> QED
      BY <2>2, <2>3
  <1>2. ASSUME NEW x \in Conn, ~ conn'[x].auth
        PROVE  /\ conn'[x].user = NoUser
               /\ \A t \in Topic : conn'[x].topics[t] # "explicit"
    <2>1. CASE conn'[x] = Registered \/ conn'[x] = Removed
      BY <1>e, <2>1
    <2>2. CASE SameIdentity(x)
      <3>1. ~ conn[x].auth /\ conn'[x].user = conn[x].user
        BY <1>2, <2>2 DEF SameIdentity
      <3>2. conn[x].user = NoUser /\ \A t \in Topic : conn[x].topics[t] # "explicit"
        BY <3>1 DEF TasksAuthenticated
      <3>3. ASSUME NEW t \in Topic, conn'[x].topics[t] = "explicit" PROVE FALSE
        <4>1. PICK k \in Task : /\ task[k].phase = "granted" /\ task[k].conn = x
                                /\ x \in Open
          BY <3>2, <3>3, ExplicitFrom
        <4>2. conn[x].auth \/ conn[x].st = "gone"
          BY <4>1 DEF TasksAuthenticated
        <4> QED
          BY <3>1, <4>1, <4>2 DEF Open
      <3> QED
        BY <3>1, <3>2, <3>3
    <2> QED
      BY <1>0, <1>2, <2>1, <2>2 DEF IdentityAt
  <1>3. ASSUME NEW b \in work'.bind
        PROVE  conn'[b.conn].st = "open" /\ ~ conn'[b.conn].auth
    <2>1. ASSUME \/ \E c \in Conn : Register(c) \/ Detach(c)
                 \/ Bind
          PROVE  work'.bind = {}
      <3>1. CASE \E c \in Conn : Register(c) \/ Detach(c)
        BY <3>1 DEF Register, Detach, Idle, NoWork
      <3>2. CASE Bind
        BY <3>2 DEF Bind, TypeOK, WorkRecord
      <3> QED
        BY <2>1, <3>1, <3>2
    <2>2. ASSUME NEW c \in Conn, NEW u \in User \cup {NoUser},
                 NEW d \in Device \cup {NoDevice}, Authenticate(c, u, d)
          PROVE  conn'[b.conn].st = "open" /\ ~ conn'[b.conn].auth
      <3> DEFINE holder == IF d \in Device THEN devices[d] ELSE NoConn
                 new == [conn |-> c, user |-> u, device |-> d]
      <3>1. c \in Open /\ ~ AuthRefused(c, u, d)
        BY <2>2 DEF Authenticate
      <3>2. ~ conn[c].auth
        BY <3>1, Zenon DEF AuthRefused
      <3>3. work'.bind = {new} /\ (UNCHANGED conn \/ (holder # c /\ DetachLocked(holder)))
        BY <2>2 DEF Authenticate, Idle, NoWork
      <3>4. b.conn = c
        BY <3>3
      <3> HIDE DEF holder, new
      <3>5. conn'[c] = conn[c]
        BY <3>3 DEF DetachLocked, TypeOK
      <3> QED
        BY <3>1, <3>2, <3>4, <3>5 DEF Open
    <2>3. ASSUME IdentitiesKept
          PROVE  conn'[b.conn].st = "open" /\ ~ conn'[b.conn].auth
      BY <1>b, <2>3, Zenon DEF IdentitiesKept, SameIdentity
    <2> QED
      BY <2>1, <2>2, <2>3, IdentityStep
  <1>4. ASSUME NEW k \in Task, task'[k].phase # "idle"
        PROVE  conn'[task'[k].conn].auth \/ conn'[task'[k].conn].st = "gone"
    <2>1. ASSUME task[k].phase # "idle", task'[k].conn = task[k].conn
          PROVE  conn'[task'[k].conn].auth \/ conn'[task'[k].conn].st = "gone"
      <3> DEFINE x == task[k].conn
      <3>1. x \in Conn
        BY <2>1, TaskTypes
      <3>2. conn[x].auth \/ conn[x].st = "gone"
        BY <2>1 DEF TasksAuthenticated
      <3>3. conn[x].auth => conn[x].st = "open"
        BY <3>1 DEF TasksAuthenticated
      <3> HIDE DEF x
      <3>4. IdentityAt(x)
        BY <1>0, <3>1
      <3>5. conn'[x].auth \/ conn'[x].st = "gone"
        <4>1. CASE SameIdentity(x)
          BY <3>2, <4>1, Zenon DEF SameIdentity
        <4>2. CASE ~ SameIdentity(x)
          BY <1>e, <3>2, <3>3, <3>4, <4>2 DEF IdentityAt
        <4> QED
          BY <4>1, <4>2
      <3> QED
        BY <2>1, <3>5 DEF x
    <2>2. ASSUME task'[k].conn \in Open, conn[task'[k].conn].auth, UNCHANGED conn
          PROVE  conn'[task'[k].conn].auth
      BY <2>2
    <2> QED
      BY <1>0, <1>4, <2>1, <2>2 DEF TaskStep
  <1> QED
    BY <1>1, <1>2, <1>3, <1>4 DEF TasksAuthenticated

LEMMA StepGrants ==
  ASSUME TypeOK, TypeOK', TasksAuthenticated, StaleGrants, [Next]_vars
  PROVE  StaleGrants'
  <1> SUFFICES ASSUME NEW k \in Task
      PROVE /\ task'[k].phase # "idle" =>
                 task'[k].mark <= revocations'[SlotOf[task'[k].topic]]
            /\ \A u \in User :
                 /\ task'[k].phase = "granted" /\ conn'[task'[k].conn].user = u
                 /\ access'[<<u, task'[k].topic>>] \in {"kicked", "healing", "healed"}
                 => task'[k].mark # revocations'[SlotOf[task'[k].topic]]
    BY Zenon DEF StaleGrants, Moved
  <1>0. /\ \A s \in Slot : /\ revocations[s] \in Nat /\ revocations'[s] \in Nat
                           /\ revocations'[s] >= revocations[s]
        /\ TaskStep(k)
    BY MarksStep, TasksStep DEF TypeOK
  <1>1. task[k].phase # "idle" =>
           /\ task[k].conn \in Conn /\ task[k].topic \in Room
           /\ task[k].mark \in Nat /\ SlotOf[task[k].topic] \in Slot
           /\ task[k].mark <= revocations[SlotOf[task[k].topic]]
    BY TaskTypes DEF StaleGrants
  <1>2. task'[k].phase # "idle" =>
           /\ task'[k].conn \in Conn /\ task'[k].topic \in Room
           /\ task'[k].mark \in Nat /\ SlotOf[task'[k].topic] \in Slot
    <2>1. task'[k] = IdleTask \/ task'[k] \in BusyTask
      BY DEF TypeOK
    <2>2. task'[k].phase # "idle" => task'[k] \in BusyTask
      BY <2>1 DEF IdleTask
    <2> QED
      BY <2>2, BoundTypes DEF BusyTask
  <1>3. ASSUME task'[k].phase # "idle"
        PROVE  task'[k].mark <= revocations'[SlotOf[task'[k].topic]]
    BY <1>0, <1>1, <1>2, <1>3 DEF TaskStep
  <1>4. ASSUME NEW u \in User, task'[k].phase = "granted",
               conn'[task'[k].conn].user = u,
               access'[<<u, task'[k].topic>>] \in {"kicked", "healing", "healed"}
        PROVE  task'[k].mark # revocations'[SlotOf[task'[k].topic]]
    <2>1. CASE task'[k] # task[k]
      <3>1. /\ task'[k].conn = task[k].conn /\ task'[k].topic = task[k].topic
            /\ MayJoin(conn[task[k].conn].user, task[k].topic)
            /\ UNCHANGED <<conn, access>>
        BY <1>0, <1>4, <2>1 DEF TaskStep
      <3>2. access[<<u, task[k].topic>>] = "member"
        BY <1>4, <3>1 DEF MayJoin
      <3> QED
        BY <1>4, <3>1, <3>2
    <2>2. CASE task'[k] = task[k]
      <3> DEFINE x == task[k].conn
                 t == task[k].topic
                 s == SlotOf[t]
      <3>1. /\ task[k].phase = "granted" /\ conn'[x].user = u
            /\ access'[<<u, t>>] \in {"kicked", "healing", "healed"}
        BY <1>4, <2>2
      <3>2. /\ x \in Conn /\ t \in Room /\ s \in Slot
            /\ task[k].mark \in Nat /\ task[k].mark <= revocations[s]
        BY <1>1, <3>1
      <3>3. conn[x].auth \/ conn[x].st = "gone"
        BY <3>1 DEF TasksAuthenticated
      <3>4. access[<<u, t>>] \in {"kicked", "healing", "healed"}
            /\ conn[x].user = u => Moved(k)
        BY <3>1 DEF StaleGrants
      <3>m. Moved(k) <=> task[k].mark # revocations[s]
        BY DEF Moved
      <3> HIDE DEF x, t, s
      <3>5. conn[x].user = u
        <4>1. IdentityAt(x)
          BY <3>2, IdentityAtStep
        <4>2. ASSUME conn'[x] = Registered \/ conn'[x] = Removed PROVE FALSE
          BY <3>1, <4>2, BoundTypes DEF Registered, Removed, Unregistered
        <4>3. ASSUME NEW b \in work.bind, b.conn = x PROVE FALSE
          BY <3>3, <4>3 DEF TasksAuthenticated
        <4> QED
          BY <3>1, <4>1, <4>2, <4>3 DEF IdentityAt, SameIdentity
      <3>6. AccessStep(u, t)
        BY <3>2, AccessesStep
      <3>7. CASE access[<<u, t>>] \in {"kicked", "healing", "healed"}
        <4>1. task[k].mark # revocations[s]
          BY <3>4, <3>5, <3>7, <3>m
        <4>2. task[k].mark # revocations'[s]
          BY <1>0, <3>2, <4>1
        <4> QED
          BY <2>2, <4>2 DEF s, t
      <3>8. CASE access[<<u, t>>] \notin {"kicked", "healing", "healed"}
        <4>1. KickUser(u, t) \/ ResetMarks
          BY <3>1, <3>6, <3>8 DEF AccessStep
        <4>2. revocations'[s] > revocations[s]
          BY <3>2, <4>1, MarksStep DEF s
        <4>3. task[k].mark # revocations'[s]
          BY <1>0, <3>2, <4>2
        <4> QED
          BY <2>2, <4>3 DEF s, t
      <3> QED
        BY <3>7, <3>8
    <2> QED
      BY <2>1, <2>2
  <1> QED
    BY <1>3, <1>4

\* In a state where nothing is left to do, nobody who was kicked or healed away
\* has a subscription of its own; and a task granted before cannot make one.
LEMMA RevokedBefore ==
  ASSUME AccessInv, [Next]_vars, NEW x \in Conn, NEW u \in User, NEW t \in Room,
         access[<<u, t>>] \in {"kicked", "healed"},
         conn'[x].user = u, conn'[x].topics[t] = "explicit"
  PROVE  /\ conn[x].topics[t] = "explicit" /\ conn[x].user = u
         /\ access[<<u, t>>] = "kicked" => <<x, t>> \in work.tell
         /\ access[<<u, t>>] = "healed" => t \in work.reset
         /\ ~ Idle
  <1>0. TypeOK /\ TasksAuthenticated /\ StaleGrants /\ KickSticks /\ ResetHeals
        /\ t \in Topic
    BY BoundTypes DEF AccessInv, IndexInv, RevocationsStick
  <1>1. conn[x].user = u
    BY <1>0, UserFrom
  <1>2. conn[x].topics[t] = "explicit"
    <2>1. ASSUME NEW k \in Task, task[k].topic = t, task[k].phase = "granted",
                 task[k].conn = x, ~ Moved(k)
          PROVE  FALSE
      BY <1>0, <1>1, <2>1 DEF StaleGrants
    <2> QED
      BY <1>0, <2>1, ExplicitFrom
  <1>3. /\ access[<<u, t>>] = "kicked" => <<x, t>> \in work.tell
        /\ access[<<u, t>>] = "healed" => t \in work.reset
    BY <1>0, <1>1, <1>2 DEF KickSticks, ResetHeals
  <1>4. ~ Idle
    BY <1>3 DEF Idle, NoWork
  <1> QED
    BY <1>1, <1>2, <1>3, <1>4

\* A connection with a subscription of its own is open, and is a subscriber of
\* a live topic.
LEMMA ExplicitIndexed ==
  ASSUME IndexInv, NEW x \in Conn, NEW t \in Topic, conn[x].topics[t] = "explicit"
  PROVE  x \in Open /\ x \in subs[t] /\ t \in live
  <1>1. x \in Open
    BY DEF IndexInv, SectionShape, Open, TypeOK, ConnRecord
  <1>2. x \in subs[t]
    BY DEF IndexInv, IndexesAgree
  <1> QED
    BY <1>1, <1>2 DEF IndexInv, InterestExact

LEMMA StepKicks ==
  ASSUME AccessInv, [Next]_vars
  PROVE  KickSticks'
  <1> SUFFICES ASSUME NEW x \in Conn, NEW u \in User, NEW t \in Room,
                      access'[<<u, t>>] = "kicked", conn'[x].user = u,
                      conn'[x].topics[t] = "explicit"
               PROVE  <<x, t>> \in work'.tell
    BY DEF KickSticks
  <1>0. TypeOK /\ TasksAuthenticated /\ IndexInv /\ t \in Topic /\ work \in WorkRecord
    BY BoundTypes DEF AccessInv, IndexInv, TypeOK
  <1>1. CASE access[<<u, t>>] = "kicked"
    <2>1. <<x, t>> \in work.tell /\ ~ Idle
      BY <1>1, RevokedBefore
    <2>2. WorkStep
      BY <1>0, WorksStep
    <2>3. CASE work'.tell = work.tell
      BY <2>1, <2>3
    <2>4. ASSUME NEW full \in BOOLEAN, Tell(full) PROVE <<x, t>> \in work'.tell
      <3>1. PICK p \in work.tell : Tell(full)!(p)
        BY <2>4 DEF Tell
      <3>2. work'.tell = work.tell \ {p}
        BY <1>0, <3>1 DEF WorkRecord
      <3>3. ASSUME p = <<x, t>> PROVE FALSE
        <4>1. conn'[x] = Without(conn[x], t)
          BY <1>0, <3>1, <3>3 DEF TypeOK
        <4>2. conn'[x].topics = [conn[x].topics EXCEPT ![t] = "no"]
          <5>1. Counts(x, t)
            BY <1>0, ConnCounts
          <5> QED
            BY <4>1, <5>1 DEF Counts
        <4>3. conn[x].topics \in [Topic -> Membership]
          BY <1>0 DEF TypeOK, ConnRecord
        <4> QED
          BY <1>0, <4>2, <4>3
      <3> QED
        BY <2>1, <3>2, <3>3
    <2> QED
      BY <2>1, <2>2, <2>3, <2>4 DEF WorkStep
  <1>2. CASE access[<<u, t>>] # "kicked"
    <2>1. KickUser(u, t)
      BY <1>0, <1>2, AccessesStep DEF AccessStep
    <2>2. KickLocal(u, t) /\ UNCHANGED conn
      BY <2>1 DEF KickUser, KickLocal, connVars
    <2>3. x \in Open /\ x \in subs[t]
      BY <1>0, <2>2, ExplicitIndexed
    <2>4. work'.tell = {<<c, t>> : c \in {y \in subs[t] \cap Open : conn[y].user = u}}
      BY <1>0, <2>2 DEF KickLocal, WorkRecord
    <2> QED
      BY <2>2, <2>3, <2>4
  <1> QED
    BY <1>1, <1>2

LEMMA StepHeals ==
  ASSUME AccessInv, [Next]_vars
  PROVE  ResetHeals'
  <1> SUFFICES ASSUME NEW x \in Conn, NEW u \in User, NEW t \in Room,
                      access'[<<u, t>>] = "healed", conn'[x].user = u,
                      conn'[x].topics[t] = "explicit"
               PROVE  t \in work'.reset
    BY DEF ResetHeals
  <1>0. TypeOK /\ TasksAuthenticated /\ IndexInv /\ t \in Topic /\ work \in WorkRecord
    BY BoundTypes DEF AccessInv, IndexInv, TypeOK
  <1>1. CASE access[<<u, t>>] = "healed"
    <2>1. t \in work.reset /\ ~ Idle /\ conn[x].topics[t] = "explicit"
      BY <1>1, RevokedBefore
    <2>2. WorkStep
      BY <1>0, WorksStep
    <2>3. CASE work'.reset = work.reset
      BY <2>1, <2>3
    <2>4. ASSUME NEW full \in SUBSET Conn, ResetTopic(full) PROVE t \in work'.reset
      <3>1. PICK s \in work.reset : ResetTopic(full)!(s)
        BY <2>4 DEF ResetTopic
      <3>2. work'.reset = work.reset \ {s}
        BY <1>0, <3>1 DEF WorkRecord
      <3>3. ASSUME s = t PROVE FALSE
        <4>1. x \in Open /\ x \in subs[t]
          BY <1>0, <2>1, ExplicitIndexed
        <4>2. conn'[x] = Without(conn[x], t)
          BY <2>1, <3>1, <3>3, <4>1
        <4>3. conn'[x].topics = [conn[x].topics EXCEPT ![t] = "no"]
          <5>1. Counts(x, t)
            BY <1>0, ConnCounts
          <5> QED
            BY <4>2, <5>1 DEF Counts
        <4>4. conn[x].topics \in [Topic -> Membership]
          BY <1>0 DEF TypeOK, ConnRecord
        <4> QED
          BY <1>0, <4>3, <4>4
      <3> QED
        BY <2>1, <3>2, <3>3
    <2> QED
      BY <2>1, <2>2, <2>3, <2>4 DEF WorkStep
  <1>2. CASE access[<<u, t>>] # "healed"
    <2>1. Reset
      BY <1>0, <1>2, AccessesStep DEF AccessStep
    <2>2. UNCHANGED conn
      BY <2>1 DEF Reset, connVars
    <2>3. t \in live
      BY <1>0, <2>2, ExplicitIndexed
    <2>4. work'.reset = live
      BY <1>0, <2>1 DEF Reset, WorkRecord
    <2> QED
      BY <2>3, <2>4
  <1> QED
    BY <1>1, <1>2

LEMMA InitAccess == Init => AccessInv
  <1> SUFFICES ASSUME Init PROVE AccessInv
    OBVIOUS
  <1>1. /\ \A c \in Conn : conn[c] = Unregistered
        /\ \A k \in Task : task[k] = IdleTask
        /\ \A p \in User \X Room : access[p] = "member"
        /\ work.bind = {}
    BY DEF Init, NoWork
  <1>2. /\ Unregistered.auth = FALSE /\ Unregistered.user = NoUser
        /\ Unregistered.topics = [t \in Topic |-> "no"] /\ IdleTask.phase = "idle"
    BY DEF Unregistered, IdleTask
  <1>3. TasksAuthenticated
    BY <1>1, <1>2 DEF TasksAuthenticated
  <1>4. StaleGrants
    BY <1>1, <1>2 DEF StaleGrants
  <1>5. RevocationsStick
    BY <1>1 DEF RevocationsStick, KickSticks, ResetHeals
  <1> QED
    BY <1>3, <1>4, <1>5, InitIndex DEF AccessInv

LEMMA StepAccess == AccessInv /\ [Next]_vars => AccessInv'
  <1> SUFFICES ASSUME AccessInv, [Next]_vars PROVE AccessInv'
    OBVIOUS
  <1>1. TypeOK /\ TasksAuthenticated /\ StaleGrants /\ IndexInv
    BY DEF AccessInv, IndexInv
  <1>2. IndexInv' /\ TypeOK'
    BY <1>1, StepIndex DEF IndexInv
  <1> QED
    BY <1>1, <1>2, StepAuthenticated, StepGrants, StepKicks, StepHeals
    DEF AccessInv, RevocationsStick

\* Access that was taken away stays away: after kick_user, and after the reset
\* that replaces a kick the broker lost, no subscription of the kicked user
\* stands on an authorization made before, however the subscribe tasks, the
\* kicks, the resets and the closing of connections interleave.
THEOREM RevocationsAlwaysStick == Spec => []RevocationsStick
  <1>1. AccessInv => RevocationsStick
    BY DEF AccessInv
  <1> QED
    BY <1>1, InitAccess, StepAccess, PTL DEF Spec
=============================================================================

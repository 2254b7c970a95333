--------------------------------- MODULE Hub ---------------------------------
(***************************************************************************)
(* One node's pub/sub hub: the connection table behind the `conns` mutex,  *)
(* the topic shards, the revocation marks, and the tasks that work on      *)
(* them (crates/router/src/pubsub/hub.rs and hub/state.rs, with the        *)
(* subscribe task of session/inbound.rs and pubsub/channel.rs).            *)
(*                                                                         *)
(* Atomicity.  Everything that changes a membership holds the `conns`      *)
(* mutex, but inside that section every topic is updated under its own     *)
(* shard lock, and a fan-out takes only the shard lock.  A section is      *)
(* therefore several steps: `work` is what the section in progress has     *)
(* still to do, another section starts only when `work` is empty (Idle),   *)
(* and a fan-out, a mark read or a close_topic may come in between.        *)
(*                                                                         *)
(* A connection's outgoing queue is not kept: `try_send` may fail whenever *)
(* the code calls it (the queue is full because the client is slow).  What *)
(* the queue says to the client about a topic is the history variable      *)
(* `told`: the cursor of the client's acknowledged subscription.           *)
(***************************************************************************)
EXTENDS Integers, FiniteSets

CONSTANTS
    Conn,              \* connection ids (`next_conn`: never reused)
    User, Device,      \* user and device ids
    NoUser, NoDevice,  \* `None` in Conn::user and Conn::device
    NoConn,            \* a device without a holder
    NoTopic,           \* the topic of an idle task
    Topic,             \* every topic string
    Room,              \* the topics of registered channels
    UserTopic,         \* UserChannel { id }.topic()
    DeviceTopic,       \* DeviceChannel { user, id }.topic()
    Slot, SlotOf,      \* revocation slots, and the hash of a topic
    Task,              \* subscribe tasks that may run at once
    MaxSubscriptions,  \* SessionConfig::max_subscriptions
    MaxConnections,    \* SessionConfig::max_connections_per_user
    Attempts,          \* SUBSCRIBE_ATTEMPTS
    MaxEpoch,          \* bound: operations start while fewer epochs are used
    MaxSeq,            \* bound: publishes per epoch
    MaxRevocations     \* bound: kicks and resets per revocation slot

ASSUME IdAssumption ==
    /\ NoUser \notin User /\ NoDevice \notin Device
    /\ NoConn \notin Conn /\ NoTopic \notin Topic

ASSUME TopicAssumption ==
    /\ Room \subseteq Topic
    /\ UserTopic \in [User -> Topic]
    /\ DeviceTopic \in [User \X Device -> Topic]
    /\ SlotOf \in [Topic -> Slot]

ASSUME BoundAssumption ==
    {MaxSubscriptions, MaxConnections, Attempts, MaxEpoch, MaxSeq,
     MaxRevocations} \subseteq Nat

VARIABLES
    conn,        \* Conns::by_id, and the ids not registered yet or removed
    perUser,     \* Conns::per_user
    devices,     \* Conns::devices
    live,        \* the keys of the topic shards
    subs,        \* Topic::subscribers
    cursor,      \* Topic::cursor
    interest,    \* topics the broker was told to subscribe to
    revocations, \* Inner::revocations
    nextEpoch,   \* Inner::next_epoch
    work,        \* the rest of the `conns` section in progress
    resetting,   \* a reset has moved the marks and waits for `conns`
    closing,     \* close_all's ids: decided, `conns` not locked yet
    inbound,     \* kicks of other nodes past deliver's has_topic check
    task,        \* the subscribe tasks
    access,      \* the application's membership data, as `authorize` reads it
    told         \* history: the cursor a client was last sent, per topic

vars == <<conn, perUser, devices, live, subs, cursor, interest, revocations,
          nextEpoch, work, resetting, closing, inbound, task, access, told>>

connVars  == <<conn, perUser, devices>>
topicVars == <<live, subs, cursor, interest, nextEpoch>>
appVars   == <<task, access, inbound, resetting>>

-----------------------------------------------------------------------------
(* State                                                                   *)

\* Epochs are counted from 1 here (the code adds a random base), so that the
\* zero cursor stands for "no topic" and "no acknowledged subscription".
Cursor == [epoch : Nat, seq : Nat]
NoCursor == [epoch |-> 0, seq |-> 0]

\* How a topic is in Conn::topics: absent, or present with its `explicit` flag.
Membership == {"no", "auto", "explicit"}

Unregistered == [st |-> "new", auth |-> FALSE, user |-> NoUser,
                 device |-> NoDevice, topics |-> [t \in Topic |-> "no"],
                 explicit |-> 0]
Registered == [Unregistered EXCEPT !.st = "open"]
Removed == [Unregistered EXCEPT !.st = "gone"]

ConnRecord == [st : {"new", "open", "gone"}, auth : BOOLEAN,
               user : User \cup {NoUser}, device : Device \cup {NoDevice},
               topics : [Topic -> Membership], explicit : Int]

Open == {c \in Conn : conn[c].st = "open"}

\* What a section may still have to do: members to kick, subscribers to drop,
\* a connection to bind to its identity, auto channels to join, topics to reset.
NoWork == [tell |-> {}, drop |-> {}, bind |-> {}, join |-> {}, reset |-> {}]
Idle == work = NoWork

Binding == [conn : Conn, user : User \cup {NoUser},
            device : Device \cup {NoDevice}]

WorkRecord == [tell : SUBSET (Conn \X Topic), drop : SUBSET (Conn \X Topic),
               bind : SUBSET Binding, join : SUBSET (Conn \X Topic),
               reset : SUBSET Topic]

\* A subscribe task is idle, is in `authorize` (mark read), was granted, or was
\* refused by a moved mark and goes round again.
IdleTask == [phase |-> "idle", conn |-> NoConn, topic |-> NoTopic,
             mark |-> 0, attempts |-> 0]
BusyTask == [phase : {"authorizing", "granted", "again"}, conn : Conn,
             topic : Room, mark : Nat, attempts : Nat]

\* The membership of a user in a room: a member; withdrawn with its kick still
\* to come; kicked on this node; kicked from another node; withdrawn with the
\* kick lost by the broker; a lost kick that a reset is making good; made good.
Access == {"member", "leaving", "kicked", "kickedRemotely", "lost", "healing",
           "healed"}

Init ==
    /\ conn = [c \in Conn |-> Unregistered]
    /\ perUser = [u \in User |-> 0]
    /\ devices = [d \in Device |-> NoConn]
    /\ live = {}
    /\ subs = [t \in Topic |-> {}]
    /\ cursor = [t \in Topic |-> NoCursor]
    /\ interest = {}
    /\ revocations = [s \in Slot |-> 0]
    /\ nextEpoch = 1
    /\ work = NoWork
    /\ resetting = FALSE
    /\ closing = {}
    /\ inbound = {}
    /\ task = [k \in Task |-> IdleTask]
    /\ access = [p \in User \X Room |-> "member"]
    /\ told = [c \in Conn |-> [t \in Topic |-> NoCursor]]

-----------------------------------------------------------------------------
(* Locked helpers of hub/state.rs                                          *)

\* The cursor a subscriber of `t` gets: the topic's, or a new topic's.
CursorOf(t) == IF t \in live THEN cursor[t]
               ELSE [epoch |-> nextEpoch, seq |-> 0]

\* What Conn::topics and Conn::explicit become when `t` enters them.
With(r, t, kind) ==
    [r EXCEPT !.topics = [@ EXCEPT ![t] = kind],
              !.explicit = IF kind = "explicit" THEN @ + 1 ELSE @]

\* subscribe_locked past its checks: create the topic if it is not there, enter
\* the connection in both indexes if it is not in them.
SubscribeLocked(c, t, kind) ==
    /\ live' = live \cup {t}
    /\ interest' = IF t \in live THEN interest ELSE interest \cup {t}
    /\ cursor' = [cursor EXCEPT ![t] = CursorOf(t)]
    /\ nextEpoch' = IF t \in live THEN nextEpoch ELSE nextEpoch + 1
    /\ IF conn[c].topics[t] # "no"
       THEN UNCHANGED <<conn, subs>>
       ELSE /\ subs' = [subs EXCEPT ![t] = @ \cup {c}]
            /\ conn' = [conn EXCEPT ![c] = With(conn[c], t, kind)]

\* Mutant: the topic goes, the broker's interest stays.
DropSubscriberKeepInterest(c, t) ==
    /\ subs' = [subs EXCEPT ![t] = @ \ {c}]
    /\ IF t \in live /\ subs[t] \ {c} = {}
       THEN /\ live' = live \ {t}
            /\ cursor' = [cursor EXCEPT ![t] = NoCursor]
       ELSE UNCHANGED <<live, cursor>>
    /\ UNCHANGED <<nextEpoch, interest>>

\* drop_subscriber: the last one out removes the topic and the interest.
DropSubscriber(c, t) ==
    /\ subs' = [subs EXCEPT ![t] = @ \ {c}]
    /\ IF t \in live /\ subs[t] \ {c} = {}
       THEN /\ live' = live \ {t}
            /\ interest' = interest \ {t}
            /\ cursor' = [cursor EXCEPT ![t] = NoCursor]
       ELSE UNCHANGED <<live, interest, cursor>>
    /\ UNCHANGED nextEpoch

\* What Conn::topics and Conn::explicit become when `t` leaves them.
Without(r, t) ==
    [r EXCEPT !.topics = [@ EXCEPT ![t] = "no"],
              !.explicit = IF r.topics[t] = "explicit" THEN @ - 1 ELSE @]

\* Conns::per_user when connection `c` is removed (saturating, zero = absent).
PerUserWithout(c) ==
    [u \in User |-> IF conn[c].user = u /\ perUser[u] > 0
                    THEN perUser[u] - 1 ELSE perUser[u]]

\* Conns::devices when `c` is removed: only the entry that still names it.
DevicesWithout(c) ==
    [d \in Device |-> IF conn[c].device = d /\ devices[d] = c
                      THEN NoConn ELSE devices[d]]

\* Mutant: only the client's own topics are dropped.
SubscriptionsExplicit(c) ==
    {<<c, t>> : t \in {x \in Topic : conn[c].topics[x] = "explicit"}}

\* The subscribers that detach_locked has to drop.
Subscriptions(c) == {<<c, t>> : t \in {x \in Topic : conn[c].topics[x] # "no"}}

\* detach_locked: out of the connection table at once, out of its topics one
\* shard lock at a time.  Its client calls fail with it (module ClientCalls).
DetachLocked(c) ==
    /\ conn' = [conn EXCEPT ![c] = Removed]
    /\ perUser' = PerUserWithout(c)
    /\ devices' = DevicesWithout(c)
    /\ told' = [told EXCEPT ![c] = [t \in Topic |-> NoCursor]]

-----------------------------------------------------------------------------
(* Connections                                                             *)

\* Hub::register
Register(c) ==
    /\ Idle
    /\ conn[c].st = "new"
    /\ conn' = [conn EXCEPT ![c] = Registered]
    /\ UNCHANGED <<perUser, devices, topicVars, revocations, work, closing,
                   appVars, told>>

\* Why Hub::authenticate refuses an identity.
AuthRefused(c, u, d) ==
    \/ u = NoUser /\ d # NoDevice
    \/ conn[c].auth
    \/ u \in User /\ perUser[u] >= MaxConnections
    \/ /\ d \in Device
       /\ devices[d] \notin {NoConn, c}
       /\ conn[devices[d]].user # u

\* spawn_auth on a refused identity: the session is closed.
Refuse(c, u, d) ==
    /\ Idle
    /\ c \in Open
    /\ ~ conn[c].auth
    /\ AuthRefused(c, u, d)
    /\ closing' = closing \cup {c}
    /\ UNCHANGED <<connVars, topicVars, revocations, work, appVars, told>>

\* Mutant: the older holder of the device stays.
AuthenticateBeside(c, u, d) ==
    /\ Idle
    /\ c \in Open
    /\ ~ AuthRefused(c, u, d)
    /\ nextEpoch < MaxEpoch
    /\ work' = [work EXCEPT !.bind =
                  {[conn |-> c, user |-> u, device |-> d]}]
    /\ UNCHANGED <<connVars, topicVars, revocations, closing, appVars, told>>

\* Hub::authenticate, the checks and the older holder of the device detached.
Authenticate(c, u, d) ==
    /\ Idle
    /\ c \in Open
    /\ ~ AuthRefused(c, u, d)
    /\ nextEpoch < MaxEpoch
    /\ LET holder == IF d \in Device THEN devices[d] ELSE NoConn
           bind == {[conn |-> c, user |-> u, device |-> d]}
       IN IF holder \in {NoConn, c}
          THEN /\ work' = [work EXCEPT !.bind = bind]
               /\ UNCHANGED <<connVars, told>>
          ELSE /\ DetachLocked(holder)
               /\ work' = [work EXCEPT !.bind = bind,
                                       !.drop = Subscriptions(holder)]
    /\ UNCHANGED <<topicVars, revocations, closing, appVars>>

\* Hub::authenticate, the identity bound; its auto channels are still to join.
Bind ==
    \E b \in work.bind :
      /\ work.drop = {}
      /\ perUser' = [u \in User |-> IF u = b.user THEN perUser[u] + 1
                                    ELSE perUser[u]]
      /\ devices' = [d \in Device |-> IF d = b.device THEN b.conn
                                      ELSE devices[d]]
      /\ conn' = [conn EXCEPT ![b.conn] =
                    [@ EXCEPT !.auth = TRUE, !.user = b.user,
                              !.device = b.device]]
      /\ work' = [work EXCEPT !.bind = {}, !.join =
                    {<<b.conn, UserTopic[u]>> : u \in User \cap {b.user}}
                    \cup {<<b.conn, DeviceTopic[p]>> :
                            p \in (User \cap {b.user}) \X
                                  (Device \cap {b.device})}]
      /\ UNCHANGED <<topicVars, revocations, closing, appVars, told>>

\* subscribe_locked for one auto channel of an identity.
Join ==
    \E p \in work.join :
      /\ SubscribeLocked(p[1], p[2], "auto")
      /\ work' = [work EXCEPT !.join = @ \ {p}]
      /\ UNCHANGED <<perUser, devices, revocations, closing, appVars, told>>

\* drop_subscriber inside detach_locked or kick_local.
Drop ==
    \E p \in work.drop :
      /\ DropSubscriber(p[1], p[2])
      /\ work' = [work EXCEPT !.drop = @ \ {p}]
      /\ UNCHANGED <<connVars, revocations, closing, appVars, told>>

\* Inner::detach by whoever decided to close the connection (close_all) or by
\* the session itself (Session::close, Drop): those come from outside.
Detach(c) ==
    /\ Idle
    /\ c \in Open
    /\ DetachLocked(c)
    /\ work' = [work EXCEPT !.drop = Subscriptions(c)]
    /\ closing' = closing \ {c}
    /\ UNCHANGED <<topicVars, revocations, appVars>>

\* Mutant: a close that finds the lock taken gives up.
CloseTry(c) ==
    /\ c \in closing
    /\ \/ Detach(c)
       \/ /\ ~ Idle
          /\ closing' = closing \ {c}
          /\ UNCHANGED <<connVars, topicVars, revocations, work, appVars, told>>

\* Inner::close for an id decided earlier.
Close(c) == c \in closing /\ Detach(c)

\* Inner::close when the connection was removed in the meantime.
CloseStale(c) ==
    /\ Idle
    /\ c \in closing \ Open
    /\ closing' = closing \ {c}
    /\ UNCHANGED <<connVars, topicVars, revocations, work, appVars, told>>

\* Hub::remove and Session::close: the session ends by itself.
Leave(c) == c \notin closing /\ Detach(c)

\* Hub::close_user: the ids under the lock, the closes after it.
CloseUser(u) ==
    /\ Idle
    /\ closing' = closing \cup {c \in Open : conn[c].user = u}
    /\ UNCHANGED <<connVars, topicVars, revocations, work, appVars, told>>

\* close_topic, for close_device or a close delivered from another node.  It
\* reads the shard only: a section may be in progress.
CloseTopic(t) ==
    /\ closing' = closing \cup subs[t]
    /\ UNCHANGED <<connVars, topicVars, revocations, work, appVars, told>>

-----------------------------------------------------------------------------
(* Publishing                                                              *)

\* Mutant: a full queue is skipped and its connection kept.
FanOutSkip(t, full) ==
    /\ t \in live
    /\ cursor[t].seq < MaxSeq
    /\ LET next == [cursor[t] EXCEPT !.seq = @ + 1]
       IN /\ cursor' = [cursor EXCEPT ![t] = next]
          /\ told' = [c \in Conn |->
                IF c \in subs[t] \ full /\ told[c][t] # NoCursor
                THEN [told[c] EXCEPT ![t] = next] ELSE told[c]]
    /\ UNCHANGED <<connVars, live, subs, interest, nextEpoch, revocations,
                   work, appVars, closing>>

\* fan_out for a local publish or one delivered from another node; the queues
\* of `full` are full.  A publish only moves on an acknowledged subscription.
FanOut(t, full) ==
    /\ t \in live
    /\ cursor[t].seq < MaxSeq
    /\ LET next == [cursor[t] EXCEPT !.seq = @ + 1]
       IN /\ cursor' = [cursor EXCEPT ![t] = next]
          /\ told' = [c \in Conn |->
                IF c \in subs[t] \ full /\ told[c][t] # NoCursor
                THEN [told[c] EXCEPT ![t] = next] ELSE told[c]]
    /\ closing' = closing \cup full
    /\ UNCHANGED <<connVars, live, subs, interest, nextEpoch, revocations,
                   work, appVars>>

-----------------------------------------------------------------------------
(* Subscribing                                                             *)

\* spawn_subscribe and the first half of Registered::resolve: the mark is read,
\* then `authorize` is awaited.  The session is authenticated (Session::handle
\* reads a flag that is set when Hub::authenticate has returned).
StartSubscribe(k, c, t) ==
    /\ task[k] = IdleTask
    /\ c \in Open
    /\ conn[c].auth
    /\ \A p \in work.join : p[1] # c
    /\ task' = [task EXCEPT ![k] =
          [phase |-> "authorizing", conn |-> c, topic |-> t,
           mark |-> revocations[SlotOf[t]], attempts |-> 1]]
    /\ UNCHANGED <<connVars, topicVars, revocations, work, closing, access,
                   inbound, resetting, told>>

\* `authorize` reads the application's data (a user without an id is let in or
\* not, as the application likes).
MayJoin(u, t) == u \in User => access[<<u, t>>] = "member"

\* `authorize` returns true.
Grant(k) ==
    /\ task[k].phase = "authorizing"
    /\ MayJoin(conn[task[k].conn].user, task[k].topic)
    /\ task' = [task EXCEPT ![k].phase = "granted"]
    /\ UNCHANGED <<connVars, topicVars, revocations, work, closing, access,
                   inbound, resetting, told>>

\* `authorize` returns false or an error: the reply is the end of it.
Deny(k) ==
    /\ task[k].phase = "authorizing"
    /\ task' = [task EXCEPT ![k] = IdleTask]
    /\ UNCHANGED <<connVars, topicVars, revocations, work, closing, access,
                   inbound, resetting, told>>

\* Hub::subscribe refuses: connection gone, mark moved, or too many.
Moved(k) == task[k].mark # revocations[SlotOf[task[k].topic]]
\* Mutant: one subscription too many.
OverLimitLate(k) ==
    LET r == conn[task[k].conn]
    IN r.topics[task[k].topic] = "no" /\ r.explicit > MaxSubscriptions
OverLimit(k) ==
    LET r == conn[task[k].conn]
    IN r.topics[task[k].topic] = "no" /\ r.explicit >= MaxSubscriptions

Refused(k) == task[k].conn \notin Open \/ Moved(k) \/ OverLimit(k)

\* Hub::subscribe for a granted task: subscribed, and the ack queued under the
\* lock with the topic's cursor unless the queue is full.
Subscribe(k, full) ==
    LET c == task[k].conn
        t == task[k].topic
    IN /\ Idle
       /\ task[k].phase = "granted"
       /\ ~ Refused(k)
       /\ t \notin live => nextEpoch < MaxEpoch
       /\ SubscribeLocked(c, t, "explicit")
       /\ IF full THEN closing' = closing \cup {c} /\ UNCHANGED told
          ELSE told' = [told EXCEPT ![c][t] = CursorOf(t)] /\ UNCHANGED closing
       /\ task' = [task EXCEPT ![k] = IdleTask]
       /\ UNCHANGED <<perUser, devices, revocations, work, access, inbound,
                      resetting>>

\* The error reply, or another round when a kick or a reset moved the mark.
SubscribeRefused(k) ==
    /\ Idle
    /\ task[k].phase = "granted"
    /\ Refused(k)
    /\ task' = [task EXCEPT ![k] =
          IF /\ task[k].conn \in Open
             /\ Moved(k)
             /\ task[k].attempts < Attempts
          THEN [task[k] EXCEPT !.phase = "again"] ELSE IdleTask]
    /\ UNCHANGED <<connVars, topicVars, revocations, work, closing, access,
                   inbound, resetting, told>>

\* Registered::resolve again: the mark is read anew.
Resolve(k) ==
    /\ task[k].phase = "again"
    /\ task' = [task EXCEPT ![k].phase = "authorizing",
                            ![k].mark = revocations[SlotOf[task[k].topic]],
                            ![k].attempts = @ + 1]
    /\ UNCHANGED <<connVars, topicVars, revocations, work, closing, access,
                   inbound, resetting, told>>

\* Session::subscribe: the server's own, unchecked and without an ack.
SubscribeSession(c, t) ==
    /\ Idle
    /\ c \in Open
    /\ t \notin live => nextEpoch < MaxEpoch
    /\ SubscribeLocked(c, t, "auto")
    /\ UNCHANGED <<perUser, devices, revocations, work, closing, appVars, told>>

\* Hub::unsubscribe: the client (of any topic) or the server asked for it.
Unsubscribe(c, t) ==
    /\ Idle
    /\ c \in Open
    /\ conn[c].topics[t] # "no"
    /\ conn' = [conn EXCEPT ![c] = Without(conn[c], t)]
    /\ DropSubscriber(c, t)
    /\ told' = [told EXCEPT ![c][t] = NoCursor]
    /\ UNCHANGED <<perUser, devices, revocations, work, closing, appVars>>

-----------------------------------------------------------------------------
(* Revocation                                                              *)

\* The application withdraws, or gives back, a membership.
Withdraw(u, t) ==
    /\ access[<<u, t>>] = "member"
    /\ access' = [access EXCEPT ![<<u, t>>] = "leaving"]
    /\ UNCHANGED <<connVars, topicVars, revocations, work, closing, task,
                   inbound, resetting, told>>

Readmit(u, t) ==
    /\ access[<<u, t>>] # "member"
    /\ access' = [access EXCEPT ![<<u, t>>] = "member"]
    /\ UNCHANGED <<connVars, topicVars, revocations, work, closing, task,
                   inbound, resetting, told>>

\* Mutant: the kick does not move the mark.
KickLocalUnmarked(u, t) ==
    /\ Idle
    /\ work' = [work EXCEPT !.tell =
          {<<c, t>> : c \in {x \in subs[t] \cap Open : conn[x].user = u}}]
    /\ UNCHANGED <<connVars, topicVars, closing, task, resetting, told,
                   revocations>>

\* kick_local up to its loop: the mark moves under the lock, then the user's
\* subscribers are known.
KickLocal(u, t) ==
    /\ Idle
    /\ revocations[SlotOf[t]] < MaxRevocations
    /\ revocations' = [revocations EXCEPT ![SlotOf[t]] = @ + 1]
    /\ work' = [work EXCEPT !.tell =
          {<<c, t>> : c \in {x \in subs[t] \cap Open : conn[x].user = u}}]
    /\ UNCHANGED <<connVars, topicVars, closing, task, resetting, told>>

\* What a kick makes of a membership that was withdrawn before it.
Kicked(u, t, how) ==
    access' = [access EXCEPT ![<<u, t>>] = IF @ = "member" THEN @ ELSE how]

\* Hub::kick_user on this node.
KickUser(u, t) ==
    /\ KickLocal(u, t)
    /\ Kicked(u, t, "kicked")
    /\ UNCHANGED inbound

\* deliver of another node's kick: looked up before anything else is done.
DeliverKick(u, t) ==
    /\ access[<<u, t>>] = "leaving"
    /\ IF t \in live
       THEN inbound' = inbound \cup {<<u, t>>} /\ UNCHANGED access
       ELSE UNCHANGED inbound /\ Kicked(u, t, "kickedRemotely")
    /\ UNCHANGED <<connVars, topicVars, revocations, work, closing, task,
                   resetting, told>>

\* deliver goes on to kick_local.
KickDelivered(u, t) ==
    /\ <<u, t>> \in inbound
    /\ KickLocal(u, t)
    /\ Kicked(u, t, "kickedRemotely")
    /\ inbound' = inbound \ {<<u, t>>}

\* One member of kick_local's loop: forgotten, told, then dropped (Drop).
Tell(full) ==
    \E p \in work.tell :
      LET c == p[1]
          t == p[2]
      IN /\ work.drop = {}
         /\ conn' = [conn EXCEPT ![c] = Without(conn[c], t)]
         /\ IF full THEN closing' = closing \cup {c} /\ UNCHANGED told
            ELSE /\ told' = [told EXCEPT ![c][t] = NoCursor]
                 /\ UNCHANGED closing
         /\ work' = [work EXCEPT !.tell = @ \ {p}, !.drop = {p}]
         /\ UNCHANGED <<perUser, devices, topicVars, revocations, appVars>>

-----------------------------------------------------------------------------
(* Broker loss                                                             *)

\* The broker loses a kick of another node.
LoseKick(u, t) ==
    /\ access[<<u, t>>] = "leaving"
    /\ access' = [access EXCEPT ![<<u, t>>] = "lost"]
    /\ UNCHANGED <<connVars, topicVars, revocations, work, closing, task,
                   inbound, resetting, told>>

\* What a reset does to the kicks lost before it, `from` one stage `to` the next.
Heal(from, to) ==
    access' = [p \in User \X Room |->
                 IF access[p] = from THEN to ELSE access[p]]

\* BrokerSink::reset, first part: every mark moves, without the lock.
ResetMarks ==
    /\ ~ resetting
    /\ \A s \in Slot : revocations[s] < MaxRevocations
    /\ revocations' = [s \in Slot |-> revocations[s] + 1]
    /\ resetting' = TRUE
    /\ Heal("lost", "healing")
    /\ UNCHANGED <<connVars, topicVars, work, closing, task, inbound, told>>

\* Inner::reset takes the lock and walks the shards.
Reset ==
    /\ Idle
    /\ resetting
    /\ nextEpoch < MaxEpoch
    /\ resetting' = FALSE
    /\ work' = [work EXCEPT !.reset = live]
    /\ Heal("healing", "healed")
    /\ UNCHANGED <<connVars, topicVars, revocations, closing, task, inbound,
                   told>>

\* Mutant: the seq restarts without a new epoch.
NextEpochKept(t) == [epoch |-> cursor[t].epoch, seq |-> 0]

\* The cursor a topic restarts from.
NextEpoch(t) == [epoch |-> nextEpoch, seq |-> 0]

\* One topic of Inner::reset, under its shard's lock: a new epoch; the client's
\* own subscriptions end, the others are told the epoch.
ResetTopic(full) ==
    \E t \in work.reset :
      LET dropped == {c \in subs[t] \cap Open : conn[c].topics[t] = "explicit"}
          kept == subs[t] \ dropped
          next == NextEpoch(t)
      IN /\ full \subseteq subs[t]
         /\ nextEpoch' = nextEpoch + 1
         /\ subs' = [subs EXCEPT ![t] = kept]
         /\ conn' = [c \in Conn |-> IF c \in dropped THEN Without(conn[c], t)
                                    ELSE conn[c]]
         /\ told' = [c \in Conn |->
               CASE c \in dropped \ full -> [told[c] EXCEPT ![t] = NoCursor]
                 [] c \in kept \ full /\ told[c][t] # NoCursor ->
                      [told[c] EXCEPT ![t] = next]
                 [] OTHER -> told[c]]
         /\ closing' = closing \cup full
         /\ IF kept = {}
            THEN /\ live' = live \ {t}
                 /\ interest' = interest \ {t}
                 /\ cursor' = [cursor EXCEPT ![t] = NoCursor]
            ELSE /\ cursor' = [cursor EXCEPT ![t] = next]
                 /\ UNCHANGED <<live, interest>>
         /\ work' = [work EXCEPT !.reset = @ \ {t}]
         /\ UNCHANGED <<perUser, devices, revocations, appVars>>

-----------------------------------------------------------------------------
IdentityTopic == {UserTopic[u] : u \in User}
                   \cup {DeviceTopic[p] : p \in User \X Device}

ConnNext ==
    \/ \E c \in Conn : Register(c) \/ Close(c) \/ CloseStale(c) \/ Leave(c)
    \/ \E c \in Conn, u \in User \cup {NoUser}, d \in Device \cup {NoDevice} :
          Authenticate(c, u, d) \/ Refuse(c, u, d)
    \/ \E u \in User : CloseUser(u)
    \/ \E t \in IdentityTopic : CloseTopic(t)

SectionNext ==
    \/ Bind \/ Join \/ Drop
    \/ \E full \in BOOLEAN : Tell(full)
    \/ \E full \in SUBSET Conn : ResetTopic(full)

SubscribeNext ==
    \/ \E k \in Task, c \in Conn, t \in Room : StartSubscribe(k, c, t)
    \/ \E k \in Task : Grant(k) \/ Deny(k) \/ SubscribeRefused(k) \/ Resolve(k)
    \/ \E k \in Task, full \in BOOLEAN : Subscribe(k, full)
    \/ \E c \in Conn, t \in Room : SubscribeSession(c, t)
    \/ \E c \in Conn, t \in Topic : Unsubscribe(c, t)

RevokeNext ==
    \/ \E u \in User, t \in Room :
          \/ Withdraw(u, t) \/ Readmit(u, t) \/ KickUser(u, t)
          \/ DeliverKick(u, t) \/ KickDelivered(u, t) \/ LoseKick(u, t)
    \/ ResetMarks \/ Reset

Next ==
    \/ ConnNext \/ SectionNext \/ SubscribeNext \/ RevokeNext
    \/ \E t \in Topic : \E full \in SUBSET subs[t] : FanOut(t, full)

Spec == Init /\ [][Next]_vars

\* A thread inside the section goes on, and a thread that waits to close a
\* connection gets the lock sooner or later.
Fairness ==
    /\ WF_vars(SectionNext)
    /\ \A c \in Conn : SF_vars(Close(c)) /\ WF_vars(CloseStale(c))

LiveSpec == Spec /\ Fairness

-----------------------------------------------------------------------------
(* Properties                                                              *)

\* Every variable has its type.
TypeOK ==
    /\ conn \in [Conn -> ConnRecord]
    /\ perUser \in [User -> Nat]
    /\ devices \in [Device -> Conn \cup {NoConn}]
    /\ live \in SUBSET Topic
    /\ subs \in [Topic -> SUBSET Conn]
    /\ cursor \in [Topic -> Cursor]
    /\ interest \in SUBSET Topic
    /\ revocations \in [Slot -> Nat]
    /\ nextEpoch \in Nat \ {0}
    /\ work \in WorkRecord
    /\ resetting \in BOOLEAN
    /\ closing \in SUBSET Conn
    /\ inbound \in SUBSET (User \X Room)
    /\ task \in [Task -> BusyTask \cup {IdleTask}]
    /\ access \in [User \X Room -> Access]
    /\ told \in [Conn -> [Topic -> Cursor]]

\* The two indexes agree: a connection is a subscriber of exactly the topics in
\* its own Conn::topics, but for the ones the section in progress still drops.
\* Every path that changes a membership (subscribe, unsubscribe, kick, reset,
\* detach, supersede) has to keep both sides in step across its shard locks.
IndexesAgree ==
    \A c \in Conn, t \in Topic :
        c \in subs[t] <=> conn[c].topics[t] # "no" \/ <<c, t>> \in work.drop

\* The broker is told to carry exactly the topics somebody here subscribes to:
\* no topic leaks after its last subscriber and none is dropped while in use
\* (Broker::subscribe and Broker::unsubscribe, "first local subscriber", "last
\* local subscriber left").
InterestExact ==
    /\ live = {t \in Topic : subs[t] # {}}
    /\ interest = live

\* A client that was acknowledged is either up to date with its topic (the
\* last cursor queued to it is the topic's own) or about to be closed as a slow
\* consumer.  So no publish, kick or reset is lost silently: the gap shows in
\* `seq` or the connection ends.
NoSilentGap ==
    \A c \in Conn, t \in Topic :
        told[c][t] # NoCursor =>
            c \in closing \/ (c \in subs[t] /\ told[c][t] = cursor[t])

\* Conn::explicit counts the client's own topics, so `-= 1` never underflows,
\* and no client holds more than max_subscriptions.
ExplicitExact ==
    \A c \in Conn :
        /\ conn[c].explicit =
             Cardinality({t \in Topic : conn[c].topics[t] = "explicit"})
        /\ conn[c].explicit <= MaxSubscriptions

\* Conns::per_user counts the open connections bound to a user, whatever order
\* they were bound, superseded and closed in, and respects the cap.
PerUserExact ==
    \A u \in User :
        /\ perUser[u] = Cardinality({c \in Open : conn[c].user = u})
        /\ perUser[u] <= MaxConnections

\* A device is held by one connection: the table names exactly the open
\* connection bound to the device, superseding included.
DeviceExclusive ==
    \A d \in Device, c \in Conn :
        devices[d] = c <=> c \in Open /\ conn[c].device = d

\* What the hub knows of users and devices is what its connections are bound
\* to: neither cap can be passed and no device is hidden or held twice.
IdentityExact == PerUserExact /\ DeviceExclusive

\* Once kick_user has run on this node, no connection of the kicked user is
\* subscribed through an authorization made before the user lost access: the
\* overlapping subscribe sees the moved mark.
KickSticks ==
    \A c \in Conn, u \in User, t \in Room :
        /\ access[<<u, t>>] = "kicked"
        /\ conn[c].user = u
        /\ conn[c].topics[t] = "explicit"
        => <<c, t>> \in work.tell

\* A kick the broker lost is made good by the reset that follows: none of the
\* client's own subscriptions survives it, and none that was being authorized
\* across it gets in.
ResetHeals ==
    \A c \in Conn, u \in User, t \in Room :
        /\ access[<<u, t>>] = "healed"
        /\ conn[c].user = u
        /\ conn[c].topics[t] = "explicit"
        => t \in work.reset

\* Access that was taken away stays away: no subscription stands on an
\* authorization from before a kick or from before the reset that replaces one.
RevocationsStick == KickSticks /\ ResetHeals

\* What hub.rs says of kick_user on every node, and the code does not do (the
\* README tells how it fails; no run checks it): once another node's kick has
\* been delivered here, the kicked user's own subscription is gone.
RemoteKickSticks ==
    \A c \in Conn, u \in User, t \in Room :
        /\ access[<<u, t>>] = "kickedRemotely"
        /\ conn[c].user = u
        /\ conn[c].topics[t] = "explicit"
        => <<c, t>> \in work.tell

\* Cursor order: by epoch, then by seq.
Before(a, b) == a.epoch < b.epoch \/ (a.epoch = b.epoch /\ a.seq < b.seq)

\* What one connection is told of a topic only moves forward: no frame is
\* queued behind a newer one, and an ack is never behind a publish it overlaps.
ToldForward ==
    [][\A c \in Conn, t \in Topic :
          told[c][t] # NoCursor /\ told'[c][t] \notin {NoCursor, told[c][t]}
            => Before(told[c][t], told'[c][t])]_vars

\* "Slow consumers are closed, never waited on": whoever was found with a full
\* queue, or was superseded, revoked or refused, is out of the table in the end,
\* although other sections keep taking the lock in between.
DoomedAreClosed == \A c \in Conn : c \in closing ~> c \notin Open

-----------------------------------------------------------------------------
(* What the proofs add to make the properties inductive *)

\* A section does one kind of thing at a time, a subscriber that is still to be
\* dropped is out of its connection's own index, one still to be kicked is in
\* it, and only connections in the table have one.
SectionShape ==
    /\ work.tell # {} => work.bind = {} /\ work.join = {} /\ work.reset = {}
    /\ work.join # {} => work.drop = {} /\ work.bind = {} /\ work.reset = {}
    /\ work.reset # {} => work.drop = {} /\ work.bind = {}
    /\ \A c \in Conn, t \in Topic :
          /\ <<c, t>> \in work.drop => conn[c].topics[t] = "no"
          /\ <<c, t>> \in work.tell => conn[c].topics[t] # "no"
          /\ conn[c].st # "open" => conn[c].topics[t] = "no"
    /\ \A b \in work.bind : conn[b.conn].st = "open"
    /\ \A p \in work.join : conn[p[1]].st = "open"

\* Nothing is owed to a connection that is not in the table, or that is being
\* dropped from the topic, unless it is about to be closed.
Settled ==
    \A c \in Conn, t \in Topic :
        /\ conn[c].st # "open" => told[c][t] = NoCursor
        /\ <<c, t>> \in work.drop => told[c][t] = NoCursor \/ c \in closing

IndexInv == TypeOK /\ SectionShape /\ IndexesAgree /\ InterestExact
StreamInv == IndexInv /\ Settled /\ NoSilentGap

\* No cursor is from an epoch still to come, and no client is told a cursor its
\* topic has not reached.
ToldBehind ==
    /\ \A t \in Topic : cursor[t].epoch < nextEpoch
    /\ \A c \in Conn, t \in Topic :
          /\ told[c][t].epoch < nextEpoch
          /\ t \in live /\ told[c][t] # NoCursor =>
                told[c][t] = cursor[t] \/ Before(told[c][t], cursor[t])

ForwardInv == TypeOK /\ ToldBehind

\* A connection without an identity is counted under none, and one that is about
\* to be bound has a free place and a free device.
IdentityReady ==
    /\ IsFiniteSet(Open)
    /\ \A c \in Conn : ~ conn[c].auth =>
          conn[c].user = NoUser /\ conn[c].device = NoDevice
    /\ \A b \in work.bind :
          /\ b.conn \in Open /\ ~ conn[b.conn].auth
          /\ b.user \in User => perUser[b.user] < MaxConnections
          /\ b.device \in Device => devices[b.device] = NoConn

IdentityInv == TypeOK /\ IdentityReady /\ PerUserExact /\ DeviceExclusive

ExplicitTopics(c) == {t \in Topic : conn[c].topics[t] = "explicit"}
ExplicitInv == TypeOK /\ ExplicitExact
                 /\ \A c \in Conn : IsFiniteSet(ExplicitTopics(c))

\* Only authenticated connections have subscriptions of their own and tasks,
\* only open ones are authenticated, and an identity is never changed.
TasksAuthenticated ==
    /\ \A c \in Conn : conn[c].auth => conn[c].st = "open"
    /\ \A c \in Conn : ~ conn[c].auth =>
          /\ conn[c].user = NoUser
          /\ \A t \in Topic : conn[c].topics[t] # "explicit"
    /\ \A b \in work.bind : conn[b.conn].st = "open" /\ ~ conn[b.conn].auth
    /\ \A k \in Task : task[k].phase # "idle" =>
          conn[task[k].conn].auth \/ conn[task[k].conn].st = "gone"

\* No task is ahead of the revocation marks, and one that was granted to a user
\* before a kick, or before the reset that replaces one, has an old mark.
StaleGrants ==
    \A k \in Task :
        /\ task[k].phase # "idle" =>
              task[k].mark <= revocations[SlotOf[task[k].topic]]
        /\ \A u \in User :
              /\ task[k].phase = "granted" /\ conn[task[k].conn].user = u
              /\ access[<<u, task[k].topic>>] \in {"kicked", "healing", "healed"}
              => Moved(k)

AccessInv == IndexInv /\ TasksAuthenticated /\ StaleGrants /\ RevocationsStick

=============================================================================

---------------------------- MODULE Subscriptions ----------------------------
(* The channel subscriptions of one websocket connection of the TypeScript    *)
(* client (packages/client/src/socket-subscriptions.ts), against the hub of   *)
(* the node it is connected to.  The client shares one server subscription    *)
(* between all the handles of a (channel, key), resubscribes after a          *)
(* reconnect or a server reset, and tells its readers when they may have      *)
(* missed something.                                                          *)
(*                                                                            *)
(* A frame carries, besides what the wire carries, the number of messages     *)
(* published on its topic when it was queued: the client never reads it, it   *)
(* only feeds the history fields `at` and `told` the properties are about.    *)
EXTENDS Naturals, Sequences, FiniteSets, SequencesExt

CONSTANTS
    Key,             \* (channel, key) pairs, as stableKey tells them apart
    Topic,
    TopicOf,         \* TopicOf[k]: the topic the server derives from k
    EarlyPerTopic,   \* EARLY_PER_TOPIC
    StaleHandles,    \* does the application unsubscribe handles of a group the
                     \* server has ended, after subscribing the key again?
    Leaving,         \* the callbacks in which the readers may unsubscribe
    MaxGroups, MaxHandles, MaxPublishes, MaxEpochs,
    MaxTroubles      \* lost sockets, kicks, refusals and broker resets together

ASSUME SubscriptionsAssumption ==
    /\ IsFiniteSet(Key) /\ Key # {} /\ IsFiniteSet(Topic)
    /\ TopicOf \in [Key -> Topic]
    /\ EarlyPerTopic \in Nat
    /\ StaleHandles \in BOOLEAN
    /\ Leaving \subseteq {"message", "resubscribe", "reset"}
    /\ {MaxGroups, MaxHandles, MaxPublishes, MaxEpochs, MaxTroubles} \subseteq Nat

Gid == 1 .. MaxGroups

VARIABLES
    client,     \* the client's maps and groups, see ClientInit
    nextGroup,  \* the next group object
    ready,      \* connected and authenticated
    closed,
    toServer,   \* client frames in flight
    toClient,   \* server frames in flight
    tasks,      \* subscribe requests the server is authorizing
    member,     \* member[t]: this connection's membership in the hub
    others,     \* the topics some other connection of the node holds
    cursor,     \* cursor[t]: the topic's (epoch, seq) while it is held
    pos,        \* pos[t]: how many messages were published on t
    nextEpoch,
    troubles

vars == <<client, nextGroup, ready, closed, toServer, toClient, tasks, member,
          others, cursor, pos, nextEpoch, troubles>>

serverVars == <<tasks, member, others, cursor, pos, nextEpoch>>

-----------------------------------------------------------------------------
\* The client.

\* A group no one has made yet: the value of an unused group id.
NoGroup == [key |-> CHOOSE k \in Key : TRUE, subs |-> 0, acked |-> FALSE,
            epoch |-> 0, seq |-> 0, pending |-> FALSE, over |-> FALSE,
            at |-> 0, told |-> FALSE]

\* `groups`, the group objects, `byTopic`, `early`, and the frames a handler
\* has written.  0 stands for "no group".
ClientInit ==
    [groups |-> [k \in Key |-> 0],
     grp |-> [g \in Gid |-> NoGroup],
     byTopic |-> [t \in Topic |-> 0],
     early |-> [t \in Topic |-> <<>>],
     out |-> <<>>]

TopicOfGroup(c, g) == TopicOf[c.grp[g].key]

\* drop(group): forget it, whichever group its id names now.
Drop(c, g) ==
    LET t == TopicOfGroup(c, g)
    IN  [c EXCEPT !.groups[c.grp[g].key] = 0,
                  !.byTopic[t] = IF c.grp[g].acked /\ @ = g THEN 0 ELSE @]

\* send(group): request the server subscription.
Send(c, g) ==
    [c EXCEPT !.grp[g].pending = TRUE,
              !.out = Append(@, [kind |-> "subscribe", group |-> g,
                                 topic |-> TopicOfGroup(c, g)])]

\* deps.unsubscribe(topic)
SendUnsubscribe(c, t) ==
    [c EXCEPT !.out = Append(@, [kind |-> "unsubscribe", group |-> 0, topic |-> t])]

\* unsubscribe() on a handle of g: n handles of it are left.
RemoveHandle(c, g, n, isReady) ==
    LET left == [c EXCEPT !.grp[g].subs = n]
    IN  IF n > 0 \/ c.grp[g].pending THEN left
        ELSE IF c.grp[g].acked /\ isReady
             THEN SendUnsubscribe(Drop(left, g), TopicOfGroup(c, g))
             ELSE Drop(left, g)

\* A callback of g's readers, after which they may all have unsubscribed.
Callback(c, g, leave) ==
    IF leave /\ c.grp[g].subs > 0 THEN RemoveHandle(c, g, 0, TRUE) ELSE c

\* The readers of g are told of a gap and know that f.pos messages exist.
TellGap(c, g, f) ==
    [c EXCEPT !.grp[g].told = ~@, !.grp[g].at = f.pos]

\* onPublish(frame)
OnPublish(c, f, leave) ==
    LET g == c.byTopic[f.topic]
        gap == f.epoch # c.grp[g].epoch \/ f.seq # c.grp[g].seq + 1
        moved == [c EXCEPT !.grp[g].epoch = f.epoch, !.grp[g].seq = f.seq]
        anyPending == \E k \in Key : c.groups[k] # 0 /\ c.grp[c.groups[k]].pending
    IN  IF g = 0
        THEN IF anyPending /\ Len(c.early[f.topic]) < EarlyPerTopic
             THEN [c EXCEPT !.early[f.topic] = Append(@, f)]
             ELSE c
        ELSE Callback(IF gap THEN TellGap(moved, g, f)
                      ELSE [moved EXCEPT !.grp[g].at = f.pos], g, leave)

\* Whether the frame e, buffered before the ack f, is newer than it.
Newer(e, f) == e.epoch = f.epoch /\ e.seq > f.seq

\* The buffer is emptied, and what is newer than the ack is handled.
Replay(c, f) ==
    LET buffered == c.early[f.topic]
        emptied == [c EXCEPT !.early[f.topic] = <<>>]
        newer(e) == Newer(e, f)
        apply(acc, e) == OnPublish(acc, e, FALSE)
    IN  IF \A i \in DOMAIN buffered : ~ Newer(buffered[i], f) THEN emptied
        ELSE FoldLeft(apply, emptied, SelectSeq(buffered, newer))

\* Mutant: an ack in the same epoch is taken for one that missed nothing.
OnAckEpochOnly(c, f, isReady, leave) ==
    LET g == f.group
        unset == [c EXCEPT !.grp[g].pending = FALSE]
        first == c.grp[g].epoch = 0
        moved == ~first /\ f.epoch # c.grp[g].epoch
        acked == [unset EXCEPT !.byTopic[f.topic] = g,
                               !.grp[g] = [@ EXCEPT !.acked = TRUE,
                                                    !.epoch = f.epoch, !.seq = f.seq,
                                                    !.at = IF first THEN f.pos
                                                           ELSE c.grp[g].at]]
    IN  IF c.groups[c.grp[g].key] # g THEN unset
        ELSE IF c.grp[g].subs = 0
             THEN IF isReady THEN SendUnsubscribe(Drop(unset, g), f.topic)
                  ELSE Drop(unset, g)
        ELSE Replay(IF moved THEN Callback(TellGap(acked, g, f), g, leave)
                    ELSE acked, f)

\* Mutant: the late ack of a group everybody has left does not release it.
OnAckKeeps(c, f, isReady, leave) ==
    LET g == f.group
        unset == [c EXCEPT !.grp[g].pending = FALSE]
        first == c.grp[g].epoch = 0
        moved == ~first /\ (f.epoch # c.grp[g].epoch \/ f.seq # c.grp[g].seq)
        acked == [unset EXCEPT !.byTopic[f.topic] = g,
                               !.grp[g] = [@ EXCEPT !.acked = TRUE,
                                                    !.epoch = f.epoch, !.seq = f.seq,
                                                    !.at = IF first THEN f.pos
                                                           ELSE c.grp[g].at]]
    IN  IF c.groups[c.grp[g].key] # g THEN unset
        ELSE IF c.grp[g].subs = 0
             THEN Drop(unset, g)
        ELSE Replay(IF moved THEN Callback(TellGap(acked, g, f), g, leave)
                    ELSE acked, f)

\* onAck(group, frame) for an acknowledgement.
OnAck(c, f, isReady, leave) ==
    LET g == f.group
        unset == [c EXCEPT !.grp[g].pending = FALSE]
        first == c.grp[g].epoch = 0
        moved == ~first /\ (f.epoch # c.grp[g].epoch \/ f.seq # c.grp[g].seq)
        acked == [unset EXCEPT !.byTopic[f.topic] = g,
                               !.grp[g] = [@ EXCEPT !.acked = TRUE,
                                                    !.epoch = f.epoch, !.seq = f.seq,
                                                    !.at = IF first THEN f.pos
                                                           ELSE c.grp[g].at]]
    IN  IF c.groups[c.grp[g].key] # g THEN unset
        ELSE IF c.grp[g].subs = 0
             THEN IF isReady THEN SendUnsubscribe(Drop(unset, g), f.topic)
                  ELSE Drop(unset, g)
        ELSE Replay(IF moved THEN Callback(TellGap(acked, g, f), g, leave)
                    ELSE acked, f)

\* onAck(group, frame) for an error: the readers get onError.
OnError(c, f) ==
    LET g == f.group
        unset == [c EXCEPT !.grp[g].pending = FALSE]
    IN  IF c.groups[c.grp[g].key] # g THEN unset
        ELSE [Drop(unset, g) EXCEPT !.grp[g].over = TRUE]

\* onReset(frame)
OnReset(c, f, leave) ==
    LET g == c.byTopic[f.topic]
    IN  IF g = 0 THEN c
        ELSE Callback(TellGap([c EXCEPT !.grp[g].epoch = f.epoch,
                                        !.grp[g].seq = f.seq], g, f), g, leave)

\* Mutant: a reset ends the group as a kick does.
OnUnsubscribedResetDrops(c, f, isReady, leave) ==
    LET g == c.byTopic[f.topic]
    IN  IF g = 0 THEN c ELSE Drop(TellGap(c, g, f), g)

\* onUnsubscribed(frame), reason "reset": tell the readers, subscribe again.
OnUnsubscribedReset(c, f, isReady, leave) ==
    LET g == c.byTopic[f.topic]
        told == Callback(TellGap([c EXCEPT !.byTopic[f.topic] = 0], g, f), g, leave)
    IN  IF g = 0 THEN c ELSE IF isReady THEN Send(told, g) ELSE told

\* onUnsubscribed(frame), any other reason: the readers get onKick.
OnKick(c, f) ==
    LET g == c.byTopic[f.topic]
    IN  IF g = 0 THEN c
        ELSE [c EXCEPT !.byTopic[f.topic] = 0, !.groups[c.grp[g].key] = 0,
                       !.grp[g].over = TRUE]

\* The keys whose group has a handle.
Live(c) == {k \in Key : c.groups[k] # 0 /\ c.grp[c.groups[k]].subs > 0}

\* resubscribe(): groups without a handle go, the others are requested again,
\* in some order.
Resubscribe(c, order) ==
    [c EXCEPT !.groups = [k \in Key |-> IF k \in Live(c) THEN @[k] ELSE 0],
              !.grp = [g \in Gid |->
                  IF \E k \in Live(c) : c.groups[k] = g
                  THEN [@[g] EXCEPT !.pending = TRUE] ELSE @[g]],
              !.out = @ \o [i \in DOMAIN order |->
                  [kind |-> "subscribe", group |-> c.groups[order[i]],
                   topic |-> TopicOf[order[i]]]]]

\* disconnected()
Disconnected(c) ==
    LET current == {c.groups[k] : k \in Key}
    IN  [c EXCEPT !.byTopic = [t \in Topic |-> 0],
                  !.early = [t \in Topic |-> <<>>],
                  !.grp = [g \in Gid |-> IF g \in current
                                         THEN [@[g] EXCEPT !.pending = FALSE]
                                         ELSE @[g]]]

\* clear()
Clear(c) ==
    [c EXCEPT !.groups = [k \in Key |-> 0],
              !.byTopic = [t \in Topic |-> 0],
              !.early = [t \in Topic |-> <<>>]]

\* A handler leaves the client in state c: what it wrote goes on the wire.
Becomes(c) ==
    /\ client' = [c EXCEPT !.out = <<>>]
    /\ toServer' = toServer \o c.out

-----------------------------------------------------------------------------
\* The topics of the node and the bound on what goes wrong.

Held(t) == member[t] # "no" \/ t \in others

\* The cursor a subscriber of t finds: a topic nobody held starts a new epoch.
CursorFor(t) == IF Held(t) THEN cursor[t] ELSE [epoch |-> nextEpoch, seq |-> 0]

\* The topic t is held from now on.
Hold(t) ==
    /\ cursor' = [cursor EXCEPT ![t] = CursorFor(t)]
    /\ nextEpoch' = IF Held(t) THEN nextEpoch ELSE nextEpoch + 1

\* The topics nobody holds any more are removed (drop_subscriber).
NoTopic == [epoch |-> 0, seq |-> 0]

Remaining(c, m, o) ==
    [t \in Topic |-> IF m[t] # "no" \/ t \in o THEN c[t] ELSE NoTopic]

\* One more lost socket, kick, refusal or broker reset.
Trouble ==
    /\ troubles < MaxTroubles
    /\ troubles' = troubles + 1

-----------------------------------------------------------------------------
\* The client's actions.

\* subscribe(channel, key) of a key without a group.
SubscribeNew(k) ==
    LET c == [client EXCEPT !.groups[k] = nextGroup,
                            !.grp[nextGroup] = [NoGroup EXCEPT !.key = k, !.subs = 1]]
    IN  /\ nextGroup \in Gid
        /\ client.groups[k] = 0
        /\ nextGroup' = nextGroup + 1
        /\ Becomes(IF ready THEN Send(c, nextGroup) ELSE c)
        /\ UNCHANGED <<ready, closed, toClient, troubles, serverVars>>

\* subscribe(channel, key) of a key that has a group: one more handle of it.
SubscribeMore(k) ==
    LET g == client.groups[k]
    IN  /\ g # 0
        /\ client.grp[g].subs < MaxHandles
        /\ Becomes([client EXCEPT !.grp[g].subs = @ + 1])
        /\ UNCHANGED <<nextGroup, ready, closed, toClient, troubles, serverVars>>

\* unsubscribe() on a handle of g.
Unsubscribe(g) ==
    /\ client.grp[g].subs > 0
    /\ StaleHandles \/ client.groups[client.grp[g].key] \in {0, g}
    /\ Becomes(RemoveHandle(client, g, client.grp[g].subs - 1, ready))
    /\ UNCHANGED <<nextGroup, ready, closed, toClient, troubles, serverVars>>

\* The client handles the next frame of the server.
Receive(kind, next) ==
    /\ ready
    /\ toClient # <<>>
    /\ Head(toClient).kind = kind
    /\ toClient' = Tail(toClient)
    /\ Becomes(next)
    /\ UNCHANGED <<nextGroup, ready, closed, troubles, serverVars>>

\* Whether the readers unsubscribe in the callback `why`.
MayLeave(why) == IF why \in Leaving THEN BOOLEAN ELSE {FALSE}

ReceivePublish ==
    \E leave \in MayLeave("message") :
        Receive("publish", OnPublish(client, Head(toClient), leave))

ReceiveAck ==
    \E leave \in MayLeave("resubscribe") :
        Receive("ack", OnAck(client, Head(toClient), ready, leave))

ReceiveError == Receive("error", OnError(client, Head(toClient)))

ReceiveReset ==
    \E leave \in MayLeave("message") :
        Receive("reset", OnReset(client, Head(toClient), leave))

ReceiveUnsubscribedReset ==
    \E leave \in MayLeave("reset") :
        Receive("unsubscribed_reset",
                OnUnsubscribedReset(client, Head(toClient), ready, leave))

ReceiveKick == Receive("unsubscribed_kicked", OnKick(client, Head(toClient)))

\* The socket is authenticated (becomeReady): a new connection of the hub.
BecomeReady ==
    /\ ~ready /\ ~closed
    /\ ready' = TRUE
    /\ \E order \in SetToSeqs(Live(client)) : Becomes(Resubscribe(client, order))
    /\ UNCHANGED <<nextGroup, closed, toClient, troubles, serverVars>>

\* The server's side of the connection is gone.  Until the hub notices, the
\* old connection keeps its topics held like any other.
HubForgets ==
    /\ toServer' = <<>> /\ toClient' = <<>> /\ tasks' = {}
    /\ member' = [t \in Topic |-> "no"]
    /\ \E lingering \in SUBSET {t \in Topic : member[t] # "no"} :
           others' = others \union lingering
    /\ cursor' = Remaining(cursor, member', others')
    /\ UNCHANGED <<pos, nextEpoch>>

\* The socket is lost (lost -> disconnected); frames in flight are lost with it.
Lose ==
    /\ ready
    /\ Trouble
    /\ ready' = FALSE
    /\ client' = Disconnected(client)
    /\ HubForgets
    /\ UNCHANGED <<nextGroup, closed>>

\* close() (stop -> lost, clear)
Close ==
    /\ ~closed
    /\ closed' = TRUE /\ ready' = FALSE
    /\ client' = Clear(Disconnected(client))
    /\ HubForgets
    /\ UNCHANGED <<nextGroup, troubles>>

-----------------------------------------------------------------------------
\* The hub, as this connection sees it.

Frame(kind, t, g, cur, p) ==
    [kind |-> kind, topic |-> t, group |-> g, epoch |-> cur.epoch,
     seq |-> cur.seq, pos |-> p]

clientVars == <<client, nextGroup, ready, closed>>

\* The session reads the next frame: a subscribe is spawned, an unsubscribe is
\* done at once.
ServerReads ==
    /\ toServer # <<>>
    /\ toServer' = Tail(toServer)
    /\ LET f == Head(toServer)
       IN  \/ /\ f.kind = "subscribe"
              /\ tasks' = tasks \union {f.group}
              /\ UNCHANGED <<member, cursor>>
           \/ /\ f.kind = "unsubscribe"
              /\ member' = [member EXCEPT ![f.topic] = "no"]
              /\ cursor' = Remaining(cursor, member', others)
              /\ UNCHANGED tasks
    /\ UNCHANGED <<toClient, others, pos, nextEpoch, troubles, clientVars>>

\* A subscribe is authorized and done: the ack is queued under the hub's lock.
Grant(g) ==
    LET t == TopicOfGroup(client, g)
    IN  /\ g \in tasks
        /\ tasks' = tasks \ {g}
        /\ Hold(t)
        /\ member' = [member EXCEPT ![t] = IF @ = "no" THEN "explicit" ELSE @]
        /\ toClient' = Append(toClient, Frame("ack", t, g, CursorFor(t), pos[t]))
        /\ UNCHANGED <<toServer, others, pos, troubles, clientVars>>

\* A subscribe is refused.
Deny(g) ==
    /\ g \in tasks
    /\ Trouble
    /\ tasks' = tasks \ {g}
    /\ toClient' = Append(toClient, Frame("error", TopicOfGroup(client, g), g,
                                          [epoch |-> 0, seq |-> 0], 0))
    /\ UNCHANGED <<toServer, member, others, cursor, pos, nextEpoch, clientVars>>

\* Session::subscribe: the server subscribes the connection itself.
ServerSubscribe(t) ==
    /\ ready
    /\ member[t] = "no"
    /\ nextEpoch <= MaxEpochs
    /\ Hold(t)
    /\ member' = [member EXCEPT ![t] = "auto"]
    /\ UNCHANGED <<toServer, toClient, tasks, others, pos, troubles, clientVars>>

\* A publish: fan_out gives it a sequence number if the node holds the topic.
Publish(t) ==
    LET next == [cursor[t] EXCEPT !.seq = @ + 1]
    IN  /\ pos[t] < MaxPublishes
        /\ pos' = [pos EXCEPT ![t] = @ + 1]
        /\ cursor' = IF Held(t) THEN [cursor EXCEPT ![t] = next] ELSE cursor
        /\ toClient' = IF member[t] = "no" THEN toClient
                       ELSE Append(toClient, Frame("publish", t, 0, next, pos[t] + 1))
        /\ UNCHANGED <<toServer, tasks, member, others, nextEpoch, troubles, clientVars>>

\* kick_local of this connection's user.
Kick(t) ==
    /\ Trouble
    /\ member[t] # "no"
    /\ member' = [member EXCEPT ![t] = "no"]
    /\ toClient' = Append(toClient, Frame("unsubscribed_kicked", t, 0, cursor[t], pos[t]))
    /\ cursor' = Remaining(cursor, member', others)
    /\ UNCHANGED <<toServer, tasks, others, pos, nextEpoch, clientVars>>

\* The broker lost messages of the topics in `missed`: reset() starts a new
\* epoch on every topic held, drops the subscriptions the client asked for and
\* resets the others.
BrokerReset(missed) ==
    LET fresh == [epoch |-> nextEpoch, seq |-> 0]
        heldBefore == {t \in Topic : member[t] # "no"}
        frameOf(t) == Frame(IF member[t] = "explicit" THEN "unsubscribed_reset"
                            ELSE "reset", t, 0, fresh, pos'[t])
    IN  /\ Trouble
        /\ nextEpoch' = nextEpoch + 1
        /\ \A t \in missed : pos[t] < MaxPublishes
        /\ pos' = [t \in Topic |-> IF t \in missed THEN pos[t] + 1 ELSE pos[t]]
        /\ member' = [t \in Topic |-> IF member[t] = "explicit" THEN "no" ELSE member[t]]
        /\ cursor' = Remaining([t \in Topic |-> fresh], member', others)
        /\ \E order \in SetToSeqs(heldBefore) :
               toClient' = toClient \o [i \in DOMAIN order |-> frameOf(order[i])]
        /\ UNCHANGED <<toServer, tasks, others, clientVars>>

\* Another connection of the node subscribes t, or the last one leaves it.
OthersJoin(t) ==
    /\ t \notin others
    /\ nextEpoch <= MaxEpochs
    /\ Hold(t)
    /\ others' = others \union {t}
    /\ UNCHANGED <<toServer, toClient, tasks, member, pos, troubles, clientVars>>

OthersLeave(t) ==
    /\ t \in others
    /\ others' = others \ {t}
    /\ cursor' = Remaining(cursor, member, others')
    /\ UNCHANGED <<toServer, toClient, tasks, member, pos, nextEpoch, troubles,
                   clientVars>>

-----------------------------------------------------------------------------
Init ==
    /\ client = ClientInit
    /\ nextGroup = 1
    /\ ready = FALSE /\ closed = FALSE
    /\ toServer = <<>> /\ toClient = <<>> /\ tasks = {}
    /\ member = [t \in Topic |-> "no"]
    /\ others \in SUBSET Topic
    /\ cursor = Remaining([t \in Topic |-> [epoch |-> 1, seq |-> 0]], member, others)
    /\ pos = [t \in Topic |-> 0]
    /\ nextEpoch = 2
    /\ troubles = 0

\* What the wire, the server and the socket do by themselves.
ClientReceives ==
    \/ ReceivePublish \/ ReceiveAck \/ ReceiveError \/ ReceiveReset
    \/ ReceiveUnsubscribedReset \/ ReceiveKick

\* What the hub does, while the client is there to notice.
HubActs ==
    /\ ~closed
    /\ \/ ServerReads
       \/ \E g \in Gid : Grant(g)
       \/ \E g \in Gid : Deny(g)
       \/ \E t \in Topic : ServerSubscribe(t)
       \/ \E t \in Topic : Publish(t)
       \/ \E t \in Topic : Kick(t)
       \/ \E missed \in SUBSET Topic : BrokerReset(missed)
       \/ \E t \in Topic : OthersJoin(t)
       \/ \E t \in Topic : OthersLeave(t)

Next ==
    \/ \E k \in Key : SubscribeNew(k)
    \/ \E k \in Key : SubscribeMore(k)
    \/ \E g \in Gid : Unsubscribe(g)
    \/ ClientReceives
    \/ BecomeReady
    \/ Lose
    \/ Close
    \/ HubActs

Spec == Init /\ [][Next]_vars

-----------------------------------------------------------------------------
\* Every group the application holds a handle of and has not been told the end
\* of (onError, onKick) is the one its key names: it is resubscribed after a
\* reconnect ("A live channel subscription; survives reconnects.").
Survives ==
    ~closed =>
        \A g \in 1 .. nextGroup - 1 :
            client.grp[g].subs > 0 /\ ~client.grp[g].over =>
                client.groups[client.grp[g].key] = g

Idle == ready /\ toServer = <<>> /\ toClient = <<>> /\ tasks = {}

\* When the connection is up and nothing is on the way, the hub's client
\* subscriptions of this connection are the groups the client dispatches to,
\* each with a reader: none is forgotten by either side, and none is kept for
\* readers that have left.  And every reader then knows of every message of its
\* topic: it was handed it, or was told that it may have missed some.
SidesAgree ==
    Idle => /\ \A t \in Topic : member[t] = "explicit" => client.byTopic[t] # 0
            /\ \A t \in Topic : client.byTopic[t] # 0 =>
                   /\ member[t] # "no"
                   /\ client.grp[client.byTopic[t]].subs > 0
                   /\ client.grp[client.byTopic[t]].at = pos[t]
            /\ \A k \in Key : client.groups[k] # 0 =>
                   client.byTopic[TopicOf[k]] = client.groups[k]

\* The subscriptions implement Feed: no reader misses, repeats or reorders a
\* message without being told.
ReaderFeed == INSTANCE Feed WITH
    Reader <- Gid,
    published <- [g \in Gid |-> IF g < nextGroup
                                THEN pos[TopicOfGroup(client, g)] ELSE 0],
    started <- {g \in Gid : client.grp[g].epoch # 0},
    at <- [g \in Gid |-> client.grp[g].at],
    told <- [g \in Gid |-> client.grp[g].told]

NoSilentLoss == ReaderFeed!FeedSpec

-----------------------------------------------------------------------------
\* What the proofs add to make the properties inductive.

Group == [key : Key, subs : Nat, acked : BOOLEAN, epoch : Nat, seq : Nat,
          pending : BOOLEAN, over : BOOLEAN, at : Nat, told : BOOLEAN]

\* What the client sends and what it is sent.
Asked == [kind : {"subscribe", "unsubscribe"}, group : Nat, topic : Topic]
Sent == [kind : {"publish", "ack", "error", "reset", "unsubscribed_reset",
                 "unsubscribed_kicked"},
         topic : Topic, group : Nat, epoch : Nat, seq : Nat, pos : Nat]

Client == [groups : [Key -> Nat], grp : [Gid -> Group], byTopic : [Topic -> Nat],
           early : [Topic -> Seq(Sent)], out : Seq(Asked)]

\* Every variable has its type.
TypeOK ==
    /\ client \in Client /\ client.out = <<>>
    /\ nextGroup \in 1 .. MaxGroups + 1
    /\ ready \in BOOLEAN /\ closed \in BOOLEAN
    /\ toServer \in Seq(Asked) /\ toClient \in Seq(Sent) /\ tasks \in SUBSET Gid
    /\ member \in [Topic -> {"no", "explicit", "auto"}]
    /\ others \in SUBSET Topic
    /\ cursor \in [Topic -> [epoch : Nat, seq : Nat]]
    /\ pos \in [Topic -> Nat] /\ nextEpoch \in Nat \ {0} /\ troubles \in Nat

Known == 1 .. nextGroup - 1

\* A key and a topic name only groups of theirs, a topic only one that was
\* acknowledged, and so does what is on the way.
Linked(c, known) ==
    /\ \A k \in Key : c.groups[k] # 0 =>
           c.groups[k] \in known /\ c.grp[c.groups[k]].key = k
    /\ \A t \in Topic : c.byTopic[t] # 0 =>
           /\ c.byTopic[t] \in known /\ TopicOfGroup(c, c.byTopic[t]) = t
           /\ c.grp[c.byTopic[t]].acked /\ c.grp[c.byTopic[t]].epoch # 0

AsksFor(frames, known) ==
    \A i \in DOMAIN frames : frames[i].kind = "subscribe" => frames[i].group \in known

AnswersFor(frames, c, known) ==
    \A i \in DOMAIN frames : frames[i].kind \in {"ack", "error"} =>
        frames[i].group \in known /\ frames[i].topic = TopicOfGroup(c, frames[i].group)

\* A group that was never acknowledged is nowhere, and one that is not made yet
\* never was.
Unstarted(c, known) ==
    /\ \A g \in Gid : c.grp[g].epoch = 0 => c.grp[g].at = 0
    /\ \A g \in Gid \ known : c.grp[g].epoch = 0 /\ ~c.grp[g].told

LinkInv ==
    /\ Linked(client, Known)
    /\ AsksFor(toServer, Known)
    /\ tasks \subseteq Known
    /\ AnswersFor(toClient, client, Known)
    /\ Unstarted(client, Known)

\* A group that is dispatched is the one its key names, and none is while the
\* connection is down.
Alive(c, known) ==
    \A g \in known : c.grp[g].subs > 0 /\ ~c.grp[g].over => c.groups[c.grp[g].key] = g

Dispatched(c) ==
    \A t \in Topic : c.byTopic[t] # 0 => c.groups[c.grp[c.byTopic[t]].key] = c.byTopic[t]

SurviveInv ==
    /\ ~closed => Alive(client, Known)
    /\ Dispatched(client)
    /\ ~ready => \A t \in Topic : client.byTopic[t] = 0
    /\ closed => ~ready

\* A place in the stream of a topic, before or at another one: in the same
\* epoch as far from it by sequence number as by messages, and a reset that
\* ends a subscription always starts a new epoch.
Then(m, n) ==
    /\ m.epoch <= n.epoch /\ m.pos <= n.pos
    /\ m.epoch = n.epoch => m.pos + n.seq = n.pos + m.seq
    /\ n.kind = "unsubscribed_reset" => m.epoch < n.epoch

Mark(c, g) == [epoch |-> c.grp[g].epoch, seq |-> c.grp[g].seq, pos |-> c.grp[g].at]

\* What the client knows of the stream of t: where its readers are, and the
\* frames buffered.
Places(c, known, t) ==
    {Mark(c, g) : g \in {h \in known : c.grp[h].epoch # 0 /\ TopicOfGroup(c, h) = t}}
        \union {c.early[t][i] : i \in DOMAIN c.early[t]}

\* The streams of the topics, and where that of a held one is.
Streams == [next |-> nextEpoch, pos |-> pos, held |-> {t \in Topic : Held(t)},
            cursor |-> cursor]
Spot(h, t) == [kind |-> "now", epoch |-> h.cursor[t].epoch, seq |-> h.cursor[t].seq,
               pos |-> h.pos[t]]

\* The frames that say where in its stream a topic is.
Telling == {"publish", "ack", "reset", "unsubscribed_reset"}

\* The place m of topic t is in the past.
Past(h, t, m) ==
    /\ m.epoch < h.next /\ m.pos <= h.pos[t]
    /\ t \in h.held => Then(m, Spot(h, t))

\* ... and before every frame of t in s, from the i-th on.
Ahead(s, i, t, m) ==
    \A j \in DOMAIN s :
        j >= i /\ s[j].topic = t /\ s[j].kind \in Telling => Then(m, s[j])

\* What the readers know and what is on the way, s, is in the order of the
\* streams.
InOrder(c, known, s, h) ==
    /\ \A t \in h.held : h.cursor[t].epoch \in 1 .. h.next - 1
    /\ \A i \in DOMAIN s : s[i].kind \in Telling =>
           s[i].epoch # 0 /\ Past(h, s[i].topic, s[i]) /\ Ahead(s, i + 1, s[i].topic, s[i])
    /\ \A t \in Topic : \A m \in Places(c, known, t) :
           m.epoch # 0 /\ Past(h, t, m) /\ Ahead(s, 1, t, m)

FeedInv == InOrder(client, Known, toClient, Streams)

=============================================================================

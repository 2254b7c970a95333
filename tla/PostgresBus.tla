------------------------------ MODULE PostgresBus ------------------------------
(***************************************************************************)
(* The nodes of a cluster on the Postgres LISTEN/NOTIFY bus                *)
(* (crates/pubsub-postgres/src/lib.rs and wire.rs): each node's outgoing   *)
(* counter and outbox, its publisher task, its listener connection and the *)
(* loop that reconnects it, the replay guard, and device calls across      *)
(* nodes.  Postgres itself (one commit order, the notifications of a       *)
(* commit to every live LISTEN connection) is external.                    *)
(*                                                                         *)
(* Any thread may publish: `send` takes a counter and later tries the      *)
(* outbox, and other threads of the node may come in between.              *)
(***************************************************************************)
EXTENDS Integers, Sequences, FiniteSets, SequencesExt

CONSTANTS
    Node,          \* the nodes (each with its random id)
    Holder,        \* the nodes whose hub holds the device the calls address
    Outbox,        \* OUTBOX
    Batch,         \* BATCH
    MaxInbound,    \* MAX_INBOUND_CALLS
    MaxPublishes,  \* bound: publishes of each node
    MaxCalls,      \* bound: device calls of each node
    MaxLosses,     \* bound: times a node's listener connection breaks
    MaxRepeats     \* bound: envelopes that reach the channel once more

ASSUME BusAssumption ==
    /\ IsFiniteSet(Node) /\ Holder \subseteq Node
    /\ MaxPublishes \in [Node -> Nat] /\ MaxCalls \in [Node -> Nat]
    /\ MaxLosses \in [Node -> Nat]
    /\ {Outbox, Batch, MaxInbound} \subseteq Nat \ {0} /\ MaxRepeats \in Nat

VARIABLES
    counter,    \* Inner::counter
    sending,    \* messages with a counter, not yet offered to the outbox
    outbox,     \* the outbox, in queue order
    batch,      \* what publish_loop has taken out and is notifying
    line,       \* notifications that reached a node's listener, in order
    alive,      \* the listener's connection works
    loop,       \* where listen_loop is
    seen,       \* Inner::seen
    nextCall,   \* Inner::next_call
    calls,      \* the device calls of each node, by id
    running,    \* inbound calls that hold a permit
    publishes,  \* publishes so far
    losses,     \* connection losses so far
    repeats,    \* repeated envelopes so far
    accepted,   \* history: envelopes each node has acted on
    refused,    \* history: envelopes the replay guard refused
    missed,     \* history: envelopes a node has missed since its last reset
    ran         \* history: calls that ran on a holder

vars == <<counter, sending, outbox, batch, line, alive, loop, seen, nextCall,
          calls, running, publishes, losses, repeats, accepted, refused, missed,
          ran>>

sendVars   == <<counter, sending, outbox, batch>>
listenVars == <<line, alive, loop, losses, repeats, missed>>
guardVars  == <<seen, accepted, refused>>
callVars   == <<nextCall, calls, running, ran>>

-----------------------------------------------------------------------------
(* State                                                                   *)

Body == [kind : {"publish", "call", "reply"}, to : Node, id : Nat, ok : BOOLEAN]
Envelope == [from : Node, count : Nat, body : Body]

\* A call has not been made, has its pending entry and waits, or has ended.
CallState == {"new", "waiting", "answered", "failed", "timeout"}

\* The ids a node's calls may have (the code's start from 0).
Ids(n) == 1..MaxCalls[n]

Init ==
    /\ counter = [n \in Node |-> 0]
    /\ sending = [n \in Node |-> {}]
    /\ outbox = [n \in Node |-> <<>>]
    /\ batch = [n \in Node |-> <<>>]
    /\ line = [n \in Node |-> <<>>]
    /\ alive = [n \in Node |-> TRUE]
    /\ loop = [n \in Node |-> "receiving"]
    /\ seen = [n \in Node |-> [o \in Node |-> 0]]
    /\ nextCall = [n \in Node |-> 1]
    /\ calls = [n \in Node |-> [i \in Ids(n) |->
                  [st |-> "new", answer |-> <<>>]]]
    /\ running = [n \in Node |-> {}]
    /\ publishes = [n \in Node |-> 0]
    /\ losses = [n \in Node |-> 0]
    /\ repeats = 0
    /\ accepted = [n \in Node |-> <<>>]
    /\ refused = [n \in Node |-> {}]
    /\ missed = [n \in Node |-> {}]
    /\ ran = {}

-----------------------------------------------------------------------------
(* Sending                                                                 *)

\* Inner::send, first step: fetch_add gives the message its place.
TakeCounter(n, body) ==
    /\ counter' = [counter EXCEPT ![n] = @ + 1]
    /\ sending' = [sending EXCEPT ![n] =
          @ \cup {[from |-> n, count |-> counter[n], body |-> body]}]

\* PostgresBroker::publish (size checked by `validate` before).
Publish(n) ==
    /\ publishes[n] < MaxPublishes[n]
    /\ publishes' = [publishes EXCEPT ![n] = @ + 1]
    /\ TakeCounter(n, [kind |-> "publish", to |-> n, id |-> 0, ok |-> TRUE])
    /\ UNCHANGED <<outbox, batch, listenVars, guardVars, callVars>>

\* PostgresBroker::call: a pending entry, then the message.
StartCall(n) ==
    /\ nextCall[n] \in Ids(n)
    /\ nextCall' = [nextCall EXCEPT ![n] = @ + 1]
    /\ calls' = [calls EXCEPT ![n][nextCall[n]].st = "waiting"]
    /\ TakeCounter(n, [kind |-> "call", to |-> n, id |-> nextCall[n],
                       ok |-> TRUE])
    /\ UNCHANGED <<outbox, batch, listenVars, guardVars, running, ran,
                   publishes>>

\* Inner::send, second step: the outbox has room.
Enqueue(n, e) ==
    /\ Len(outbox[n]) < Outbox
    /\ outbox' = [outbox EXCEPT ![n] = Append(@, e)]
    /\ sending' = [sending EXCEPT ![n] = @ \ {e}]
    /\ UNCHANGED <<counter, batch, listenVars, guardVars, callVars, publishes>>

\* Inner::send fails, for a full outbox or (calls and replies) a message over
\* the NOTIFY limit: the call ends, an answer is replaced by an error answer,
\* an error answer is given up.
SendFails(n, e) ==
    /\ Len(outbox[n]) >= Outbox \/ e.body.kind # "publish"
    /\ LET again == e.body.kind = "reply" /\ e.body.ok
       IN /\ counter' = [counter EXCEPT ![n] = IF again THEN @ + 1 ELSE @]
          /\ sending' = [sending EXCEPT ![n] = (@ \ {e}) \cup
                IF again
                THEN {[from |-> n, count |-> counter[n],
                       body |-> [e.body EXCEPT !.ok = FALSE]]}
                ELSE {}]
    /\ calls' = IF e.body.kind = "call"
                THEN [calls EXCEPT ![n][e.body.id].st = "failed"] ELSE calls
    /\ UNCHANGED <<outbox, batch, listenVars, guardVars, nextCall, running, ran,
                   publishes>>

\* publish_loop: recv_many.
TakeBatch(n) ==
    /\ batch[n] = <<>>
    /\ outbox[n] # <<>>
    /\ LET size == IF Len(outbox[n]) < Batch THEN Len(outbox[n]) ELSE Batch
       IN /\ batch' = [batch EXCEPT ![n] = SubSeq(outbox[n], 1, size)]
          /\ outbox' = [outbox EXCEPT ![n] =
                          SubSeq(@, size + 1, Len(outbox[n]))]
    /\ UNCHANGED <<counter, sending, listenVars, guardVars, callVars, publishes>>

\* The channel carries envelopes `es` to every live listener; the others miss
\* what another node sent.
Carry(es) ==
    /\ line' = [m \in Node |-> IF alive[m] THEN line[m] \o es ELSE line[m]]
    /\ missed' = [m \in Node |->
          IF alive[m] THEN missed[m]
          ELSE missed[m] \cup {e \in ToSet(es) : e.from # m}]

\* publish_loop: the transaction commits.
Notify(n) ==
    /\ batch[n] # <<>>
    /\ Carry(batch[n])
    /\ batch' = [batch EXCEPT ![n] = <<>>]
    /\ UNCHANGED <<counter, sending, outbox, alive, loop, losses, repeats,
                   guardVars, callVars, publishes>>

\* publish_loop: the query fails; the batch is dropped with a warning.
NotifyFails(n) ==
    /\ batch[n] # <<>>
    /\ batch' = [batch EXCEPT ![n] = <<>>]
    /\ UNCHANGED <<counter, sending, outbox, listenVars, guardVars, callVars,
                   publishes>>

-----------------------------------------------------------------------------
(* The listener                                                            *)

\* An envelope some node has handled comes over the channel once more.
Repeat(e) ==
    /\ repeats < MaxRepeats
    /\ repeats' = repeats + 1
    /\ line' = [m \in Node |-> IF alive[m] THEN Append(line[m], e) ELSE line[m]]
    /\ UNCHANGED <<sendVars, alive, loop, losses, missed, guardVars, callVars,
                   publishes>>

\* The connection breaks; what was received up to there can still be read.
Lose(m, kept) ==
    /\ alive[m]
    /\ losses[m] < MaxLosses[m]
    /\ kept \in 0..Len(line[m])
    /\ losses' = [losses EXCEPT ![m] = @ + 1]
    /\ alive' = [alive EXCEPT ![m] = FALSE]
    /\ line' = [line EXCEPT ![m] = SubSeq(@, 1, kept)]
    /\ missed' = [missed EXCEPT ![m] = @ \cup
          {e \in ToSet(SubSeq(line[m], kept + 1, Len(line[m]))) :
             e.from # m /\ e \notin ToSet(accepted[m])}]
    /\ UNCHANGED <<sendVars, loop, repeats, guardVars, callVars, publishes>>

\* Inner::reset_once: the hub is told that messages were lost.
ResetOnce(m) == missed' = [missed EXCEPT ![m] = {}]

\* listen_loop: try_recv reports the loss.
NoticeLoss(m) ==
    /\ loop[m] = "receiving"
    /\ ~ alive[m]
    /\ line[m] = <<>>
    /\ ResetOnce(m)
    /\ loop' = [loop EXCEPT ![m] = "reconnecting"]
    /\ UNCHANGED <<sendVars, line, alive, losses, repeats, guardVars, callVars,
                   publishes>>

\* reconnect: LISTEN on a new connection (failed attempts change nothing).
Reconnect(m) ==
    /\ loop[m] = "reconnecting"
    /\ alive' = [alive EXCEPT ![m] = TRUE]
    /\ line' = [line EXCEPT ![m] = <<>>]
    /\ loop' = [loop EXCEPT ![m] = "resuming"]
    /\ UNCHANGED <<sendVars, losses, repeats, missed, guardVars, callVars,
                   publishes>>

\* Mutant: no second reset, once the listener is back.
ResumeQuiet(m) ==
    /\ loop[m] = "resuming"
    /\ UNCHANGED missed
    /\ loop' = [loop EXCEPT ![m] = "receiving"]
    /\ UNCHANGED <<sendVars, line, alive, losses, repeats, guardVars, callVars,
                   publishes>>

\* listen_loop: the second reset, then the inner loop again.
Resume(m) ==
    /\ loop[m] = "resuming"
    /\ ResetOnce(m)
    /\ loop' = [loop EXCEPT ![m] = "receiving"]
    /\ UNCHANGED <<sendVars, line, alive, losses, repeats, guardVars, callVars,
                   publishes>>

-----------------------------------------------------------------------------
(* Handling                                                                *)

\* Mutant: every envelope of another node is taken.
FreshAlways(m, e) == TRUE

\* Inner::fresh.
Fresh(m, e) == e.count >= seen[m][e.from]

\* Body::Reply { to, .. } if to == self.node
ForMe(m, e) == e.body.to = m

\* What a fresh envelope does: a publish goes to the hub, a call takes a permit
\* or is dropped, an answer to a call that still waits ends it.
Dispatch(m, e) ==
    LET b == e.body
    IN /\ running' = IF b.kind = "call" /\ Cardinality(running[m]) < MaxInbound
                     THEN [running EXCEPT ![m] = @ \cup {<<e.from, b.id>>}]
                     ELSE running
       /\ calls' = IF /\ b.kind = "reply" /\ ForMe(m, e)
                      /\ b.id \in Ids(m) /\ calls[m][b.id].st = "waiting"
                   THEN [calls EXCEPT ![m][b.id] =
                           [st |-> "answered", answer |-> <<b.to, b.id>>]]
                   ELSE calls

\* Inner::handle of the next notification.
Handle(m) ==
    /\ loop[m] = "receiving"
    /\ line[m] # <<>>
    /\ LET e == Head(line[m])
       IN CASE e.from = m -> UNCHANGED <<guardVars, running, calls>>
            [] e.from # m /\ ~ Fresh(m, e) ->
                 /\ refused' = [refused EXCEPT ![m] = @ \cup {e}]
                 /\ UNCHANGED <<seen, accepted, running, calls>>
            [] OTHER ->
                 /\ seen' = [seen EXCEPT ![m][e.from] = e.count + 1]
                 /\ accepted' = [accepted EXCEPT ![m] = Append(@, e)]
                 /\ Dispatch(m, e)
                 /\ UNCHANGED refused
    /\ line' = [line EXCEPT ![m] = Tail(@)]
    /\ UNCHANGED <<sendVars, alive, loop, losses, repeats, missed, nextCall,
                   ran, publishes>>

\* wire::open refuses an envelope that is more than 30 seconds old.
HandleStale(m) ==
    /\ loop[m] = "receiving"
    /\ line[m] # <<>>
    /\ line' = [line EXCEPT ![m] = Tail(@)]
    /\ UNCHANGED <<sendVars, alive, loop, losses, repeats, missed, guardVars,
                   callVars, publishes>>

\* The task of an inbound call: the holder of the device answers, with the
\* client's result or its error, and the others stay silent.
RunCall(m, c) ==
    /\ c \in running[m]
    /\ running' = [running EXCEPT ![m] = @ \ {c}]
    /\ IF m \in Holder
       THEN /\ ran' = ran \cup {c}
            /\ \E ok \in BOOLEAN :
                 TakeCounter(m, [kind |-> "reply", to |-> c[1], id |-> c[2],
                                 ok |-> ok])
       ELSE UNCHANGED <<ran, counter, sending>>
    /\ UNCHANGED <<outbox, batch, listenVars, guardVars, nextCall, calls,
                   publishes>>

\* PostgresBroker::call: sent, but no answer in time (or the caller is gone).
CallTimeOut(n, i) ==
    /\ calls[n][i].st = "waiting"
    /\ \A e \in sending[n] : ~ (e.body.kind = "call" /\ e.body.id = i)
    /\ calls' = [calls EXCEPT ![n][i].st = "timeout"]
    /\ UNCHANGED <<sendVars, listenVars, guardVars, nextCall, running, ran,
                   publishes>>

-----------------------------------------------------------------------------
SendNext(n) ==
    \/ Publish(n) \/ StartCall(n)
    \/ \E e \in sending[n] : Enqueue(n, e) \/ SendFails(n, e)
    \/ TakeBatch(n) \/ Notify(n) \/ NotifyFails(n)

ListenNext(m) ==
    \/ \E kept \in 0..Len(line[m]) : Lose(m, kept)
    \/ NoticeLoss(m) \/ Reconnect(m) \/ Resume(m)
    \/ Handle(m) \/ HandleStale(m)
    \/ \E c \in running[m] : RunCall(m, c)
    \/ \E e \in ToSet(accepted[m]) : Repeat(e)
    \/ \E i \in Ids(m) : CallTimeOut(m, i)

Next == \E n \in Node : SendNext(n) \/ ListenNext(n)

Spec == Init /\ [][Next]_vars

-----------------------------------------------------------------------------
(* Properties                                                              *)

\* Each node acts on another node's envelopes in the order of their counters
\* and on none twice, across repeated envelopes, failed sends and reconnects
\* (a publish, a kick, a close or a device call is never applied again).
AcceptedInOrder ==
    \A m \in Node : \A i, j \in DOMAIN accepted[m] :
        i < j /\ accepted[m][i].from = accepted[m][j].from =>
            accepted[m][i].count < accepted[m][j].count

\* What Inner::fresh says it drops: only envelopes this node has seen.  It does
\* not hold (the README tells how; no run checks it).
OnlyReplaysRefused == \A m \in Node : refused[m] \subseteq ToSet(accepted[m])

\* The inbound calls of a node stay within their permits, and one call is run
\* again by nobody: no envelope of a call is dispatched once it has run.
RunOnce ==
    /\ \A m \in Node : Cardinality(running[m]) <= MaxInbound
    /\ Cardinality(Holder) <= 1 =>
          \A m \in Holder : running[m] \cap ran = {}

\* Another node's envelope is acted on once, in its order, and within the
\* permits of the calls.
OnceInOrder == AcceptedInOrder /\ RunOnce

\* A node that reads its listener again has told its hub of every envelope that
\* went by while it did not listen: the reset at the loss does not cover what
\* was sent before the new LISTEN, the second one does.
LossAnnounced ==
    \A m \in Node : loop[m] = "receiving" /\ alive[m] => missed[m] = {}

-----------------------------------------------------------------------------
(* What the proofs add to make the properties inductive (PostgresBusProofs) *)

\* Every variable the properties depend on has its type.
TypeOK ==
    /\ counter \in [Node -> Nat]
    /\ sending \in [Node -> SUBSET Envelope]
    /\ outbox \in [Node -> Seq(Envelope)]
    /\ batch \in [Node -> Seq(Envelope)]
    /\ line \in [Node -> Seq(Envelope)]
    /\ alive \in [Node -> BOOLEAN]
    /\ loop \in [Node -> {"receiving", "reconnecting", "resuming"}]
    /\ seen \in [Node -> [Node -> Nat]]
    /\ nextCall \in [Node -> Nat \ {0}]
    /\ running \in [Node -> SUBSET (Node \X Nat)]
    /\ accepted \in [Node -> Seq(Envelope)]
    /\ missed \in [Node -> SUBSET Envelope]
    /\ ran \in SUBSET (Node \X Nat)

\* Every envelope that is on its way or has been acted on.
Known == UNION {sending[n] \cup ToSet(outbox[n]) \cup ToSet(batch[n])
                  \cup ToSet(line[n]) \cup ToSet(accepted[n]) : n \in Node}

IsCall(e, c) == e.body.kind = "call" /\ c = <<e.from, e.body.id>>

\* A node's sends are its own; a call has one envelope, whose id and counter
\* were taken from the node's counters.
OneEnvelope ==
    /\ \A n \in Node : \A e \in sending[n] : e.from = n
    /\ \A e \in Known : e.body.kind = "call" => e.body.id < nextCall[e.from]
    /\ \A e, f \in Known :
          /\ e.body.kind = "call" /\ f.body.kind = "call"
          /\ e.from = f.from /\ e.body.id = f.body.id
          => e.count = f.count

\* The replay guard is past everything that was accepted.
GuardPast ==
    \A m \in Node : \A e \in ToSet(accepted[m]) : e.count < seen[m][e.from]

\* A call runs, or ran, where its envelope was accepted.
CallsAccepted ==
    /\ \A m \in Node : IsFiniteSet(running[m])
    /\ \A m \in Node : \A c \in running[m] :
          \E e \in ToSet(accepted[m]) : IsCall(e, c)
    /\ \A c \in ran :
          \E m \in Holder : \E e \in ToSet(accepted[m]) : IsCall(e, c)

\* Only a node that still has its second reset to come has an unannounced loss
\* while its listener works.
ResetToCome ==
    \A m \in Node :
        /\ alive[m] /\ loop[m] # "resuming" => missed[m] = {}
        /\ loop[m] = "reconnecting" => ~ alive[m]

GuardInv == TypeOK /\ GuardPast /\ AcceptedInOrder
CallInv == GuardInv /\ OneEnvelope /\ CallsAccepted /\ RunOnce
LossInv == TypeOK /\ ResetToCome
=============================================================================

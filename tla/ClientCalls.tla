------------------------------ MODULE ClientCalls ------------------------------
(***************************************************************************)
(* The server's calls of client actions over one websocket session         *)
(* (crates/router/src/client.rs): the pending table, the outgoing queue,   *)
(* the client's replies, the reply timeout, a caller that goes away, and   *)
(* the session's end, which fails what is pending.                         *)
(*                                                                         *)
(* `pending` is behind a mutex and `closed` is an atomic: what a call does *)
(* between them, and what resolve and fail_pending do after they have      *)
(* taken an entry out of the table, are steps of their own.                *)
(***************************************************************************)
EXTENDS Naturals, Sequences, FiniteSets

CONSTANTS
    Call,         \* calls that may be made in the session
    Buffer,       \* SessionConfig::outgoing_buffer
    MaxReplies,   \* bound: client_result frames of the client
    MaxCloses     \* bound: fail_pending runs (detach, close, drop)

ASSUME CallAssumption ==
    /\ IsFiniteSet(Call)
    /\ Buffer \in Nat \ {0}
    /\ {MaxReplies, MaxCloses} \subseteq Nat

VARIABLES
    phase,      \* where each call is
    id,         \* the id of each call once it has one
    nextId,     \* Inner::next_id
    pending,    \* the keys of Inner::pending
    closed,     \* Inner::closed
    taken,      \* entries taken out of the table, answer not sent yet
    slot,       \* the oneshot of each call: what was sent into it
    outgoing,   \* the outgoing queue: ids of client_call frames
    receiver,   \* the adapter still holds the queue's receiver
    replies,    \* client_result frames handled so far
    failing,    \* a fail_pending has set `closed` and has not drained yet
    closes,     \* fail_pending runs that have drained
    first       \* history: the first reply to each id since it was handed out

vars == <<phase, id, nextId, pending, closed, taken, slot, outgoing, receiver,
          replies, failing, closes, first>>

tableVars == <<id, nextId, pending>>
wireVars  == <<outgoing, receiver, replies, first>>
endVars   == <<closed, failing, closes>>

-----------------------------------------------------------------------------
(* State                                                                   *)

\* A call has not started; has seen the session open; is in the table and waits
\* for room in the queue; waits for its reply; or has ended in some way.
Running == {"queueing", "waiting"}
Ended == {"answered", "gone", "timeout", "cancelled"}
Phase == {"new", "admitted"} \cup Running \cup Ended

\* What is sent into a oneshot: nothing yet, the client's n-th reply, or the
\* closed error.
None == [kind |-> "none", reply |-> 0]
Reply(n) == [kind |-> "reply", reply |-> n]
Closed == [kind |-> "closed", reply |-> 0]
Answer == [kind : {"none", "reply", "closed"}, reply : Nat]

\* Ids are handed out from 1 (the code's from 0): a call without one has id 0.
Ids == 1..Cardinality(Call)

Init ==
    /\ phase = [k \in Call |-> "new"]
    /\ id = [k \in Call |-> 0]
    /\ nextId = 1
    /\ pending = {}
    /\ closed = FALSE
    /\ taken = {}
    /\ slot = [k \in Call |-> None]
    /\ outgoing = <<>>
    /\ receiver = TRUE
    /\ replies = 0
    /\ failing = FALSE
    /\ closes = 0
    /\ first = [i \in Ids |-> None]

-----------------------------------------------------------------------------
(* A call                                                                  *)

\* ClientHandle::call: the closed flag is read.
Start(k) ==
    /\ phase[k] = "new"
    /\ phase' = [phase EXCEPT ![k] = IF closed THEN "gone" ELSE "admitted"]
    /\ UNCHANGED <<tableVars, taken, slot, wireVars, endVars>>

\* Mutant: ids are not unique.
SameId == nextId

\* fetch_add on next_id: what the counter is afterwards.
NextId == nextId + 1

\* The call enters the table under its own id.
Insert(k) ==
    /\ phase[k] = "admitted"
    /\ phase' = [phase EXCEPT ![k] = "queueing"]
    /\ id' = [id EXCEPT ![k] = nextId]
    /\ nextId' = NextId
    /\ pending' = pending \cup {nextId}
    /\ UNCHANGED <<taken, slot, wireVars, endVars>>

\* The frame gets into the outgoing queue.
Send(k) ==
    /\ phase[k] = "queueing"
    /\ receiver
    /\ Len(outgoing) < Buffer
    /\ outgoing' = Append(outgoing, id[k])
    /\ phase' = [phase EXCEPT ![k] = "waiting"]
    /\ UNCHANGED <<tableVars, taken, slot, receiver, replies, first, endVars>>

\* Mutant: an abandoned call stays in the table.
EndLeaky(k, how) ==
    /\ phase' = [phase EXCEPT ![k] = how]
    /\ pending' = IF how = "cancelled" THEN pending ELSE pending \ {id[k]}
    /\ UNCHANGED <<id, nextId, taken, slot, wireVars, endVars>>

\* However a call in the table ends, its PendingGuard takes the entry out.
End(k, how) ==
    /\ phase' = [phase EXCEPT ![k] = how]
    /\ pending' = pending \ {id[k]}
    /\ UNCHANGED <<id, nextId, taken, slot, wireVars, endVars>>

\* The queue's receiver is gone: the send fails.
SendFails(k) ==
    /\ phase[k] = "queueing"
    /\ ~ receiver
    /\ End(k, "gone")

\* The oneshot has the answer.  It is looked at only once the frame is queued.
Receive(k) ==
    /\ phase[k] = "waiting"
    /\ slot[k] # None
    /\ End(k, IF slot[k] = Closed THEN "gone" ELSE "answered")

\* Mutant: the timeout bounds only the wait for the reply.
StuckWaiting(k) == phase[k] = "waiting" /\ slot[k] = None

\* A Timeout polls the round trip before the timer: the timer decides only
\* when the queue is full or the oneshot is empty.
Stuck(k) ==
    \/ phase[k] = "queueing" /\ receiver /\ Len(outgoing) >= Buffer
    \/ phase[k] = "waiting" /\ slot[k] = None

TimeOut(k) ==
    /\ Stuck(k)
    /\ End(k, "timeout")

\* The caller's future is dropped (its own request was aborted).
Cancel(k) ==
    /\ phase[k] \in Running
    /\ End(k, "cancelled")

-----------------------------------------------------------------------------
(* The client and the adapter                                              *)

\* The adapter writes a frame to the socket, or lets go of the queue.
Forward ==
    /\ receiver
    /\ outgoing # <<>>
    /\ outgoing' = Tail(outgoing)
    /\ UNCHANGED <<phase, tableVars, taken, slot, receiver, replies, first,
                   endVars>>

Disconnect ==
    /\ receiver
    /\ receiver' = FALSE
    /\ outgoing' = <<>>
    /\ UNCHANGED <<phase, tableVars, taken, slot, replies, first, endVars>>

\* ClientHandle::resolve: a client_result with any id, the client's to choose.
\* The entry leaves the table under the lock.
Resolve(i) ==
    /\ replies < MaxReplies
    /\ replies' = replies + 1
    /\ IF i \in pending
       THEN /\ pending' = pending \ {i}
            /\ taken' = taken \cup {<<i, Reply(replies + 1)>>}
       ELSE UNCHANGED <<pending, taken>>
    /\ first' = [first EXCEPT ![i] =
                   IF i < nextId /\ @ = None THEN Reply(replies + 1) ELSE @]
    /\ UNCHANGED <<phase, id, nextId, slot, outgoing, receiver, endVars>>

\* The answer goes into the oneshot of whoever still waits for it.
Deliver(i, answer) ==
    /\ <<i, answer>> \in taken
    /\ taken' = taken \ {<<i, answer>>}
    /\ slot' = [k \in Call |->
                  IF id[k] = i /\ phase[k] \in Running THEN answer
                  ELSE slot[k]]
    /\ UNCHANGED <<phase, tableVars, wireVars, endVars>>

-----------------------------------------------------------------------------
(* The session's end                                                       *)

\* ClientHandle::fail_pending, first step: new calls are refused from here on.
FailPending ==
    /\ ~ failing
    /\ closes < MaxCloses
    /\ closed' = TRUE
    /\ failing' = TRUE
    /\ UNCHANGED <<phase, tableVars, taken, slot, wireVars, closes>>

\* ClientHandle::fail_pending, second step: whatever is in the table leaves it
\* and is to get the closed error.
Drain ==
    /\ failing
    /\ failing' = FALSE
    /\ closes' = closes + 1
    /\ taken' = taken \cup {<<i, Closed>> : i \in pending}
    /\ pending' = {}
    /\ UNCHANGED <<phase, id, nextId, slot, wireVars, closed>>

-----------------------------------------------------------------------------
\* What the runtime does for a call by itself.
Advance(k) ==
    Insert(k) \/ Send(k) \/ SendFails(k) \/ Receive(k) \/ TimeOut(k)

Next ==
    \/ \E k \in Call : Start(k) \/ Advance(k) \/ Cancel(k)
    \/ Forward \/ Disconnect
    \/ \E i \in Ids : Resolve(i)
    \/ \E p \in taken : Deliver(p[1], p[2])
    \/ FailPending \/ Drain

Spec == Init /\ [][Next]_vars

\* The runtime polls what is ready, the timer fires, and a thread that has
\* taken an entry goes on.  Nothing is assumed of the client or the adapter.
Fairness ==
    /\ \A k \in Call : WF_vars(Advance(k))
    /\ WF_vars(\E p \in taken : Deliver(p[1], p[2]))
    /\ WF_vars(Drain)

LiveSpec == Spec /\ Fairness

-----------------------------------------------------------------------------
(* Properties                                                              *)

\* Every variable has its type, and the queue its bound.
TypeOK ==
    /\ phase \in [Call -> Phase]
    /\ id \in [Call -> Nat]
    /\ nextId \in Nat \ {0}
    /\ pending \in SUBSET Nat
    /\ closed \in BOOLEAN
    /\ taken \in SUBSET (Nat \X Answer)
    /\ slot \in [Call -> Answer]
    /\ outgoing \in Seq(Nat) /\ Len(outgoing) <= Buffer
    /\ receiver \in BOOLEAN
    /\ replies \in Nat
    /\ failing \in BOOLEAN
    /\ closes \in Nat
    /\ first \in [Ids -> Answer]

\* A call that runs is in exactly one place: in the table, taken out of it with
\* an answer on the way, or with the answer in its oneshot.  So the table never
\* leaks an entry (whichever of reply, timeout, cancellation, failed send and
\* session end comes first, and whatever overtakes it), and no running call is
\* forgotten by both sides.
EntryOrAnswer ==
    /\ \A i \in pending : \E k \in Call : id[k] = i /\ phase[k] \in Running
    /\ \A k \in Call :
          phase[k] \in Running =>
            \/ /\ id[k] \in pending /\ slot[k] = None
               /\ \A a \in taken : a[1] # id[k]
            \/ /\ id[k] \notin pending /\ slot[k] = None
               /\ \E a \in taken : a[1] = id[k]
            \/ /\ id[k] \notin pending /\ slot[k] # None
               /\ \A a \in taken : a[1] # id[k]

\* A call is answered with the first reply to its id since it got the id, never
\* with an earlier guess, a repeated reply or a reply to another call.
FirstReplyWins ==
    \A k \in Call : phase[k] = "answered" => slot[k] = first[id[k]]

\* The reply timeout bounds the whole round trip: a call that was admitted ends,
\* whatever the client, the adapter and the session's end do.
CallsEnd == \A k \in Call : phase[k] = "admitted" ~> phase[k] \in Ended

-----------------------------------------------------------------------------
(* What the proofs add to make the properties inductive (ClientCallsProofs) *)

\* An id is handed out once and only to a call that enters the table.
IdsUnique ==
    /\ \A k \in Call : id[k] < nextId
    /\ \A k \in Call : phase[k] \in {"new", "admitted"} => slot[k] = None
    /\ \A k \in Call : phase[k] \in Running \cup {"answered"} => id[k] # 0
    /\ \A j, k \in Call : id[j] = id[k] /\ id[j] # 0 => j = k

\* An entry is taken out once, by resolve or by fail_pending.
TakenOnce ==
    /\ \A a \in taken : /\ 0 < a[1] /\ a[1] < nextId
                         /\ a[1] \notin pending /\ a[2] # None
    /\ \A a, b \in taken : a[1] = b[1] => a = b

\* A reply on its way, or in a oneshot, is the first one to its id, and there
\* was none to an id that is still in the table.
RepliesFirst ==
    /\ \A i \in Ids : i \in pending \/ i >= nextId => first[i] = None
    /\ \A a \in taken : a[2] # Closed => a[1] \in Ids /\ a[2] = first[a[1]]
    /\ \A k \in Call :
          slot[k] \notin {None, Closed} =>
              id[k] \in Ids /\ slot[k] = first[id[k]]
    /\ \A k \in Call : phase[k] = "answered" => slot[k] \notin {None, Closed}

CallInv == TypeOK /\ IdsUnique /\ TakenOnce /\ EntryOrAnswer
ReplyInv == CallInv /\ RepliesFirst

=============================================================================

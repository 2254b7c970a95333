------------------------------ MODULE Session ------------------------------
(* One websocket session of the router (crates/router/src/session.rs and      *)
(* session/*.rs) with the actions it runs (action.rs): the frames of the      *)
(* client, the authentication of the session by an auth frame or by the       *)
(* adapter, the tasks and their permits, the bounded outgoing queue, the      *)
(* timer task, and the ways the session ends.  Frames are handled one after   *)
(* the other; tasks, the timer, the hub's other users and the adapter run     *)
(* beside them.  The hub is module Hub: here it is what it does to one        *)
(* connection.  The server's own calls of the client are module ClientCalls.  *)
EXTENDS Naturals, Sequences, FiniteSets, SequencesExt

CONSTANTS
    User,            \* the identities the auth hook and the adapter can find
    AuthHook,        \* is an auth hook installed?
    AdapterAuth,     \* may the adapter authenticate the session as well?
    Buffer,          \* SessionConfig::outgoing_buffer
    MaxInflight,     \* MAX_INFLIGHT_CALLS
    FrameLimit,      \* SessionConfig::max_frames_per_second
    SubscribeAttempts,            \* SUBSCRIBE_ATTEMPTS
    MaxRequests, MaxItems   \* bounds

Anonymous == "anonymous"
Id == 1 .. MaxRequests

ASSUME SessionAssumption ==
    /\ Anonymous \notin User
    /\ {AuthHook, AdapterAuth} \subseteq BOOLEAN
    /\ {Buffer, MaxInflight, FrameLimit, SubscribeAttempts} \subseteq Nat \ {0}
    /\ {MaxRequests, MaxItems} \subseteq Nat

VARIABLES
    attached,       \* the hub knows the connection
    bound,          \* the identity the hub has bound to it
    req,            \* Shared::req: the request context
    authenticated,  \* Shared::authenticated
    authenticating, \* Shared::authenticating
    closer,         \* the kind of close reason, "open" while there is none
    signalling,     \* the hub has detached the connection and will say why
    task,           \* task[i]: the task of request i
    adapter,        \* the adapter's own authenticate: where it is, for whom
    outgoing,       \* the outgoing queue: ids of the frames, 0 for a ping
    receiver,       \* the adapter still holds the queue's receiver
    dropped,        \* the Session was dropped
    timer,          \* the timer task: "window", "ticking" or "over"
    idle,           \* no frame for idle_timeout
    rate,           \* frames in this second
    nextId,         \* the client's next request id
    told            \* history: what was queued for each request, in order

authVars == <<attached, bound, req, authenticated, authenticating>>
endVars  == <<closer, signalling, dropped>>
wireVars == <<outgoing, receiver, told>>
timeVars == <<timer, idle, rate>>
vars == <<authVars, endVars, task, adapter, wireVars, timeVars, nextId>>

-----------------------------------------------------------------------------
\* State.

NoTask == [kind |-> "none", at |-> "none", as |-> Anonymous, tries |-> 0]
Task(kind, at, as) == [kind |-> kind, at |-> at, as |-> as, tries |-> 0]

Running == {i \in Id : task[i].at \notin {"none", "done"}}

Init ==
    /\ attached = TRUE /\ bound = Anonymous /\ req = Anonymous
    /\ authenticated = ~ AuthHook
    /\ authenticating = FALSE
    /\ closer = "open" /\ signalling = "no" /\ dropped = FALSE
    /\ task = [i \in Id |-> NoTask]
    /\ adapter = [at |-> "new", as |-> Anonymous]
    /\ outgoing = <<>> /\ receiver = TRUE
    /\ told = [i \in Id |-> <<>>]
    /\ timer = (IF AuthHook THEN "window" ELSE "ticking")
    /\ idle = FALSE /\ rate = 0
    /\ nextId = 1

-----------------------------------------------------------------------------
\* Ends.

\* What a CloseReason means to the client: it may connect again ("retry": auth
\* timeout, too many connections, idle, slow consumer, frame too large, rate
\* limited) or not ("final": unauthorized, superseded, revoked).
IsClosed == closer # "open"

\* hub::signal: the first reason stays.
Signal(reason) == closer' = IF IsClosed THEN closer ELSE reason

\* Shared::close: detached from the hub, and the reason recorded.
close(reason) ==
    /\ attached' = FALSE
    /\ Signal(reason)
    /\ UNCHANGED signalling

\* The hub detaches the connection for its own reasons (superseded, revoked, a
\* publish that found the queue full): the reason follows, outside its lock.
HubDetaches ==
    /\ attached /\ attached' = FALSE
    /\ signalling' \in {"final", "retry"}
    /\ UNCHANGED <<bound, req, authenticated, authenticating, closer, dropped,
                   task, adapter, wireVars, timeVars, nextId>>

HubSignals ==
    /\ signalling # "no" /\ signalling' = "no"
    /\ Signal(signalling)
    /\ UNCHANGED <<authVars, dropped, task, adapter, wireVars, timeVars, nextId>>

\* The adapter drops the session, and with it the receiver.
Drop ==
    /\ ~ dropped /\ dropped' = TRUE
    /\ attached' = FALSE
    /\ receiver' = FALSE /\ outgoing' = <<>>
    /\ timer' = "over"
    /\ UNCHANGED <<bound, req, authenticated, authenticating, closer, signalling,
                   task, adapter, told, idle, rate, nextId>>

\* The adapter forwards a frame.
Forward ==
    /\ receiver /\ outgoing # <<>>
    /\ outgoing' = Tail(outgoing)
    /\ UNCHANGED <<authVars, endVars, task, adapter, receiver, told, timeVars,
                   nextId>>

-----------------------------------------------------------------------------
\* The queue.

HasRoom == Len(outgoing) < Buffer
Queue(i, what) ==
    /\ outgoing' = Append(outgoing, i)
    /\ told' = IF i = 0 THEN told ELSE [told EXCEPT ![i] = Append(@, what)]
    /\ UNCHANGED receiver

\* send_now: a full queue closes the session, a gone receiver is ignored.
\* `then` is the reason to close for afterwards, "no" for none.
send_now(i, what, then) ==
    LET full == receiver /\ ~ HasRoom
        reason == IF full THEN "retry" ELSE then
    IN  /\ IF receiver /\ HasRoom THEN Queue(i, what) ELSE UNCHANGED wireVars
        /\ IF reason = "no" THEN UNCHANGED <<attached, closer, signalling>>
           ELSE close(reason)

\* tx.send().await: waits for room; fails once the receiver is gone.
Send(i, what) ==
    \/ receiver /\ HasRoom /\ Queue(i, what)
    \/ ~ receiver /\ UNCHANGED wireVars

-----------------------------------------------------------------------------
\* Frames.  Handle: what every frame of the client goes through.  (A frame over
\* max_frame_bytes closes the session before any of this.)

\* touch: the frame counts against this second's budget.
Touched == /\ idle' = FALSE /\ rate' = rate + 1
           /\ UNCHANGED timer
Budget == rate < FrameLimit

Handle == ~ dropped /\ ~ IsClosed /\ Budget /\ Touched

RateLimited ==
    /\ ~ dropped /\ ~ IsClosed /\ ~ Budget
    /\ idle' = FALSE
    /\ close("retry")
    /\ UNCHANGED <<bound, req, authenticated, authenticating, dropped, task,
                   adapter, wireVars, timer, rate, nextId>>

FrameTooLarge ==
    /\ ~ dropped /\ ~ IsClosed
    /\ close("retry")
    /\ UNCHANGED <<bound, req, authenticated, authenticating, dropped, task,
                   adapter, wireVars, timeVars, nextId>>

\* pong, client_result, and anything else that starts nothing.
OtherFrame ==
    /\ Handle
    /\ UNCHANGED <<authVars, endVars, task, adapter, wireVars, nextId>>

\* The client's next request, answered at once with `what`.
Answered(what) ==
    /\ send_now(nextId, what, "no")
    /\ task' = [task EXCEPT ![nextId] = [NoTask EXCEPT !.at = "done"]]
    /\ UNCHANGED <<bound, req, authenticated, dropped, adapter>>

\* The client's next request, given to a task.
Spawned(t) ==
    /\ task' = [task EXCEPT ![nextId] = t]
    /\ UNCHANGED <<attached, bound, req, authenticated, endVars, adapter, wireVars>>

Request == Handle /\ nextId \in Id /\ nextId' = nextId + 1

\* permit
HasPermit == Cardinality(Running) < MaxInflight

\* call, subscribe and unsubscribe before the session is authenticated: 401.
Unauthorized ==
    /\ Request /\ ~ authenticated
    /\ Answered("error")
    /\ UNCHANGED authenticating

unsubscribe ==
    /\ Request /\ authenticated
    /\ Answered("ok")
    /\ UNCHANGED authenticating

\* spawn_call: the action runs with the request context of this moment.
spawn_call(kind) ==
    /\ Request /\ authenticated
    /\ IF HasPermit THEN Spawned(Task(kind, "run", req)) ELSE Answered("error")
    /\ UNCHANGED authenticating

\* spawn_subscribe: the task takes the context itself.
spawn_subscribe ==
    /\ Request /\ authenticated
    /\ IF HasPermit THEN Spawned(Task("subscribe", "start", Anonymous))
       ELSE Answered("error")
    /\ UNCHANGED authenticating

\* spawn_auth: one auth frame at a time; a claim that leads to no task is given
\* back.  Without a hook it is answered 404.
spawn_auth ==
    /\ Request
    /\ IF ~ AuthHook THEN Answered("error") /\ UNCHANGED authenticating
       ELSE IF ~ authenticating /\ ~ authenticated
       THEN IF HasPermit
            THEN authenticating' = TRUE /\ Spawned(Task("auth", "hook", Anonymous))
            ELSE Answered("error") /\ UNCHANGED authenticating
       ELSE Answered("conflict") /\ UNCHANGED authenticating

-----------------------------------------------------------------------------
\* Tasks.

Goto(i, at) == task' = [task EXCEPT ![i].at = at]
taskOnly == <<bound, req, authenticated, dropped, adapter, timeVars, nextId>>

\* Mutant: a panic ends the task.
Uncaught(outcome) == outcome

\* run_unary: before, decode, validate, run, after and encode all end in a
\* reply, a panic in any of them too.
run_unary(outcome) == IF outcome = "panic" THEN "error" ELSE outcome

\* The action ends somehow.
Ends(i) ==
    /\ task[i].kind = "call" /\ task[i].at = "run"
    /\ \E outcome \in {"ok", "error", "panic"} :
          Goto(i, IF run_unary(outcome) = "panic" THEN "done"
                  ELSE run_unary(outcome))
    /\ UNCHANGED <<attached, authenticating, closer, signalling, wireVars, taskOnly>>

\* Its result is sent when there is room.
Replies(i) ==
    /\ task[i].kind \in {"call", "stream"} /\ task[i].at \in {"ok", "error"}
    /\ Send(i, task[i].at)
    /\ Goto(i, "done")
    /\ UNCHANGED <<attached, authenticating, closer, signalling, taskOnly>>

\* A stream yields an item (a gone receiver ends it), an error, or its end.
Yields(i) ==
    /\ task[i].kind = "stream" /\ task[i].at = "run"
    /\ \/ /\ Len(told[i]) < MaxItems
          /\ Send(i, "item")
          /\ Goto(i, IF receiver THEN "run" ELSE "done")
       \/ \E last \in {"ok", "error"} : Goto(i, last) /\ UNCHANGED wireVars
    /\ UNCHANGED <<attached, authenticating, closer, signalling, taskOnly>>

\* The subscribe task takes its context, then asks the hub after `authorize`.
TakesContext(i) ==
    /\ task[i].kind = "subscribe" /\ task[i].at = "start"
    /\ task' = [task EXCEPT ![i].at = "authorize", ![i].as = req]
    /\ UNCHANGED <<attached, authenticating, closer, signalling, wireVars, taskOnly>>

\* The hub acknowledges under its lock, or the topic was revoked meanwhile and
\* the task tries again, or it fails (refused, closed, a panic).
Subscribes(i) ==
    /\ task[i].kind = "subscribe" /\ task[i].at = "authorize"
    /\ \/ /\ attached
          /\ send_now(i, "ok", "no")
          /\ Goto(i, "done")
       \/ /\ attached /\ task[i].tries + 1 < SubscribeAttempts
          /\ task' = [task EXCEPT ![i].tries = @ + 1]
          /\ UNCHANGED <<attached, closer, signalling, wireVars>>
       \/ /\ send_now(i, "error", "no")
          /\ Goto(i, "done")
    /\ UNCHANGED <<authenticating, taskOnly>>

-----------------------------------------------------------------------------
\* Authentication: an auth task, or the adapter, has found identity u.

\* hub.authenticate: one identity per connection, none for one that is gone.
BindsHub(u) ==
    /\ attached /\ bound = Anonymous
    /\ bound' = u
    /\ UNCHANGED attached

\* The hook finds an identity and the hub binds it.
AuthBinds(i) ==
    /\ task[i].kind = "auth" /\ task[i].at = "hook"
    /\ \E u \in User :
          BindsHub(u) /\ task' = [task EXCEPT ![i].at = "context", ![i].as = u]
    /\ UNCHANGED <<req, authenticated, authenticating, endVars, adapter, wireVars,
                   timeVars, nextId>>

\* Shared::authenticate after the hub: the context, then the flag.
Authenticates(i) ==
    /\ task[i].kind = "auth"
    /\ \/ /\ task[i].at = "context" /\ Goto(i, "flag")
          /\ req' = task[i].as /\ UNCHANGED authenticated
       \/ /\ task[i].at = "flag" /\ Goto(i, "bound")
          /\ authenticated' = TRUE /\ UNCHANGED req
    /\ UNCHANGED <<attached, bound, authenticating, endVars, adapter, wireVars,
                   timeVars, nextId>>

\* The hook refuses, fails or panics, or the hub does (the connection is gone or
\* bound, the user has too many, the device is another user's).
AuthFails(i) ==
    /\ task[i].kind = "auth" /\ task[i].at = "hook"
    /\ Goto(i, "refused")
    /\ UNCHANGED <<authVars, endVars, adapter, wireVars, timeVars, nextId>>

\* The claim is given back, then the client is told; a failure ends the session.
AuthReleases(i) ==
    /\ task[i].kind = "auth" /\ task[i].at \in {"bound", "refused"}
    /\ authenticating' = FALSE
    /\ Goto(i, IF task[i].at = "bound" THEN "ok" ELSE "error")
    /\ UNCHANGED <<attached, bound, req, authenticated, endVars, adapter, wireVars,
                   timeVars, nextId>>

AuthReplies(i) ==
    /\ task[i].kind = "auth" /\ task[i].at \in {"ok", "error"}
    /\ IF task[i].at = "ok" THEN send_now(i, "ok", "no")
       ELSE \E reason \in {"retry", "final"} : send_now(i, "error", reason)
    /\ Goto(i, "done")
    /\ UNCHANGED <<authenticating, taskOnly>>

\* Mutant: the flag is set before the context.
FlagFirst ==
    /\ AdapterAuth /\ ~ dropped
    /\ \/ /\ adapter.at = "new"
          /\ \E u \in User : BindsHub(u) /\ adapter' = [at |-> "context", as |-> u]
          /\ UNCHANGED <<req, authenticated>>
       \/ /\ adapter.at = "context" /\ adapter' = [adapter EXCEPT !.at = "flag"]
          /\ authenticated' = TRUE
          /\ UNCHANGED <<attached, bound, req>>
       \/ /\ adapter.at = "flag" /\ adapter' = [adapter EXCEPT !.at = "done"]
          /\ req' = adapter.as
          /\ UNCHANGED <<attached, bound, authenticated>>
    /\ UNCHANGED <<authenticating, endVars, task, wireVars, timeVars, nextId>>

\* Session::authenticate, called by the adapter: the same three steps.
AdapterAuthenticates ==
    /\ AdapterAuth /\ ~ dropped
    /\ \/ /\ adapter.at = "new"
          /\ \E u \in User : BindsHub(u) /\ adapter' = [at |-> "context", as |-> u]
          /\ UNCHANGED <<req, authenticated>>
       \/ /\ adapter.at = "context" /\ adapter' = [adapter EXCEPT !.at = "flag"]
          /\ req' = adapter.as
          /\ UNCHANGED <<attached, bound, authenticated>>
       \/ /\ adapter.at = "flag" /\ adapter' = [adapter EXCEPT !.at = "done"]
          /\ authenticated' = TRUE
          /\ UNCHANGED <<attached, bound, req>>
    /\ UNCHANGED <<authenticating, endVars, task, wireVars, timeVars, nextId>>

-----------------------------------------------------------------------------
\* Time.

\* Mutant: the timer pings a full queue and goes on.
PingsOn ==
    /\ timer = "ticking" /\ ~ IsClosed
    /\ IF idle THEN close("retry") /\ timer' = "over" /\ UNCHANGED wireVars
       ELSE /\ IF receiver /\ HasRoom THEN Queue(0, "ping") ELSE UNCHANGED wireVars
            /\ UNCHANGED <<attached, closer, signalling, timer>>
    /\ UNCHANGED <<bound, req, authenticated, authenticating, dropped, task,
                   adapter, idle, rate, nextId>>

\* A tick of the heartbeat: an idle session is closed, another one is pinged.
Tick ==
    /\ timer = "ticking" /\ ~ IsClosed
    /\ IF idle THEN close("retry") /\ timer' = "over" /\ UNCHANGED wireVars
       ELSE send_now(0, "ping", "no") /\ UNCHANGED timer
    /\ UNCHANGED <<bound, req, authenticated, authenticating, dropped, task,
                   adapter, idle, rate, nextId>>

\* The auth window ends.
WindowEnds ==
    /\ timer = "window"
    /\ IF authenticated
       THEN timer' = "ticking" /\ UNCHANGED <<attached, closer, signalling>>
       ELSE timer' = "over" /\ close("retry")
    /\ UNCHANGED <<bound, req, authenticated, authenticating, dropped, task,
                   adapter, wireVars, idle, rate, nextId>>

\* The timer task sees that the session is closed.
TimerEnds ==
    /\ timer = "ticking" /\ IsClosed
    /\ timer' = "over"
    /\ UNCHANGED <<authVars, endVars, task, adapter, wireVars, idle, rate,
                   nextId>>

Idles ==
    /\ ~ idle /\ idle' = TRUE
    /\ UNCHANGED <<authVars, endVars, task, adapter, wireVars, timer, rate,
                   nextId>>

NextSecond ==
    /\ rate > 0 /\ rate' = 0
    /\ UNCHANGED <<authVars, endVars, task, adapter, wireVars, timer, idle, nextId>>

-----------------------------------------------------------------------------
\* What a task does by itself.
Step(i) ==
    \/ Ends(i) \/ Replies(i) \/ Yields(i)
    \/ TakesContext(i) \/ Subscribes(i)
    \/ AuthBinds(i) \/ Authenticates(i) \/ AuthFails(i) \/ AuthReleases(i)
    \/ AuthReplies(i)

Next ==
    \/ RateLimited \/ FrameTooLarge \/ OtherFrame
    \/ Unauthorized \/ unsubscribe \/ spawn_subscribe \/ spawn_auth
    \/ spawn_call("call") \/ spawn_call("stream")
    \/ \E i \in Id : Step(i)
    \/ AdapterAuthenticates
    \/ HubDetaches \/ HubSignals
    \/ Tick \/ WindowEnds \/ TimerEnds \/ Idles \/ NextSecond
    \/ Forward \/ Drop

Spec == Init /\ [][Next]_vars

\* Tasks are polled (the hooks and actions they run end), and the timer fires.
\* Strong fairness, because the channel gives a freed slot to the sender that
\* has waited for it, before the ping that comes later.
\* Nothing is assumed of the client, the adapter or the rest of the hub.
Fairness ==
    /\ \A i \in Id : SF_vars(Step(i))
    /\ WF_vars(WindowEnds \/ Tick)

LiveSpec == Spec /\ Fairness

-----------------------------------------------------------------------------
(* Properties                                                              *)

\* Every call and subscription runs under the identity the hub has bound to the
\* connection: never with the context from before the login, whatever moment of
\* the three steps the frame comes in, and never with that of a second login
\* that lost.
ServedAsBound ==
    AuthHook =>
      \A i \in Running :
         \/ task[i].kind = "auth"
         \/ task[i].kind = "subscribe" /\ task[i].at = "start"
         \/ task[i].as = bound /\ bound # Anonymous

\* Where an auth task holds the claim.
Claiming == {"hook", "context", "flag", "bound", "refused"}

\* The claim of the one auth frame is held exactly while a task will give it
\* back: a session can always try again until it is closed.
ClaimHeld ==
    authenticating <=>
      \E i \in Id : /\ task[i].kind = "auth"
                    /\ task[i].at \in Claiming

\* Login is one step to the outside: nothing is served under another identity
\* than the bound one, and a login that fails leaves the way open for the next.
LoginExact == ServedAsBound /\ ClaimHeld

\* A request gets one final answer and nothing after it; and while the session
\* is open one that has none is still worked on, also after a panic, at the
\* permit limit and when a login fails.
AnsweredOnce ==
    \A i \in Id :
       /\ \A k \in DOMAIN told[i] : told[i][k] # "item" => k = Len(told[i])
       /\ (i < nextId /\ i \notin Running /\ ~ IsClosed /\ ~ dropped)
             => (told[i] # <<>> /\ Last(told[i]) # "item")

\* A request is answered, or the session ends: a client that stops reading
\* cannot keep a task waiting for room in the queue of an open session.
Decided ==
    \A i \in Id :
       i \in Running ~> (i \notin Running \/ IsClosed \/ dropped)

-----------------------------------------------------------------------------
(* What the proofs add to make the properties inductive *)

Identity == User \cup {Anonymous}

TaskRecord ==
    [kind : {"none", "call", "stream", "subscribe", "auth"},
     at : {"none", "run", "start", "authorize", "ok", "error", "done"} \cup Claiming,
     as : Identity, tries : Nat]

\* Every variable has its type.
TypeOK ==
    /\ attached \in BOOLEAN /\ bound \in Identity /\ req \in Identity
    /\ authenticated \in BOOLEAN /\ authenticating \in BOOLEAN
    /\ dropped \in BOOLEAN /\ receiver \in BOOLEAN /\ idle \in BOOLEAN
    /\ closer \in {"open", "retry", "final"}
    /\ signalling \in {"no", "retry", "final"}
    /\ task \in [Id -> TaskRecord]
    /\ adapter \in [at : {"new", "context", "flag", "done"}, as : Identity]
    /\ outgoing \in Seq(Id \cup {0})
    /\ timer \in {"window", "ticking", "over"}
    /\ rate \in Nat /\ nextId \in Nat \ {0}
    /\ told \in [Id -> Seq({"item", "ok", "error", "conflict"})]

\* Request ids are used in order: the later ones have no task yet.
Fresh == \A i \in Id : i >= nextId => task[i].at = "none" /\ task[i].kind = "none"

\* Where a login stands: whoever is past the hub has the hub's identity, and
\* the context is that identity before the flag is set.
LoginInOrder ==
    /\ AuthHook /\ authenticated => bound # Anonymous /\ req = bound
    /\ \A i \in Id : task[i].kind = "auth" =>
          /\ task[i].at \in {"context", "flag"} =>
                task[i].as = bound /\ bound # Anonymous
          /\ task[i].at = "flag" => req = bound
    /\ adapter.at \in {"context", "flag"} => adapter.as = bound /\ bound # Anonymous
    /\ adapter.at = "flag" => req = bound
    /\ AuthHook => \A i \in Running : task[i].kind # "auth" => authenticated

\* One auth frame at a time.
OneClaim ==
    \A i, j \in Id : /\ task[i].kind = "auth" /\ task[i].at \in Claiming
                     /\ task[j].kind = "auth" /\ task[j].at \in Claiming
                     => i = j

LoginInv == TypeOK /\ Fresh /\ LoginInOrder /\ OneClaim /\ LoginExact

\* A request that is still worked on, or not sent yet, has had no final answer,
\* and only a dropped session has lost its receiver.
NoAnswerYet ==
    /\ receiver \/ dropped
    /\ \A i \in Id : i \in Running \/ i >= nextId =>
          \A n \in DOMAIN told[i] : told[i][n] = "item"

AnswerInv == TypeOK /\ Fresh /\ NoAnswerYet /\ AnsweredOnce

=============================================================================

------------------------------- MODULE Socket -------------------------------
(* The reconnecting websocket connection of the TypeScript client             *)
(* (packages/client/src/socket.ts): the current socket and its handlers, the  *)
(* credentials sent on every connect, the outbox and the waiters of the       *)
(* calls, the reconnect timer, the watchdog, and the answers to the server's  *)
(* client calls.  JavaScript runs a handler to its end, so a handler is one   *)
(* step; what it awaits is a step of its own.  The application's onStatus     *)
(* callback runs in the middle of a handler and may call the connection;      *)
(* what it is told while it does so is not followed further.                  *)
(*                                                                            *)
(* Delays are abstract: a timer that is set may fire at any later moment, so  *)
(* the backoff (attempt, the jitter, the floor after a shedding close, the    *)
(* healthy timer) only says when.  The subscriptions the connection carries   *)
(* are module Subscriptions: here a resubscription is one frame.              *)
EXTENDS Naturals, Sequences, FiniteSets, SequencesExt

CONSTANTS
    Call,           \* the unary calls (call) the application may make
    Stream,         \* the legacy streamed calls (send) it may make
    Auth,           \* is opts.auth given?
    Reconnect,      \* opts.reconnect # false
    OnStatus,       \* OnStatus[s]: what the callback does on status s
    MaxStreamQueue, \* MAX_STREAM_QUEUE
    MaxSockets, MaxTroubles, MaxHints, MaxClientCalls   \* bounds

Request == Call \cup Stream
Status == {"connecting", "open", "paused", "closed"}
SocketId == 1 .. MaxSockets

ASSUME SocketAssumption ==
    /\ Call \cap Stream = {}
    /\ {Auth, Reconnect} \subseteq BOOLEAN
    /\ OnStatus \in [Status -> {"nothing", "pause", "resume", "close"}]
    /\ {MaxStreamQueue, MaxSockets} \subseteq Nat \ {0}
    /\ {MaxTroubles, MaxHints, MaxClientCalls} \subseteq Nat

VARIABLES
    c,          \* the connection, see ClientInit
    net,        \* net[s]: the socket s as the platform sees it
    wire,       \* what the server received on the current socket, in order
    sent,       \* sent[k]: how often the server received request k
    asking,     \* sockets whose opts.auth() has not answered yet
    handling,   \* client calls whose handler runs: the sockets they came on
    quiet,      \* time since the last frame: 0, 1 (past half), 2 (past) liveness
    reader,     \* the consumer of `stream`: "idle", "waiting" or "done"
    troubles, hints, clientCalls   \* what the bounds count

vars == <<c, net, wire, sent, asking, handling, quiet, reader,
          troubles, hints, clientCalls>>

-----------------------------------------------------------------------------
\* The connection and the sockets.

\* 0 is no socket; `usable`: the factory does not throw; `done`: is each
\* request new, pending, or over (answered, rejected or timed out)?  `written` is
\* what a handler sent (none changes the socket after it sent something),
\* `opened` and `dropped` the sockets it made and closed: the step that runs it
\* hands them to the platform.
ClientInit ==
    [socket |-> 0, next |-> 1, status |-> "connecting", ready |-> FALSE,
     timer |-> FALSE, watchdog |-> FALSE, authWaits |-> FALSE, waiters |-> {}, outbox |-> <<>>,
     done |-> [k \in Request |-> "new"], queue |-> <<>>, wake |-> FALSE,
     usable |-> TRUE, written |-> <<>>, opened |-> {}, dropped |-> {}]

Frame(kind, of) == [kind |-> kind, of |-> of]

\* write(frame): goes to whatever socket is current.
write(d, frame) ==
    IF d.socket = 0 THEN d ELSE [d EXCEPT !.written = Append(@, frame)]

\* The results a queue has room for: the oldest make room.
Newest(q) ==
    IF Len(q) <= MaxStreamQueue THEN q ELSE SubSeq(q, Len(q) - MaxStreamQueue + 1, Len(q))

\* pushResult: the result is queued and the reader woken.
pushResult(d, k) == [d EXCEPT !.queue = Newest(Append(@, k)), !.wake = TRUE]

\* waiter.lost(error) of each request in `ks`: a streamed one is a result.  (A
\* unary one also leaves the outbox, but failSent calls this for requests that
\* are not in it, and stop clears it.)
Fail(d, ks) ==
    LET streams == ks \cap Stream
    IN  [d EXCEPT !.waiters = @ \ ks,
                  !.done = [k \in Request |-> IF k \in ks THEN "over" ELSE @[k]],
                  !.queue = IF streams = {} THEN @ ELSE Newest(@ \o SetToSeq(streams)),
                  !.wake = @ \/ streams # {}]

\* failSent: what was sent on the lost socket fails, what is queued stays.
failSent(d) ==
    Fail([d EXCEPT !.authWaits = FALSE], d.waiters \ ToSet(d.outbox))

\* The current socket is detached and closed, with what was sent on it.
drop(d) ==
    failSent([d EXCEPT !.socket = 0, !.ready = FALSE, !.watchdog = FALSE,
                       !.dropped = @ \cup ({d.socket} \ {0})])

\* Everyone who waits is told that the connection is closed.
FailAll(d) == [Fail(d, d.waiters) EXCEPT !.outbox = <<>>, !.wake = TRUE]

\* A new socket, unless the factory throws: then it is tried again later.
Connect(d) ==
    IF d.usable THEN [d EXCEPT !.socket = d.next, !.next = @ + 1, !.opened = @ \cup {d.next}]
    ELSE [d EXCEPT !.usable = TRUE, !.timer = TRUE]

\* What the application does in onStatus: pause, resume or close.
callback(d, does) ==
    LET told(s) == [d EXCEPT !.timer = FALSE, !.status = s]
    IN  CASE does = "pause" /\ d.status # "closed" -> drop(told("paused"))
          [] does = "resume" /\ d.status \in {"connecting", "paused"} /\ d.socket = 0 ->
                Connect([told("connecting") EXCEPT !.ready = FALSE])
          [] does = "close" -> FailAll(drop(told("closed")))
          [] OTHER -> d

setStatus(d, s) ==
    IF d.status = s THEN d
    ELSE callback([d EXCEPT !.status = s], OnStatus[s])

scheduleReconnect(d) == [setStatus(d, "connecting") EXCEPT !.timer = TRUE]

\* stop: disconnect('closed'), whose `lost` finds the connection closed; then
\* everyone who waits is told, and the reader is woken.
stop(d) == FailAll(drop(setStatus([d EXCEPT !.timer = FALSE], "closed")))

\* lost(code): drops the current socket and decides what happens next.
lost(d, terminal) ==
    LET e == drop(d)
    IN  IF e.status \in {"paused", "closed"} THEN e
        ELSE IF ~ Reconnect \/ terminal THEN stop(e)
        ELSE scheduleReconnect(e)

\* Mutant: the reconnect timer outlives the disconnect.
TimerKept(d, s) == lost(setStatus(d, s), FALSE)

disconnect(d, s) == lost(setStatus([d EXCEPT !.timer = FALSE], s), FALSE)

\* open: a factory that throws is tried again later.
open(d) ==
    LET e == [setStatus([d EXCEPT !.timer = FALSE], "connecting")
                 EXCEPT !.ready = FALSE]
    IN  IF e.usable THEN Connect(e) ELSE scheduleReconnect([e EXCEPT !.usable = TRUE])

\* resume(): `silent` is how long the open socket has been quiet.
resume(d, silent) ==
    CASE d.status = "closed" -> d
      [] d.status = "open" -> IF silent = 0 THEN d ELSE open(lost(d, FALSE))
      [] OTHER -> IF d.socket # 0 THEN d ELSE open(d)

\* The outbox is sent in the order it was filled.
flush(d) ==
    LET frames == [i \in 1 .. Len(d.outbox) |-> Frame("call", d.outbox[i])]
    IN  IF d.socket = 0 THEN [d EXCEPT !.outbox = <<>>]
        ELSE [d EXCEPT !.written = @ \o frames, !.outbox = <<>>]

\* becomeReady: the callback, the resubscriptions, then the outbox.  (What the
\* application does in onReconnect, which comes last, is as good as a step of
\* its own right after.)
becomeReady(d) ==
    LET e == setStatus([d EXCEPT !.ready = TRUE], "open")
        resubscribed == IF e.ready THEN write(e, Frame("subscribe", 0)) ELSE e
    IN  flush(resubscribed)

\* request('auth', ...)
requestAuth(d) == write([d EXCEPT !.authWaits = TRUE], Frame("auth", 0))

\* enqueue: sent now when authenticated, else on ready.
enqueue(d, k) ==
    IF d.ready /\ d.socket # 0 THEN write(d, Frame("call", k))
    ELSE [d EXCEPT !.outbox = Append(@, k)]

-----------------------------------------------------------------------------
\* Steps.  RunOn(s, n, d): the platform made n of socket s, and its handler
\* ended with the connection d.  What the handler wrote arrives if its socket is
\* open: a send on one that is not yet, or no longer, open throws or is
\* discarded, and the code swallows that.

RunOn(s, n, d) ==
    LET now == [net EXCEPT ![s] = n]
        arrived == IF d.socket # 0 /\ now[d.socket] = "open" THEN d.written ELSE <<>>
    IN  /\ c' = [d EXCEPT !.written = <<>>, !.opened = {}, !.dropped = {}]
        /\ net' = [t \in SocketId |-> IF t \in d.dropped THEN "closed"
                                      ELSE IF t \in d.opened THEN "connecting"
                                      ELSE now[t]]
        /\ wire' = (IF d.socket = c.socket THEN wire ELSE <<>>) \o arrived
        /\ sent' = [k \in Request |->
                      sent[k] + Cardinality({i \in DOMAIN arrived : arrived[i] = Frame("call", k)})]

Run(d) == RunOn(1, net[1], d)

\* connectSocket: the connection starts to connect.
Init ==
    /\ c = [ClientInit EXCEPT !.socket = 1, !.next = 2]
    /\ net = [s \in SocketId |-> IF s = 1 THEN "connecting" ELSE "none"]
    /\ wire = <<>> /\ sent = [k \in Request |-> 0]
    /\ asking = {} /\ handling = {}
    /\ quiet = 0
    /\ reader = "idle"
    /\ troubles = 0 /\ hints = 0 /\ clientCalls = 0

counters == <<troubles, hints, clientCalls>>
Trouble == troubles < MaxTroubles /\ troubles' = troubles + 1

\* Mutant: the watchdog is not started.
OpenedUnwatched(s) ==
    /\ net[s] = "connecting" /\ s = c.socket
    /\ quiet' = 0
    /\ IF Auth
       THEN RunOn(s, "open", c) /\ asking' = asking \cup {s}
       ELSE RunOn(s, "open", becomeReady(c)) /\ UNCHANGED asking
    /\ UNCHANGED <<handling, reader, counters>>

\* onopen: the watchdog starts, and the credentials are asked for.
Opened(s) ==
    /\ net[s] = "connecting" /\ s = c.socket
    /\ quiet' = 0
    /\ LET d == [c EXCEPT !.watchdog = TRUE]
       IN  IF Auth
           THEN RunOn(s, "open", d) /\ asking' = asking \cup {s}
           ELSE RunOn(s, "open", becomeReady(d)) /\ UNCHANGED asking
    /\ UNCHANGED <<handling, reader, counters>>

\* opts.auth() answers: the credentials are sent, on the socket they are for.
Credentials(s) ==
    /\ s \in asking /\ asking' = asking \ {s}
    /\ Run(IF c.socket = s THEN requestAuth(c) ELSE c)
    /\ UNCHANGED <<handling, quiet, reader, counters>>

\* opts.auth() throws.
CredentialsFail(s) ==
    /\ s \in asking /\ asking' = asking \ {s}
    /\ Trouble
    /\ Run(IF c.socket = s THEN lost(c, FALSE) ELSE c)
    /\ UNCHANGED <<handling, quiet, reader, hints, clientCalls>>

\* A message can still be delivered on the current socket.
Inbound == c.socket # 0 /\ net[c.socket] \in {"open", "closing"}
Hears == Inbound /\ quiet' = 0

\* The server answers the auth frame: ok; 401 or 403; any other error.
AuthOk ==
    /\ Hears /\ c.authWaits
    /\ Run(becomeReady([c EXCEPT !.authWaits = FALSE]))
    /\ UNCHANGED <<asking, handling, reader, counters>>

AuthRefused ==
    /\ Hears /\ c.authWaits
    /\ Trouble
    /\ \E final \in BOOLEAN :
          LET d == [c EXCEPT !.authWaits = FALSE]
          IN  Run(IF final THEN stop(d) ELSE lost(d, FALSE))
    /\ UNCHANGED <<asking, handling, reader, hints, clientCalls>>

\* The server got request k on the current socket and answers it.
Received(k) == Inbound /\ Frame("call", k) \in ToSet(wire)

\* handleFrame 'result': a final one ends the wait.
Result(k) ==
    /\ Received(k) /\ quiet' = 0
    /\ LET d == IF k \notin c.waiters THEN c
                ELSE [c EXCEPT !.waiters = @ \ {k}, !.done[k] = "over"]
       IN  Run(IF k \in c.waiters \cap Stream THEN pushResult(d, k) ELSE d)
    /\ UNCHANGED <<asking, handling, reader, counters>>

\* A stream item (`more`) keeps the waiter; `end` just forgets it.
Item(k) ==
    /\ Received(k) /\ quiet' = 0 /\ k \in Stream
    /\ Run(IF k \in c.waiters THEN pushResult(c, k) ELSE c)
    /\ UNCHANGED <<asking, handling, reader, counters>>

EndFrame(k) ==
    /\ Received(k) /\ quiet' = 0 /\ k \in Stream
    /\ Run(IF k \in c.waiters
           THEN [c EXCEPT !.waiters = @ \ {k}, !.done[k] = "over"] ELSE c)
    /\ UNCHANGED <<asking, handling, reader, counters>>

\* handleFrame 'client_call' and 'ping'.  A missing handler answers at once,
\* which is a handler that ends at once.
ClientCall ==
    /\ Hears /\ c.ready
    /\ clientCalls < MaxClientCalls /\ clientCalls' = clientCalls + 1
    /\ c.socket \notin handling
    /\ handling' = handling \cup {c.socket}
    /\ UNCHANGED <<c, net, wire, sent, asking, reader, troubles, hints>>

\* onClientCall after its await: the answer, whatever it is, is written.
HandlerDone(s) ==
    /\ s \in handling /\ handling' = handling \ {s}
    /\ Run(write(c, Frame("client_result", s)))
    /\ UNCHANGED <<asking, quiet, reader, counters>>

\* The pong says nothing here: the answer counts for the server's idle timer.
Ping ==
    /\ Hears /\ c.ready /\ quiet > 0
    /\ UNCHANGED <<c, net, wire, sent, asking, handling, reader, counters>>

-----------------------------------------------------------------------------
\* What goes wrong.

\* The server or the network ends the socket; onclose comes later.
Breaks(s) ==
    /\ net[s] \in {"connecting", "open"}
    /\ Trouble
    /\ net' = [net EXCEPT ![s] = "closing"]
    /\ UNCHANGED <<c, wire, sent, asking, handling, quiet, reader, hints, clientCalls>>

\* onclose, with a code after which reconnecting may or may not help.
CloseEvent(s) ==
    /\ net[s] = "closing"
    /\ \E terminal \in BOOLEAN :
          RunOn(s, "closed", IF c.socket = s THEN lost(c, terminal) ELSE c)
    /\ UNCHANGED <<asking, handling, quiet, reader, counters>>

\* The peer of an open socket is gone and nothing says so.
DiesSilently(s) ==
    /\ net[s] = "open"
    /\ Trouble
    /\ net' = [net EXCEPT ![s] = "dead"]
    /\ UNCHANGED <<c, wire, sent, asking, handling, quiet, reader, hints, clientCalls>>

\* No frame for a while (a live server pings, at the latest when half is over).
Quieten ==
    /\ quiet < 2 /\ c.watchdog
    /\ quiet = 1 => net[c.socket] # "open"
    /\ quiet' = quiet + 1
    /\ UNCHANGED <<c, net, wire, sent, asking, handling, reader, counters>>

\* The next use of the factory will throw.
FactoryBreaks ==
    /\ Trouble /\ c.usable
    /\ c' = [c EXCEPT !.usable = FALSE]
    /\ UNCHANGED <<net, wire, sent, asking, handling, quiet, reader, hints,
                   clientCalls>>

-----------------------------------------------------------------------------
\* Timers and the application.

CheckLiveness ==
    /\ c.watchdog /\ c.socket # 0 /\ quiet = 2
    /\ Run(lost(c, FALSE))
    /\ UNCHANGED <<asking, handling, quiet, reader, counters>>

SocketsLeft == c.next \in SocketId

ReconnectTimer ==
    /\ c.timer /\ SocketsLeft
    /\ Run(open(c))
    /\ UNCHANGED <<asking, handling, quiet, reader, counters>>

\* call and send.  (A call frame over maxFrameBytes is rejected before any of
\* this.)
Make(k) ==
    /\ c.done[k] = "new"
    /\ Run(IF c.status = "closed" THEN [c EXCEPT !.done[k] = "over"]
           ELSE enqueue([c EXCEPT !.done[k] = "pending", !.waiters = @ \cup {k}], k))
    /\ UNCHANGED <<asking, handling, quiet, reader, counters>>

\* Mutant: a call that timed out is still sent on the next connect.
TimeOutQueued(k) ==
    /\ k \in Call /\ c.done[k] = "pending"
    /\ Run([c EXCEPT !.waiters = @ \ {k}, !.done[k] = "over"])
    /\ UNCHANGED <<asking, handling, quiet, reader, counters>>

\* A queue of different requests, without k.
Without(q, k) ==
    IF k \notin ToSet(q) THEN q
    ELSE LET at == CHOOSE i \in DOMAIN q : q[i] = k
         IN  [i \in 1 .. Len(q) - 1 |-> IF i < at THEN q[i] ELSE q[i + 1]]

\* The timer of a unary call.
TimeOut(k) ==
    /\ k \in Call /\ c.done[k] = "pending"
    /\ Run([c EXCEPT !.waiters = @ \ {k}, !.done[k] = "over",
                     !.outbox = Without(@, k)])
    /\ UNCHANGED <<asking, handling, quiet, reader, counters>>

Hint == hints < MaxHints /\ hints' = hints + 1

Pause ==
    /\ Hint /\ SocketsLeft /\ c.status # "closed"
    /\ Run(disconnect(c, "paused"))
    /\ UNCHANGED <<asking, handling, quiet, reader, troubles,
                   clientCalls>>

Resume ==
    /\ Hint /\ SocketsLeft
    /\ Run(resume(c, quiet))
    /\ UNCHANGED <<asking, handling, quiet, reader, troubles,
                   clientCalls>>

Close ==
    /\ Hint
    /\ Run(stop(c))
    /\ UNCHANGED <<asking, handling, quiet, reader, troubles,
                   clientCalls>>

\* gen: yields what is queued, ends when closed, else waits to be woken.
gen ==
    CASE reader = "idle" /\ c.queue # <<>> ->
            c' = [c EXCEPT !.queue = Tail(@)] /\ UNCHANGED reader
      [] reader = "idle" /\ c.queue = <<>> ->
            IF c.status = "closed" THEN UNCHANGED c /\ reader' = "done"
            ELSE c' = [c EXCEPT !.wake = FALSE] /\ reader' = "waiting"
      [] reader = "waiting" /\ c.wake -> UNCHANGED c /\ reader' = "idle"
      [] OTHER -> FALSE

Read ==
    /\ gen
    /\ UNCHANGED <<net, wire, sent, asking, handling, quiet, counters>>

-----------------------------------------------------------------------------
Next ==
    \/ \E s \in SocketId :
          \/ Opened(s) \/ Credentials(s) \/ CredentialsFail(s)
          \/ Breaks(s) \/ CloseEvent(s) \/ DiesSilently(s) \/ HandlerDone(s)
    \/ AuthOk \/ AuthRefused
    \/ \E k \in Request :
          Result(k) \/ Item(k) \/ EndFrame(k) \/ Make(k) \/ TimeOut(k)
    \/ ClientCall \/ Ping \/ Quieten \/ FactoryBreaks
    \/ CheckLiveness \/ ReconnectTimer
    \/ Pause \/ Resume \/ Close \/ Read

Spec == Init /\ [][Next]_vars

\* What moves the current socket on: timers fire, promises are continued, the
\* platform reports the end of a socket; and, when nothing more goes wrong,
\* sockets open and auth frames are answered.
Progress ==
    \/ ReconnectTimer
    \/ /\ c.socket # 0
       /\ \/ Opened(c.socket) \/ Credentials(c.socket) \/ CloseEvent(c.socket)
          \/ AuthOk \/ CheckLiveness
          \/ net[c.socket] = "dead" /\ Quieten

Fairness == WF_vars(Progress)

LiveSpec == Spec /\ Fairness

-----------------------------------------------------------------------------
(* Properties                                                              *)

\* A connection that says "connecting" has a socket or a timer to get further
\* with; one that is paused or closed has neither; and no socket is left open
\* behind the current one, whatever order onclose, the watchdog, the timer, the
\* late credentials and the application's pause, resume and close come in.
Anchored ==
    /\ c.status = "connecting" => (c.socket # 0) # c.timer
    /\ c.status = "open" => c.socket # 0 /\ c.ready /\ ~ c.timer
    /\ c.status \in {"paused", "closed"} => c.socket = 0 /\ ~ c.timer
    /\ \A s \in SocketId :
          net[s] \in {"connecting", "open", "dead"} => s = c.socket

\* A request that was made and not answered is either queued for the next
\* connect, or was sent on the current socket, whose end fails it: none is
\* forgotten by both, and none reaches the server twice, however often the
\* connection is lost.  A queued one still has someone waiting for it, and a
\* reader that waits without having been woken has nothing to read.
CallsTracked ==
    /\ ToSet(c.outbox) \subseteq c.waiters
    /\ c.waiters = {k \in Request : c.done[k] = "pending"}
    /\ \A k \in c.waiters \ ToSet(c.outbox) :
          /\ c.socket # 0
          /\ Frame("call", k) \in ToSet(wire) \/ net[c.socket] # "open"
    /\ \A k \in Request : sent[k] <= 1
    /\ reader = "waiting" /\ ~ c.wake => c.queue = <<>> /\ c.status # "closed"

\* On a connection with credentials the server gets no call and no subscription
\* before the auth frame, and one auth frame.
CallsAfterAuth ==
    Auth =>
      /\ \A i, j \in DOMAIN wire : wire[i].kind = "auth" /\ wire[j].kind = "auth" => i = j
      /\ \A i \in DOMAIN wire :
            wire[i].kind \in {"call", "subscribe"} =>
               \E j \in 1 .. i - 1 : wire[j].kind = "auth"

\* Requests and the server: each is tracked until it is answered, reaches the
\* server at most once, and never before the login.
RequestsExact == CallsTracked /\ CallsAfterAuth

\* close() and a refused login close the connection for good.  It does not hold
\* when the application closes in onStatus (the README tells how; no run checks
\* it).
ClosedForGood == [][c.status = "closed" => c'.status = "closed"]_vars

\* A connection never stays connecting: once the troubles stop it opens, unless
\* the application pauses or closes it.
Recovers == c.status = "connecting" ~> c.status # "connecting"

\* A client_result answers a call of the server's session it is sent to.  It
\* does not hold across a reconnect (the README tells how; no run checks it).
ResultsGoHome ==
    \A i \in DOMAIN wire :
       wire[i].kind = "client_result" => wire[i].of = c.socket

=============================================================================

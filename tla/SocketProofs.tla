---------------------------- MODULE SocketProofs ----------------------------
(***************************************************************************)
(* Proofs about Socket: a connection always has something to get further   *)
(* with and never two sockets, and every request is tracked until it is    *)
(* answered and reaches the server at most once, after the login.  For any *)
(* number of requests, sockets, troubles and client calls.                 *)
(***************************************************************************)
EXTENDS Socket, SequenceTheorems, FiniteSetTheorems, TLAPS

-----------------------------------------------------------------------------
(* The invariant                                                           *)

FrameType == [kind : {"auth", "call", "subscribe", "client_result"}, of : Request \cup Nat]

ConnType ==
    [socket : 0 .. MaxSockets, next : 1 .. MaxSockets + 1, status : Status, ready : BOOLEAN,
     timer : BOOLEAN, watchdog : BOOLEAN, authWaits : BOOLEAN, waiters : SUBSET Request,
     outbox : Seq(Request), done : [Request -> {"new", "pending", "over"}],
     queue : Seq(Request), wake : BOOLEAN, usable : BOOLEAN,
     written : Seq(FrameType), opened : SUBSET SocketId, dropped : SUBSET SocketId]

NetState == {"none", "connecting", "open", "closing", "dead", "closed"}

SocketTypeOK ==
    /\ c \in ConnType
    /\ net \in [SocketId -> NetState]
    /\ wire \in Seq(FrameType)
    /\ sent \in [Request -> Nat]
    /\ asking \in SUBSET SocketId /\ handling \in SUBSET SocketId
    /\ quiet \in 0 .. 2
    /\ reader \in {"idle", "waiting", "done"}

Distinct(q) == \A i, j \in DOMAIN q : q[i] = q[j] => i = j

(* The requests of a connection d: those that wait are in the outbox until *)
(* the connection is ready, and on the socket afterwards.                  *)
Requests(d) ==
    /\ Distinct(d.outbox)
    /\ ToSet(d.outbox) \subseteq d.waiters
    /\ d.waiters = {k \in Request : d.done[k] = "pending"} /\ IsFiniteSet(d.waiters)
    /\ ~ d.ready => d.waiters \subseteq ToSet(d.outbox)
    /\ d.ready => d.outbox = <<>>
    /\ d.status = "closed" => d.waiters = {}

(* What drives a connection d in each status.                              *)
Driven(d) ==
    /\ d.ready <=> d.status = "open"
    /\ d.authWaits => d.socket # 0
    /\ d.status = "connecting" => (d.socket # 0) # d.timer
    /\ d.status = "open" => d.socket # 0 /\ ~ d.timer
    /\ d.status \in {"paused", "closed"} => d.socket = 0 /\ ~ d.timer

(* A connection between two handlers.                                      *)
Settled(d) ==
    /\ d \in ConnType /\ Requests(d) /\ Driven(d)
    /\ d.socket < d.next

AtRest(d) == d.written = <<>> /\ d.opened = {} /\ d.dropped = {}

(* The sockets: ids are used once, and only the current one is alive.      *)
Sockets ==
    /\ \A s \in SocketId : s >= c.next => net[s] = "none"
    /\ \A s \in SocketId : net[s] \in {"connecting", "open", "dead"} => s = c.socket
    /\ \A s \in asking : s < c.next /\ Auth /\ net[s] # "connecting"
    /\ \A s \in SocketId : s = c.socket /\ (net[s] = "connecting" \/ s \in asking) =>
         /\ ~ c.ready /\ ~ c.authWaits
         /\ \A i \in DOMAIN wire : wire[i].kind = "client_result"

(* What the server has got on the current socket.                          *)
OnWire ==
    /\ c.socket = 0 => wire = <<>>
    /\ Auth /\ c.socket # 0 /\ (c.ready \/ c.authWaits) /\ net[c.socket] = "open" =>
         \E i \in DOMAIN wire : wire[i].kind = "auth"
    /\ \A k \in c.waiters \ ToSet(c.outbox) :
         c.socket # 0 /\ (Frame("call", k) \in ToSet(wire) \/ net[c.socket] # "open")
    /\ \A k \in Request : sent[k] <= 1 /\ (c.done[k] = "new" \/ k \in ToSet(c.outbox) => sent[k] = 0)
    /\ \A k \in Request : Frame("call", k) \in ToSet(wire) => sent[k] # 0
    /\ CallsAfterAuth

Reading == reader = "waiting" /\ ~ c.wake => c.queue = <<>> /\ c.status # "closed"

SocketInv ==
    /\ SocketTypeOK
    /\ Settled(c) /\ AtRest(c)
    /\ Sockets /\ OnWire /\ Reading

-----------------------------------------------------------------------------
(* Constants, sequences and records                                        *)

LEMMA Constants ==
  /\ MaxSockets \in Nat /\ MaxSockets >= 1 /\ MaxStreamQueue \in Nat /\ MaxStreamQueue >= 1
  /\ 1 \in SocketId /\ SocketId \subseteq Nat /\ 0 \notin SocketId
  /\ \A s \in 0 .. MaxSockets : s # 0 => s \in SocketId
  /\ Call \subseteq Request /\ Stream \subseteq Request
  BY SocketAssumption DEF SocketId, Request

LEMMA ConnFields ==
  ASSUME NEW d \in ConnType
  PROVE  /\ d.socket \in 0 .. MaxSockets /\ d.next \in 1 .. MaxSockets + 1 /\ d.status \in Status
         /\ d.ready \in BOOLEAN /\ d.timer \in BOOLEAN /\ d.watchdog \in BOOLEAN
         /\ d.authWaits \in BOOLEAN /\ d.waiters \in SUBSET Request
         /\ d.outbox \in Seq(Request) /\ d.done \in [Request -> {"new", "pending", "over"}]
         /\ d.queue \in Seq(Request) /\ d.wake \in BOOLEAN /\ d.usable \in BOOLEAN
         /\ d.written \in Seq(FrameType)
         /\ d.opened \in SUBSET SocketId /\ d.dropped \in SUBSET SocketId
  BY DEF ConnType

LEMMA FrameFacts ==
  ASSUME NEW kind \in {"auth", "call", "subscribe", "client_result"}, NEW of \in Request \cup Nat
  PROVE  /\ Frame(kind, of) \in FrameType
         /\ Frame(kind, of).kind = kind /\ Frame(kind, of).of = of
  BY DEF Frame, FrameType

\* The frames of two sequences, one after the other.
LEMMA ConcatAt ==
  ASSUME NEW S, NEW p \in Seq(S), NEW q \in Seq(S)
  PROVE  /\ p \o q \in Seq(S)
         /\ Len(p) \in Nat /\ Len(q) \in Nat
         /\ DOMAIN p = 1 .. Len(p) /\ DOMAIN q = 1 .. Len(q)
         /\ DOMAIN (p \o q) = 1 .. Len(p) + Len(q)
         /\ \A i \in 1 .. Len(p) : (p \o q)[i] = p[i]
         /\ \A i \in 1 .. Len(q) : (p \o q)[Len(p) + i] = q[i]
         /\ \A i \in 1 .. Len(p) + Len(q) :
              i \in 1 .. Len(p) \/ (i - Len(p) \in 1 .. Len(q) /\ (p \o q)[i] = q[i - Len(p)])
  OBVIOUS

LEMMA InSeq ==
  ASSUME NEW S, NEW q \in Seq(S), NEW x
  PROVE  x \in ToSet(q) <=> \E i \in DOMAIN q : q[i] = x
  BY DEF ToSet

\* Two requests have different frames.
LEMMA CallFrames ==
  ASSUME NEW k \in Request, NEW j \in Request
  PROVE  /\ Frame("call", k) \in FrameType /\ Frame("call", k).kind = "call"
         /\ Frame("call", k) = Frame("call", j) => k = j
  BY DEF Frame, FrameType

-----------------------------------------------------------------------------
(* Handlers that leave the socket                                          *)

\* Who reads is woken when there is something to read.
Woken(b, d) ==
    /\ b.wake => d.wake
    /\ d.queue # b.queue => d.wake
    /\ d.status = "closed" /\ b.status # "closed" => d.wake

\* A handler took the connection from b to d and dropped its socket, if it had
\* one; it may have opened the next.
Replaced(b, d) ==
    /\ Settled(d) /\ d.written = <<>>
    /\ ~ d.ready /\ ~ d.authWaits
    /\ d.dropped = {b.socket} \ {0}
    /\ d.socket # b.socket \/ d.socket = 0
    /\ \/ d.socket = 0 /\ d.opened = {} /\ d.next = b.next
       \/ d.socket = b.next /\ d.opened = {b.next} /\ d.next = b.next + 1
    /\ ToSet(d.outbox) \subseteq ToSet(b.outbox)
    /\ \A k \in Request : d.done[k] = "new" => b.done[k] = "new"
    /\ Woken(b, d)

\* What the platform may report of a socket to a handler.
NetMove(s, n) ==
    \/ n = net[s]
    \/ n = "closed" /\ net[s] = "closing"
    \/ n = "open" /\ net[s] = "connecting" /\ s = c.socket

LEMMA Tidied ==
  ASSUME NEW d, Settled(d)
  PROVE  LET e == [d EXCEPT !.written = <<>>, !.opened = {}, !.dropped = {}]
         IN  /\ Settled(e) /\ AtRest(e)
             /\ e.socket = d.socket /\ e.next = d.next /\ e.status = d.status /\ e.ready = d.ready
             /\ e.timer = d.timer /\ e.authWaits = d.authWaits /\ e.waiters = d.waiters
             /\ e.outbox = d.outbox /\ e.done = d.done /\ e.queue = d.queue /\ e.wake = d.wake
             /\ e.watchdog = d.watchdog /\ e.usable = d.usable
  <1> DEFINE e == [d EXCEPT !.written = <<>>, !.opened = {}, !.dropped = {}]
  <1>1. d \in ConnType
    BY DEF Settled
  <1>2. e \in ConnType /\ AtRest(e)
    <2>1. ASSUME NEW w \in Seq(FrameType)
          PROVE  /\ [d EXCEPT !.written = w, !.opened = {}, !.dropped = {}] \in ConnType
                 /\ [d EXCEPT !.written = w, !.opened = {}, !.dropped = {}].written = w
      BY <1>1 DEF ConnType
    <2>2. <<>> \in Seq(FrameType)
      OBVIOUS
    <2>3. e \in ConnType /\ e.written = <<>>
      BY <2>1, <2>2
    <2>4. e.opened = {} /\ e.dropped = {}
      BY <1>1 DEF ConnType
    <2> QED
      BY <2>3, <2>4 DEF AtRest
  <1>3. /\ e.socket = d.socket /\ e.next = d.next /\ e.status = d.status /\ e.ready = d.ready
        /\ e.timer = d.timer /\ e.authWaits = d.authWaits /\ e.waiters = d.waiters
        /\ e.outbox = d.outbox /\ e.done = d.done /\ e.queue = d.queue /\ e.wake = d.wake
        /\ e.watchdog = d.watchdog /\ e.usable = d.usable
    BY <1>1 DEF ConnType
  <1> HIDE DEF e
  <1>4. Settled(e)
    BY <1>2, <1>3 DEF Settled, Requests, Driven
  <1> QED
    BY <1>2, <1>3, <1>4 DEF e

LEMMA RunType ==
  ASSUME SocketInv, NEW s \in SocketId, NEW n \in NetState, NEW d, Settled(d), RunOn(s, n, d)
  PROVE  /\ Settled(c') /\ AtRest(c') /\ c' \in ConnType
         /\ c'.socket = d.socket /\ c'.next = d.next /\ c'.status = d.status /\ c'.ready = d.ready
         /\ c'.timer = d.timer /\ c'.authWaits = d.authWaits /\ c'.waiters = d.waiters
         /\ c'.outbox = d.outbox /\ c'.done = d.done /\ c'.queue = d.queue /\ c'.wake = d.wake
         /\ net' \in [SocketId -> NetState]
         /\ \A t \in SocketId : net'[t] = IF t \in d.dropped THEN "closed"
                                          ELSE IF t \in d.opened THEN "connecting"
                                          ELSE IF t = s THEN n ELSE net[t]
  <1>1. c' = [d EXCEPT !.written = <<>>, !.opened = {}, !.dropped = {}]
    BY DEF RunOn
  <1>2. /\ Settled(c') /\ AtRest(c')
        /\ c'.socket = d.socket /\ c'.next = d.next /\ c'.status = d.status /\ c'.ready = d.ready
        /\ c'.timer = d.timer /\ c'.authWaits = d.authWaits /\ c'.waiters = d.waiters
        /\ c'.outbox = d.outbox /\ c'.done = d.done /\ c'.queue = d.queue /\ c'.wake = d.wake
    BY <1>1, Tidied
  <1>3. net \in [SocketId -> NetState]
    BY DEF SocketInv, SocketTypeOK
  <1>4. net' = [t \in SocketId |-> IF t \in d.dropped THEN "closed"
                                   ELSE IF t \in d.opened THEN "connecting"
                                   ELSE [net EXCEPT ![s] = n][t]]
    BY DEF RunOn
  <1>5. \A t \in SocketId : [net EXCEPT ![s] = n][t] = IF t = s THEN n ELSE net[t]
    BY <1>3
  <1>6. {"closed", "connecting"} \subseteq NetState
    BY DEF NetState
  <1> QED
    BY <1>2, <1>3, <1>4, <1>5, <1>6 DEF Settled

\* After a handler that left the socket, nothing is on the wire and nothing was
\* sent; whatever waits is in the outbox.
LEMMA ReplacedInv ==
  ASSUME SocketInv, NEW s \in SocketId, NEW n \in NetState, NetMove(s, n),
         NEW d, Replaced(c, d), RunOn(s, n, d),
         asking' \subseteq asking, handling' \in SUBSET SocketId, quiet' \in 0 .. 2, UNCHANGED reader
  PROVE  SocketInv'
  <1> USE DEF SocketInv
  <1>1. Settled(d) /\ d \in ConnType /\ c \in ConnType /\ Settled(c)
    BY DEF Replaced, Settled
  <1>2. /\ Settled(c') /\ AtRest(c') /\ c' \in ConnType
        /\ c'.socket = d.socket /\ c'.next = d.next /\ c'.status = d.status /\ c'.ready = d.ready
        /\ c'.timer = d.timer /\ c'.authWaits = d.authWaits /\ c'.waiters = d.waiters
        /\ c'.outbox = d.outbox /\ c'.done = d.done /\ c'.queue = d.queue /\ c'.wake = d.wake
        /\ net' \in [SocketId -> NetState]
        /\ \A t \in SocketId : net'[t] = IF t \in d.dropped THEN "closed"
                                         ELSE IF t \in d.opened THEN "connecting"
                                         ELSE IF t = s THEN n ELSE net[t]
    BY <1>1, RunType
  <1>3. c.socket \in 0 .. MaxSockets /\ d.socket \in 0 .. MaxSockets /\ c.socket < c.next /\ d.socket < d.next
        /\ c.next \in Nat /\ d.next \in Nat
    BY <1>1, ConnFields, Constants DEF Settled
  <1>4. wire' = <<>> /\ sent' = sent
    <2> DEFINE now == [net EXCEPT ![s] = n]
               arrived == IF d.socket # 0 /\ now[d.socket] = "open" THEN d.written ELSE <<>>
    <2>1. arrived = <<>>
      BY DEF Replaced
    <2>2. /\ wire' = (IF d.socket = c.socket THEN wire ELSE <<>>) \o arrived
          /\ sent' = [k \in Request |->
                        sent[k] + Cardinality({i \in DOMAIN arrived : arrived[i] = Frame("call", k)})]
      BY DEF RunOn
    <2> HIDE DEF arrived
    <2>3. d.socket = c.socket => wire = <<>>
      BY DEF Replaced, OnWire
    <2>4. wire' = <<>>
      BY <2>1, <2>2, <2>3
    <2>5. \A k : Cardinality({i \in DOMAIN arrived : arrived[i] = Frame("call", k)}) = 0
      <3> TAKE k
      <3>1. {i \in DOMAIN arrived : arrived[i] = Frame("call", k)} = {}
        BY <2>1
      <3> QED
        BY <3>1, FS_EmptySet
    <2>6. sent \in [Request -> Nat]
      BY DEF SocketTypeOK
    <2> DEFINE count(k) == Cardinality({i \in DOMAIN arrived : arrived[i] = Frame("call", k)})
    <2>7. sent' = [k \in Request |-> sent[k] + count(k)] /\ \A k : count(k) = 0
      BY <2>2, <2>5
    <2> HIDE DEF count
    <2>8. sent' = [k \in Request |-> sent[k]]
      BY <2>6, <2>7
    <2> QED
      BY <2>4, <2>6, <2>8
  <1>5. SocketTypeOK'
    <2>1. <<>> \in Seq(FrameType)
      OBVIOUS
    <2> QED
      BY <1>2, <1>4, <2>1 DEF SocketTypeOK
  <1>6. ASSUME NEW t \in SocketId, net'[t] \in {"connecting", "open", "dead"} PROVE t = d.socket
    <2>1. t \notin d.dropped
      BY <1>2, <1>6
    <2>2. CASE t \in d.opened
      BY <2>2 DEF Replaced
    <2>3. CASE t \notin d.opened
      <3>1. (IF t = s THEN n ELSE net[t]) \in {"connecting", "open", "dead"}
        BY <1>2, <1>6, <2>1, <2>3
      <3>2. t = c.socket
        BY <3>1 DEF NetMove, Sockets
      <3> QED
        BY <2>1, <3>2, Constants DEF Replaced
    <2> QED
      BY <2>2, <2>3
  <1>7. ASSUME NEW t \in SocketId, t >= d.next PROVE net'[t] = "none"
    <2>1. t \in Nat /\ t >= c.next /\ t # c.socket
      BY <1>3, <1>7, Constants DEF Replaced
    <2>2. net[t] = "none" /\ t \notin d.dropped
      BY <2>1 DEF Sockets, Replaced
    <2>3. t \notin d.opened
      BY <1>3, <1>7, <2>1 DEF Replaced
    <2>4. t = s => n = "none"
      BY <2>1, <2>2 DEF NetMove
    <2> QED
      BY <1>2, <2>2, <2>3, <2>4
  <1>8. ASSUME NEW t \in asking' PROVE t < d.next /\ Auth /\ net'[t] # "connecting"
    <2>1. c.next <= d.next
      BY <1>3 DEF Replaced
    <2>2. t \in SocketId /\ t \in Nat /\ t < c.next /\ Auth /\ net[t] # "connecting"
      BY <1>8, Constants DEF Sockets, SocketTypeOK
    <2>3. t \notin d.opened
      BY <1>3, <2>2 DEF Replaced
    <2>4. net'[t] # "connecting"
      BY <1>2, <2>2, <2>3 DEF NetMove
    <2> QED
      BY <1>3, <2>1, <2>2, <2>4
  <1>9. Sockets'
    <2>1. ~ c'.ready /\ ~ c'.authWaits /\ \A i \in DOMAIN wire' : FALSE
      BY <1>2, <1>4 DEF Replaced
    <2> QED
      BY <1>2, <1>6, <1>7, <1>8, <2>1 DEF Sockets
  <1>10. OnWire'
    <2>1. c'.waiters \subseteq ToSet(c'.outbox)
      BY <1>1, <1>2 DEF Replaced, Settled, Requests
    <2>2. ASSUME NEW k \in Request
          PROVE  sent'[k] <= 1 /\ (c'.done[k] = "new" \/ k \in ToSet(c'.outbox) => sent'[k] = 0)
      BY <1>2, <1>4 DEF Replaced, OnWire
    <2>3. CallsAfterAuth'
      BY <1>4 DEF CallsAfterAuth
    <2>4. ~ c'.ready /\ ~ c'.authWaits
      BY <1>2 DEF Replaced
    <2>5. ToSet(wire') = {}
      BY <1>4 DEF ToSet
    <2> QED
      BY <1>4, <2>1, <2>2, <2>3, <2>4, <2>5 DEF OnWire
  <1>11. Reading'
    <2>1. Woken(c, d)
      BY DEF Replaced
    <2> QED
      BY <1>2, <2>1 DEF Reading, Woken
  <1> QED
    BY <1>2, <1>5, <1>9, <1>10, <1>11

-----------------------------------------------------------------------------
(* Handlers that keep the socket                                           *)

Calls(F, k) == {i \in DOMAIN F : F[i] = Frame("call", k)}

\* A handler took the connection from b to d on its socket, and wrote F.
Stayed(b, d, F) ==
    /\ Settled(d) /\ d.written = F
    /\ d.socket = b.socket /\ d.next = b.next /\ d.opened = {} /\ d.dropped = {}
    /\ b.socket = 0 => F = <<>>
    /\ \A k \in Request : d.done[k] = "new" => b.done[k] = "new"
    /\ \A k \in ToSet(d.outbox) : k \in ToSet(b.outbox) \/ b.done[k] = "new"
    /\ \A i \in DOMAIN F : \A k \in Request : F[i] = Frame("call", k) =>
         /\ k \in ToSet(b.outbox) \/ b.done[k] = "new"
         /\ k \notin ToSet(d.outbox) /\ d.done[k] # "new"
         /\ \A j \in DOMAIN F : F[j] = Frame("call", k) => j = i
    /\ \A k \in d.waiters \ ToSet(d.outbox) :
         k \in b.waiters \ ToSet(b.outbox) \/ (b.socket # 0 /\ Frame("call", k) \in ToSet(F))
    /\ Woken(b, d)

\* What F may hold at this moment of the login, and what the login may become:
\* nothing but answers to the server before the credentials are sent, these
\* once, and calls and subscriptions after them.
LoggedIn(d, F, now, waiting) ==
    /\ Auth /\ (d.ready \/ d.authWaits) => c.ready \/ c.authWaits \/ \E i \in DOMAIN F : F[i].kind = "auth"
    /\ Auth /\ (\E i \in DOMAIN F : F[i].kind \in {"call", "subscribe"}) => c.ready \/ c.authWaits
    /\ (\E i \in DOMAIN F : F[i].kind = "auth") => c.socket \in asking /\ Len(F) = 1
    /\ c.socket # 0 /\ (now = "connecting" \/ c.socket \in waiting) =>
         /\ ~ d.ready /\ ~ d.authWaits
         /\ \A i \in DOMAIN F : F[i].kind = "client_result"

LEMMA CountCalls ==
  ASSUME NEW F, NEW k,
         \A i, j \in DOMAIN F : F[i] = Frame("call", k) /\ F[j] = Frame("call", k) => j = i
  PROVE  /\ Calls(F, k) = {} => Cardinality(Calls(F, k)) = 0
         /\ Calls(F, k) # {} => Cardinality(Calls(F, k)) = 1
         /\ Cardinality(Calls(F, k)) \in {0, 1}
  <1>1. CASE Calls(F, k) = {}
    BY <1>1, FS_EmptySet
  <1>2. CASE Calls(F, k) # {}
    <2>1. PICK i \in DOMAIN F : F[i] = Frame("call", k)
      BY <1>2 DEF Calls
    <2>2. Calls(F, k) = {i}
      BY <2>1 DEF Calls
    <2> QED
      BY <1>2, <2>2, FS_Singleton
  <1> QED
    BY <1>1, <1>2

\* The wire after F has arrived on it.
LEMMA GrownWire ==
  ASSUME SocketInv, NEW F \in Seq(FrameType), c.socket # 0, net[c.socket] \in {"open", "connecting"},
         Auth /\ (\E i \in DOMAIN F : F[i].kind \in {"call", "subscribe"}) => c.ready \/ c.authWaits,
         (\E i \in DOMAIN F : F[i].kind = "auth") => c.socket \in asking /\ Len(F) = 1,
         NEW w, w = wire \o F
  PROVE  /\ w \in Seq(FrameType)
         /\ \A i \in DOMAIN w : w[i] \in ToSet(wire) \/ w[i] \in ToSet(F)
         /\ \A x \in ToSet(wire) \cup ToSet(F) : \E i \in DOMAIN w : w[i] = x
         /\ Auth => /\ \A i, j \in DOMAIN w : w[i].kind = "auth" /\ w[j].kind = "auth" => i = j
                    /\ \A i \in DOMAIN w : w[i].kind \in {"call", "subscribe"} =>
                         \E j \in 1 .. i - 1 : w[j].kind = "auth"
  <1>1. wire \in Seq(FrameType) /\ c.socket \in SocketId
    BY ConnFields, Constants DEF SocketInv, SocketTypeOK
  <1> DEFINE n == Len(wire)
             m == Len(F)
  <1>2. /\ w \in Seq(FrameType) /\ n \in Nat /\ m \in Nat
        /\ DOMAIN wire = 1 .. n /\ DOMAIN F = 1 .. m /\ DOMAIN w = 1 .. n + m
        /\ \A i \in 1 .. n : w[i] = wire[i]
        /\ \A i \in 1 .. m : w[n + i] = F[i]
        /\ \A i \in 1 .. n + m : i \in 1 .. n \/ (i - n \in 1 .. m /\ w[i] = F[i - n])
    BY <1>1, ConcatAt
  <1> HIDE DEF n, m
  <1>3. \A i \in DOMAIN w : w[i] \in ToSet(wire) \/ w[i] \in ToSet(F)
    BY <1>1, <1>2, InSeq
  <1>4. ASSUME NEW x \in ToSet(wire) \cup ToSet(F) PROVE \E i \in DOMAIN w : w[i] = x
    <2>1. CASE x \in ToSet(wire)
      <3>1. PICK i \in 1 .. n : wire[i] = x
        BY <1>1, <1>2, <2>1, InSeq
      <3> QED
        BY <1>2, <3>1
    <2>2. CASE x \in ToSet(F)
      <3>1. PICK i \in 1 .. m : F[i] = x
        BY <1>2, <2>2, InSeq
      <3>2. n + i \in 1 .. n + m
        BY <1>2
      <3> QED
        BY <1>2, <3>1, <3>2
    <2> QED
      BY <2>1, <2>2
  <1>5. ASSUME Auth, NEW i \in DOMAIN w, w[i].kind \in {"call", "subscribe"}
        PROVE  \E j \in 1 .. i - 1 : w[j].kind = "auth"
    <2>1. CASE i \in 1 .. n
      <3>1. PICK j \in 1 .. i - 1 : wire[j].kind = "auth"
        BY <1>2, <1>5, <2>1 DEF SocketInv, OnWire, CallsAfterAuth
      <3>2. j \in 1 .. n
        BY <1>2, <2>1
      <3> QED
        BY <1>2, <3>1, <3>2
    <2>2. CASE i \notin 1 .. n
      <3>1. i - n \in DOMAIN F /\ F[i - n].kind \in {"call", "subscribe"} /\ i \in Nat /\ i > n
        BY <1>2, <1>5, <2>2
      <3>2. PICK j \in DOMAIN wire : wire[j].kind = "auth"
        <4>1. c.ready \/ c.authWaits
          BY <1>5, <3>1
        <4>2. net[c.socket] = "open"
          BY <1>1, <4>1 DEF SocketInv, Sockets
        <4> QED
          BY <1>5, <4>1, <4>2 DEF SocketInv, OnWire
      <3>3. j \in 1 .. i - 1 /\ w[j].kind = "auth"
        BY <1>2, <3>1, <3>2
      <3> QED
        BY <3>3
    <2> QED
      BY <2>1, <2>2
  <1>6. ASSUME Auth, NEW i \in DOMAIN w, NEW j \in DOMAIN w, w[i].kind = "auth", w[j].kind = "auth"
        PROVE  i = j
    <2>1. CASE \E l \in DOMAIN F : F[l].kind = "auth"
      <3>1. c.socket \in asking /\ m = 1
        BY <2>1 DEF m
      <3>2. \A l \in DOMAIN wire : wire[l].kind = "client_result"
        BY <1>1, <3>1 DEF SocketInv, Sockets
      <3>3. i \notin 1 .. n /\ j \notin 1 .. n
        BY <1>2, <1>6, <3>2
      <3> QED
        BY <1>2, <3>1, <3>3
    <2>2. CASE ~ \E l \in DOMAIN F : F[l].kind = "auth"
      <3>1. i \in 1 .. n /\ j \in 1 .. n
        BY <1>2, <1>6, <2>2
      <3> QED
        BY <1>2, <1>6, <3>1 DEF SocketInv, OnWire, CallsAfterAuth
    <2> QED
      BY <2>1, <2>2
  <1> QED
    BY <1>2, <1>3, <1>4, <1>5, <1>6

LEMMA StayedInv ==
  ASSUME SocketInv, NEW s \in SocketId, NEW n \in NetState, NetMove(s, n),
         NEW d, NEW F, Stayed(c, d, F), RunOn(s, n, d),
         LoggedIn(d, F, [net EXCEPT ![s] = n][c.socket], asking'),
         asking' \in SUBSET SocketId, \A t \in asking' : t \in asking \/ (t = c.socket /\ t = s /\ n = "open" /\ Auth /\ net[t] = "connecting"),
         handling' \in SUBSET SocketId, quiet' \in 0 .. 2, UNCHANGED reader
  PROVE  SocketInv'
  <1> USE DEF SocketInv
  <1>1. Settled(d) /\ d \in ConnType /\ c \in ConnType /\ Settled(c) /\ F \in Seq(FrameType)
    BY ConnFields DEF Stayed, Settled
  <1>2. /\ Settled(c') /\ AtRest(c') /\ c' \in ConnType
        /\ c'.socket = c.socket /\ c'.next = c.next /\ c'.status = d.status /\ c'.ready = d.ready
        /\ c'.timer = d.timer /\ c'.authWaits = d.authWaits /\ c'.waiters = d.waiters
        /\ c'.outbox = d.outbox /\ c'.done = d.done /\ c'.queue = d.queue /\ c'.wake = d.wake
        /\ net' \in [SocketId -> NetState]
        /\ \A t \in SocketId : net'[t] = IF t = s THEN n ELSE net[t]
    BY <1>1, RunType DEF Stayed
  <1>3. /\ c.socket \in 0 .. MaxSockets /\ c.socket < c.next /\ c.next \in Nat
        /\ c.socket # 0 => c.socket \in SocketId
    BY <1>1, ConnFields, Constants DEF Settled
  <1>4. net \in [SocketId -> NetState] /\ sent \in [Request -> Nat] /\ wire \in Seq(FrameType)
    BY DEF SocketTypeOK
  <1> DEFINE now == [net EXCEPT ![s] = n][c.socket]
             arrived == IF c.socket # 0 /\ now = "open" THEN F ELSE <<>>
  <1>5. c.socket # 0 => now = net'[c.socket]
    BY <1>2, <1>3, <1>4
  <1>6. /\ wire' = wire \o arrived
        /\ sent' = [k \in Request |-> sent[k] + Cardinality(Calls(arrived, k))]
        /\ LoggedIn(d, F, now, asking')
    BY DEF RunOn, Stayed, Calls
  <1> HIDE DEF now
  <1>7. arrived \in {F, <<>>} /\ (c.socket # 0 /\ now = "open" => arrived = F)
        /\ (~ (c.socket # 0 /\ now = "open") => arrived = <<>>) /\ arrived \in Seq(FrameType)
    BY <1>1
  <1> HIDE DEF arrived
  <1>8. /\ wire' \in Seq(FrameType)
        /\ \A i \in DOMAIN wire' : wire'[i] \in ToSet(wire) \/ wire'[i] \in ToSet(arrived)
        /\ \A x \in ToSet(wire) \cup ToSet(arrived) : \E i \in DOMAIN wire' : wire'[i] = x
        /\ Auth => /\ \A i, j \in DOMAIN wire' : wire'[i].kind = "auth" /\ wire'[j].kind = "auth" => i = j
                   /\ \A i \in DOMAIN wire' : wire'[i].kind \in {"call", "subscribe"} =>
                        \E j \in 1 .. i - 1 : wire'[j].kind = "auth"
    <2>1. CASE c.socket # 0 /\ now = "open"
      <3>1. net[c.socket] \in {"open", "connecting"}
        BY <1>2, <1>3, <1>5, <2>1 DEF NetMove
      <3>2. /\ Auth /\ (\E i \in DOMAIN F : F[i].kind \in {"call", "subscribe"}) => c.ready \/ c.authWaits
            /\ (\E i \in DOMAIN F : F[i].kind = "auth") => c.socket \in asking /\ Len(F) = 1
        BY <1>6 DEF LoggedIn
      <3>3. wire' = wire \o F /\ arrived = F
        BY <1>6, <1>7, <2>1
      <3>4. \A w : w = wire \o F =>
              /\ w \in Seq(FrameType)
              /\ \A i \in DOMAIN w : w[i] \in ToSet(wire) \/ w[i] \in ToSet(F)
              /\ \A x \in ToSet(wire) \cup ToSet(F) : \E i \in DOMAIN w : w[i] = x
              /\ Auth => /\ \A i, j \in DOMAIN w : w[i].kind = "auth" /\ w[j].kind = "auth" => i = j
                         /\ \A i \in DOMAIN w : w[i].kind \in {"call", "subscribe"} =>
                              \E j \in 1 .. i - 1 : w[j].kind = "auth"
        <4>1. SocketInv
          BY DEF SocketInv
        <4> HIDE DEF SocketInv
        <4> QED
          BY ONLY <4>1, <1>1, <2>1, <3>1, <3>2, GrownWire
      <3> QED
        BY ONLY <3>3, <3>4, ZenonT(30)
    <2>2. CASE ~ (c.socket # 0 /\ now = "open")
      <3>1. arrived = <<>> /\ wire' = wire
        BY <1>4, <1>6, <1>7, <2>2
      <3>2. ToSet(arrived) = {} /\ \A x \in ToSet(wire) : \E i \in DOMAIN wire : wire[i] = x
        BY <3>1 DEF ToSet
      <3>3. \A i \in DOMAIN wire : wire[i] \in ToSet(wire)
        BY DEF ToSet
      <3>4. CallsAfterAuth
        BY DEF OnWire
      <3> QED
        BY <1>4, <3>1, <3>2, <3>3, <3>4 DEF CallsAfterAuth
    <2> QED
      BY <2>1, <2>2
  <1>9. ASSUME NEW k \in Request
        PROVE  /\ sent'[k] \in Nat /\ sent'[k] <= 1
               /\ d.done[k] = "new" \/ k \in ToSet(d.outbox) => sent'[k] = 0
               /\ Frame("call", k) \in ToSet(wire') => sent'[k] # 0
    <2>1. \A i, j \in DOMAIN arrived : arrived[i] = Frame("call", k) /\ arrived[j] = Frame("call", k) => j = i
      BY <1>7 DEF Stayed
    <2>2. /\ Calls(arrived, k) = {} => Cardinality(Calls(arrived, k)) = 0
          /\ Calls(arrived, k) # {} => Cardinality(Calls(arrived, k)) = 1
          /\ Cardinality(Calls(arrived, k)) \in {0, 1}
      BY <2>1, CountCalls
    <2>3. sent'[k] = sent[k] + Cardinality(Calls(arrived, k)) /\ sent[k] \in Nat
      BY <1>4, <1>6
    <2>4. sent[k] <= 1 /\ (c.done[k] = "new" \/ k \in ToSet(c.outbox) => sent[k] = 0)
      BY DEF OnWire
    <2>5. CASE Calls(arrived, k) = {}
      <3>1. sent'[k] = sent[k]
        BY <2>2, <2>3, <2>5
      <3>2. Frame("call", k) \notin ToSet(arrived)
        BY <2>5 DEF Calls, ToSet
      <3>3. Frame("call", k) \in ToSet(wire') => Frame("call", k) \in ToSet(wire)
        BY <1>8, <3>2, InSeq
      <3>4. Frame("call", k) \in ToSet(wire) => sent[k] # 0
        BY DEF OnWire
      <3> QED
        BY <2>3, <2>4, <3>1, <3>3, <3>4 DEF Stayed
    <2>6. CASE Calls(arrived, k) # {}
      <3>1. PICK i \in DOMAIN F : F[i] = Frame("call", k)
        BY <1>7, <2>6 DEF Calls
      <3>2. k \in ToSet(c.outbox) \/ c.done[k] = "new"
        BY <3>1 DEF Stayed
      <3>3. k \notin ToSet(d.outbox) /\ d.done[k] # "new"
        BY <3>1 DEF Stayed
      <3> QED
        BY <2>2, <2>3, <2>4, <2>6, <3>2, <3>3
    <2> QED
      BY <2>5, <2>6
  <1>10. SocketTypeOK'
    <2>1. sent' \in [Request -> Nat]
      BY <1>6, <1>9
    <2> QED
      BY <1>2, <1>8, <2>1 DEF SocketTypeOK
  <1>11. Sockets'
    <2>1. ASSUME NEW t \in SocketId, net'[t] \in {"connecting", "open", "dead"} PROVE t = c.socket
      BY <1>2, <2>1 DEF Sockets, NetMove
    <2>2. ASSUME NEW t \in SocketId, t >= c.next PROVE net'[t] = "none"
      <3>1. t # c.socket /\ net[t] = "none"
        BY <1>3, <2>2, Constants DEF Sockets
      <3> QED
        BY <1>2, <3>1 DEF NetMove
    <2>3. ASSUME NEW t \in asking' PROVE t < c.next /\ Auth /\ net'[t] # "connecting"
      <3>1. CASE t \in asking
        <4>1. t \in SocketId /\ t < c.next /\ Auth /\ net[t] # "connecting"
          BY <3>1 DEF Sockets, SocketTypeOK
        <4> QED
          BY <1>2, <4>1 DEF NetMove
      <3>2. CASE t = c.socket /\ t = s /\ n = "open" /\ Auth
        BY <1>2, <1>3, <3>2
      <3> QED
        BY <3>1, <3>2
    <2>4. ASSUME NEW t \in SocketId, t = c.socket, net'[t] = "connecting" \/ t \in asking'
          PROVE  /\ ~ d.ready /\ ~ d.authWaits
                 /\ \A i \in DOMAIN wire' : wire'[i].kind = "client_result"
      <3>1. c.socket # 0 /\ (now = "connecting" \/ c.socket \in asking')
        BY <1>5, <2>4, Constants
      <3>2. ~ d.ready /\ ~ d.authWaits /\ \A i \in DOMAIN F : F[i].kind = "client_result"
        BY <1>6, <3>1 DEF LoggedIn
      <3>3. net[c.socket] = "connecting" \/ c.socket \in asking
        <4>1. CASE now = "connecting"
          BY <1>2, <1>3, <1>5, <3>1, <4>1 DEF NetMove
        <4>2. CASE c.socket \in asking' /\ c.socket \in asking
          BY <4>2
        <4>3. CASE now # "connecting" /\ c.socket \notin asking
          BY <3>1, <4>3
        <4> QED
          BY <3>1, <4>1, <4>2, <4>3
      <3>4. \A i \in DOMAIN wire : wire[i].kind = "client_result"
        BY <1>3, <3>1, <3>3 DEF Sockets
      <3>5. \A x \in ToSet(wire) \cup ToSet(arrived) : x.kind = "client_result"
        BY <1>7, <3>2, <3>4 DEF ToSet
      <3> QED
        BY <1>8, <3>2, <3>5
    <2> QED
      BY <1>2, <2>1, <2>2, <2>3, <2>4 DEF Sockets
  <1>12. OnWire'
    <2>1. CallsAfterAuth'
      BY <1>8 DEF CallsAfterAuth
    <2>2. c.socket = 0 => wire' = <<>>
      BY <1>6, <1>7 DEF OnWire
    <2>3. ASSUME Auth, c.socket # 0, d.ready \/ d.authWaits, net'[c.socket] = "open"
          PROVE  \E i \in DOMAIN wire' : wire'[i].kind = "auth"
      <3>1. now = "open" /\ arrived = F
        BY <1>5, <1>7, <2>3
      <3>2. CASE \E i \in DOMAIN F : F[i].kind = "auth"
        <4>1. PICK x \in ToSet(F) : x.kind = "auth"
          BY <3>2 DEF ToSet
        <4> QED
          BY <1>8, <3>1, <4>1
      <3>3. CASE c.ready \/ c.authWaits
        <4>1. net[c.socket] # "connecting"
          BY <1>3, <2>3, <3>3 DEF Sockets
        <4>2. net[c.socket] = "open"
          BY <1>2, <1>3, <2>3, <4>1 DEF NetMove
        <4>3. PICK i \in DOMAIN wire : wire[i].kind = "auth"
          BY <2>3, <3>3, <4>2 DEF OnWire
        <4>4. wire[i] \in ToSet(wire)
          BY DEF ToSet
        <4> QED
          BY <1>8, <4>3, <4>4
      <3> QED
        BY <1>6, <2>3, <3>2, <3>3 DEF LoggedIn
    <2>4. ASSUME NEW k \in d.waiters \ ToSet(d.outbox)
          PROVE  c.socket # 0 /\ (Frame("call", k) \in ToSet(wire') \/ net'[c.socket] # "open")
      <3>1. CASE k \in c.waiters \ ToSet(c.outbox)
        <4>1. c.socket # 0 /\ (Frame("call", k) \in ToSet(wire) \/ net[c.socket] # "open")
          BY <3>1 DEF OnWire
        <4>2. net[c.socket] = "connecting" => FALSE
          BY <1>1, <1>3, <3>1, <4>1 DEF Sockets, Settled, Requests
        <4>3. CASE Frame("call", k) \in ToSet(wire)
          BY <1>8, <4>1, <4>3, InSeq
        <4>4. CASE net[c.socket] # "open"
          BY <1>2, <1>3, <4>1, <4>2, <4>4 DEF NetMove
        <4> QED
          BY <4>1, <4>3, <4>4
      <3>2. CASE c.socket # 0 /\ Frame("call", k) \in ToSet(F)
        <4>1. CASE net'[c.socket] = "open"
          <5>1. arrived = F
            BY <1>5, <1>7, <3>2, <4>1
          <5> QED
            BY <1>8, <3>2, <5>1, InSeq
        <4> QED
          BY <3>2, <4>1
      <3> QED
        BY <3>1, <3>2 DEF Stayed
    <2> QED
      BY <1>2, <1>9, <2>1, <2>2, <2>3, <2>4 DEF OnWire
  <1>13. Reading'
    <2>1. Woken(c, d)
      BY DEF Stayed
    <2> QED
      BY <1>2, <2>1 DEF Reading, Woken
  <1> QED
    BY <1>2, <1>10, <1>11, <1>12, <1>13

-----------------------------------------------------------------------------
(* What the operations of the connection compute                           *)

\* A finite set of requests, in some order.
LEMMA Listed ==
  ASSUME NEW S \in SUBSET Request, IsFiniteSet(S)
  PROVE  SetToSeq(S) \in Seq(Request)
  <1>1. Cardinality(S) \in Nat /\ ExistsBijection(1 .. Cardinality(S), S)
    BY FS_CardinalityType
  <1>2. PICK f \in [1 .. Cardinality(S) -> S] : IsInjective(f)
    BY <1>1 DEF ExistsBijection, Bijection, Injection, IsInjective
  <1>3. SetToSeq(S) \in [1 .. Cardinality(S) -> S]
    BY <1>2 DEF SetToSeq
  <1> QED
    BY <1>1, <1>3

LEMMA NewestSeq ==
  ASSUME NEW q \in Seq(Request)
  PROVE  Newest(q) \in Seq(Request)
  <1>1. Len(q) \in Nat /\ MaxStreamQueue \in Nat /\ MaxStreamQueue >= 1
    BY Constants
  <1> QED
    BY <1>1 DEF Newest

\* waiter.lost of some of those who wait.
LEMMA FailFacts ==
  ASSUME NEW d \in ConnType, NEW ks \in SUBSET Request, IsFiniteSet(ks),
         NEW e, e = Fail(d, ks)
  PROVE  /\ e \in ConnType
         /\ e.waiters = d.waiters \ ks
         /\ \A k \in Request : e.done[k] = IF k \in ks THEN "over" ELSE d.done[k]
         /\ d.wake => e.wake
         /\ e.queue # d.queue => e.wake
         /\ e.socket = d.socket /\ e.next = d.next /\ e.status = d.status /\ e.ready = d.ready
         /\ e.timer = d.timer /\ e.authWaits = d.authWaits /\ e.outbox = d.outbox
         /\ e.watchdog = d.watchdog /\ e.usable = d.usable /\ e.written = d.written
         /\ e.opened = d.opened /\ e.dropped = d.dropped
  <1> DEFINE streams == ks \cap Stream
             W == d.waiters \ ks
             D == [k \in Request |-> IF k \in ks THEN "over" ELSE d.done[k]]
             Q == IF streams = {} THEN d.queue ELSE Newest(d.queue \o SetToSeq(streams))
             A == d.wake \/ streams # {}
  <1>1. e = [d EXCEPT !.waiters = W, !.done = D, !.queue = Q, !.wake = A]
    BY DEF Fail
  <1>2. W \in SUBSET Request /\ D \in [Request -> {"new", "pending", "over"}] /\ A \in BOOLEAN
    BY ConnFields
  <1>3. Q \in Seq(Request)
    <2>1. streams \in SUBSET Request /\ IsFiniteSet(streams)
      BY FS_Subset
    <2>2. SetToSeq(streams) \in Seq(Request) /\ d.queue \in Seq(Request)
      BY <2>1, Listed, ConnFields
    <2> HIDE DEF streams
    <2>3. d.queue \o SetToSeq(streams) \in Seq(Request)
      BY <2>2, ConcatAt
    <2> QED
      BY <2>2, <2>3, NewestSeq
  <1>4. Q # d.queue => A
    OBVIOUS
  <1>5. d.wake => A
    OBVIOUS
  <1>6. \A k \in Request : D[k] = IF k \in ks THEN "over" ELSE d.done[k]
    OBVIOUS
  <1> HIDE DEF W, D, Q, A
  <1>7. /\ e \in ConnType /\ e.waiters = W /\ e.done = D /\ e.queue = Q /\ e.wake = A
        /\ e.socket = d.socket /\ e.next = d.next /\ e.status = d.status /\ e.ready = d.ready
        /\ e.timer = d.timer /\ e.authWaits = d.authWaits /\ e.outbox = d.outbox
        /\ e.watchdog = d.watchdog /\ e.usable = d.usable /\ e.written = d.written
        /\ e.opened = d.opened /\ e.dropped = d.dropped
    BY <1>1, <1>2, <1>3 DEF ConnType
  <1> QED
    BY <1>4, <1>5, <1>6, <1>7 DEF W

-----------------------------------------------------------------------------
(* Losing, leaving and opening a socket                                    *)

\* The application may do anything in onStatus but act on a connection that is
\* being lost, pause one that has just opened, or close one that is closed.
\* (The README tells what goes wrong when it does.)
HarmlessCallback ==
    /\ OnStatus["connecting"] = "nothing" /\ OnStatus["paused"] = "nothing"
    /\ OnStatus["open"] \in {"nothing", "resume"}
    /\ OnStatus["closed"] # "close"

LEMMA StatusOnly ==
  ASSUME HarmlessCallback, NEW d \in ConnType, NEW s \in Status,
         NEW e, e = setStatus(d, s)
  PROVE  e = [d EXCEPT !.status = s]
  <1>1. CASE d.status = s
    BY <1>1 DEF setStatus, ConnType
  <1>2. CASE d.status # s
    <2> DEFINE f == [d EXCEPT !.status = s]
               does == OnStatus[s]
    <2>1. f.status = s
      BY DEF ConnType
    <2>2. e = callback(f, does)
      BY <1>2 DEF setStatus
    <2>3. s \in {"connecting", "open", "paused", "closed"}
      BY DEF Status
    <2>4. /\ ~ (does = "pause" /\ s # "closed")
          /\ ~ (does = "resume" /\ s \in {"connecting", "paused"})
          /\ does # "close"
      BY <2>3 DEF HarmlessCallback
    <2> HIDE DEF f, does
    <2>5. callback(f, does) = f
      BY <2>1, <2>4 DEF callback
    <2> QED
      BY <2>2, <2>5 DEF f
  <1> QED
    BY <1>1, <1>2

\* A connection d on its way from b: it may have lost b's socket already.
Loose(b, d) ==
    /\ d \in ConnType /\ d.written = <<>> /\ d.opened = {}
    /\ Distinct(d.outbox) /\ ToSet(d.outbox) \subseteq d.waiters
    /\ d.waiters = {k \in Request : d.done[k] = "pending"} /\ IsFiniteSet(d.waiters)
    /\ ToSet(d.outbox) \subseteq ToSet(b.outbox)
    /\ \A k \in Request : d.done[k] = "new" => b.done[k] = "new"
    /\ d.next = b.next
    /\ \/ d.socket = b.socket /\ d.dropped = {}
       \/ d.socket = 0 /\ d.dropped = {b.socket} \ {0}
    /\ b.wake => d.wake
    /\ d.queue # b.queue => d.wake

\* It has lost it, and with it what was sent on it.
Gone(b, d) ==
    /\ Loose(b, d)
    /\ d.socket = 0 /\ d.dropped = {b.socket} \ {0}
    /\ ~ d.ready /\ ~ d.authWaits /\ d.waiters \subseteq ToSet(d.outbox)

\* And it knows what comes next.
Ended(b, d) ==
    /\ Gone(b, d)
    /\ d.status # "open"
    /\ d.status = "connecting" => d.timer
    /\ d.status \in {"paused", "closed"} => ~ d.timer
    /\ d.status = "closed" => d.waiters = {} /\ (b.status # "closed" => d.wake)

LEMMA LooseStart ==
  ASSUME NEW b, Settled(b), AtRest(b)
  PROVE  Loose(b, b)
  BY ConnFields DEF Settled, AtRest, Loose, Requests

\* The fields that say what was lost are the same.
SameLoss(d, e) ==
    /\ e \in ConnType
    /\ e.socket = d.socket /\ e.dropped = d.dropped /\ e.ready = d.ready
    /\ e.waiters = d.waiters /\ e.outbox = d.outbox /\ e.wake = d.wake
    /\ e.queue = d.queue /\ e.done = d.done /\ e.next = d.next /\ e.written = d.written
    /\ e.opened = d.opened

LEMMA SetStatus ==
  ASSUME NEW d \in ConnType, NEW s \in Status, NEW e, e = [d EXCEPT !.status = s]
  PROVE  SameLoss(d, e) /\ e.status = s /\ e.timer = d.timer /\ e.authWaits = d.authWaits /\ e.usable = d.usable
  BY DEF ConnType, SameLoss

LEMMA SetTimer ==
  ASSUME NEW d \in ConnType, NEW t \in BOOLEAN, NEW e, e = [d EXCEPT !.timer = t]
  PROVE  SameLoss(d, e) /\ e.timer = t /\ e.status = d.status /\ e.authWaits = d.authWaits /\ e.usable = d.usable
  BY DEF ConnType, SameLoss

LEMMA SetAuth ==
  ASSUME NEW d \in ConnType, NEW t \in BOOLEAN, NEW e, e = [d EXCEPT !.authWaits = t]
  PROVE  SameLoss(d, e) /\ e.authWaits = t /\ e.status = d.status /\ e.timer = d.timer /\ e.usable = d.usable
  BY DEF ConnType, SameLoss

LEMMA SetUsable ==
  ASSUME NEW d \in ConnType, NEW t \in BOOLEAN, NEW e, e = [d EXCEPT !.usable = t]
  PROVE  SameLoss(d, e) /\ e.usable = t /\ e.status = d.status /\ e.timer = d.timer /\ e.authWaits = d.authWaits
  BY DEF ConnType, SameLoss

LEMMA LooseSame ==
  ASSUME NEW b, NEW d, Loose(b, d), NEW e, SameLoss(d, e)
  PROVE  /\ Loose(b, e)
         /\ Gone(b, d) /\ ~ e.authWaits => Gone(b, e)
  <1>1. Loose(b, e)
    BY DEF Loose, SameLoss
  <1> QED
    BY <1>1 DEF Gone, SameLoss

LEMMA DropFacts ==
  ASSUME NEW b, NEW d, Loose(b, d), NEW e, e = drop(d)
  PROVE  /\ Gone(b, e)
         /\ e.status = d.status /\ e.timer = d.timer /\ e.usable = d.usable
         /\ d.wake => e.wake
         /\ d.waiters = {} => e.waiters = {}
  <1> DEFINE f == [d EXCEPT !.socket = 0, !.ready = FALSE, !.watchdog = FALSE,
                            !.dropped = @ \cup ({d.socket} \ {0})]
             g == [f EXCEPT !.authWaits = FALSE]
             ks == g.waiters \ ToSet(g.outbox)
  <1>1. d \in ConnType /\ d.socket \in 0 .. MaxSockets /\ d.dropped \in SUBSET SocketId
    BY ConnFields DEF Loose
  <1>2. {d.socket} \ {0} \subseteq SocketId
    BY <1>1, Constants
  <1>3. /\ f \in ConnType /\ f.socket = 0 /\ ~ f.ready
        /\ f.dropped = d.dropped \cup ({d.socket} \ {0})
        /\ f.next = d.next /\ f.status = d.status /\ f.timer = d.timer /\ f.waiters = d.waiters
        /\ f.outbox = d.outbox /\ f.done = d.done /\ f.queue = d.queue /\ f.wake = d.wake
        /\ f.usable = d.usable /\ f.written = d.written /\ f.opened = d.opened
    <2>1. 0 \in 0 .. MaxSockets
      BY Constants
    <2> QED
      BY <1>1, <1>2, <2>1 DEF ConnType
  <1> HIDE DEF f
  <1>4. /\ g \in ConnType /\ g.socket = 0 /\ ~ g.ready /\ ~ g.authWaits
        /\ g.dropped = f.dropped
        /\ g.next = d.next /\ g.status = d.status /\ g.timer = d.timer /\ g.waiters = d.waiters
        /\ g.outbox = d.outbox /\ g.done = d.done /\ g.queue = d.queue /\ g.wake = d.wake
        /\ g.usable = d.usable /\ g.written = d.written /\ g.opened = d.opened
    BY <1>3 DEF ConnType
  <1>5. e = Fail(g, ks)
    <2>1. e = Fail(g, f.waiters \ ToSet(f.outbox))
      BY DEF drop, failSent, f
    <2>2. f.waiters = g.waiters /\ f.outbox = g.outbox
      BY <1>3, <1>4
    <2> QED
      BY <2>1, <2>2
  <1> HIDE DEF g
  <1>6. ks \in SUBSET Request /\ IsFiniteSet(ks) /\ ks = d.waiters \ ToSet(d.outbox)
    <2>1. IsFiniteSet(d.waiters) /\ d.waiters \in SUBSET Request
      BY <1>1, ConnFields DEF Loose
    <2>2. ks \in SUBSET d.waiters /\ ks = d.waiters \ ToSet(d.outbox)
      BY <1>4
    <2> QED
      BY <2>1, <2>2, FS_Subset
  <1> HIDE DEF ks
  <1>7. /\ e \in ConnType
        /\ e.waiters = g.waiters \ ks
        /\ \A k \in Request : e.done[k] = IF k \in ks THEN "over" ELSE g.done[k]
        /\ g.wake => e.wake
        /\ e.queue # g.queue => e.wake
        /\ e.socket = g.socket /\ e.next = g.next /\ e.status = g.status /\ e.ready = g.ready
        /\ e.timer = g.timer /\ e.authWaits = g.authWaits /\ e.outbox = g.outbox
        /\ e.watchdog = g.watchdog /\ e.usable = g.usable /\ e.written = g.written
        /\ e.opened = g.opened /\ e.dropped = g.dropped
    <2>1. g \in ConnType /\ ks \in SUBSET Request /\ IsFiniteSet(ks)
      BY <1>4, <1>6
    <2> QED
      BY ONLY <2>1, <1>5, FailFacts
  <1>8. /\ e.waiters = d.waiters \ ks /\ e.waiters \subseteq ToSet(e.outbox)
        /\ IsFiniteSet(e.waiters) /\ ToSet(e.outbox) \subseteq e.waiters
    <2>1. e.waiters = d.waiters \ ks
      BY <1>4, <1>7
    <2>2. e.waiters \in SUBSET d.waiters /\ IsFiniteSet(d.waiters)
      BY <2>1 DEF Loose
    <2>3. ToSet(d.outbox) \subseteq d.waiters /\ e.outbox = d.outbox
      BY <1>4, <1>7 DEF Loose
    <2> QED
      BY <1>6, <2>1, <2>2, <2>3, FS_Subset
  <1>9. e.waiters = {k \in Request : e.done[k] = "pending"}
    BY <1>4, <1>7, <1>8 DEF Loose
  <1>10. e.dropped = {b.socket} \ {0}
    BY <1>3, <1>4, <1>7 DEF Loose
  <1>11. /\ \A k \in Request : e.done[k] = "new" => b.done[k] = "new"
         /\ b.wake => e.wake
         /\ e.queue # b.queue => e.wake
         /\ d.wake => e.wake
    BY <1>4, <1>7 DEF Loose
  <1>12. Loose(b, e)
    BY <1>4, <1>7, <1>8, <1>9, <1>10, <1>11 DEF Loose
  <1> QED
    BY <1>4, <1>7, <1>8, <1>10, <1>11, <1>12 DEF Gone

\* Those who wait on a connection that closes are told.
LEMMA FailAllFacts ==
  ASSUME NEW b, NEW d, Gone(b, d), NEW e, e = FailAll(d)
  PROVE  /\ Gone(b, e)
         /\ e.waiters = {} /\ e.wake
         /\ e.status = d.status /\ e.timer = d.timer /\ e.usable = d.usable
  <1> DEFINE f == Fail(d, d.waiters)
  <1>1. d \in ConnType /\ d.waiters \in SUBSET Request /\ IsFiniteSet(d.waiters)
    BY ConnFields DEF Gone, Loose
  <1>2. /\ f \in ConnType
        /\ f.waiters = d.waiters \ d.waiters
        /\ \A k \in Request : f.done[k] = IF k \in d.waiters THEN "over" ELSE d.done[k]
        /\ d.wake => f.wake
        /\ f.queue # d.queue => f.wake
        /\ f.socket = d.socket /\ f.next = d.next /\ f.status = d.status /\ f.ready = d.ready
        /\ f.timer = d.timer /\ f.authWaits = d.authWaits /\ f.outbox = d.outbox
        /\ f.watchdog = d.watchdog /\ f.usable = d.usable /\ f.written = d.written
        /\ f.opened = d.opened /\ f.dropped = d.dropped
    BY ONLY <1>1, FailFacts
  <1>3. e = [f EXCEPT !.outbox = <<>>, !.wake = TRUE]
    BY DEF FailAll
  <1> HIDE DEF f
  <1>5. <<>> \in Seq(Request)
    OBVIOUS
  <1>6. /\ e \in ConnType /\ e.outbox = <<>> /\ e.wake
        /\ e.waiters = f.waiters /\ e.done = f.done /\ e.queue = f.queue
        /\ e.socket = f.socket /\ e.next = f.next /\ e.status = f.status /\ e.ready = f.ready
        /\ e.timer = f.timer /\ e.authWaits = f.authWaits
        /\ e.usable = f.usable /\ e.written = f.written
        /\ e.opened = f.opened /\ e.dropped = f.dropped
    <2>1. PICK w \in Seq(Request) : w = <<>>
      BY <1>5
    <2>2. e = [f EXCEPT !.outbox = w, !.wake = TRUE]
      BY <1>3, <2>1
    <2>3. /\ e \in ConnType /\ e.outbox = w /\ e.wake
          /\ e.waiters = f.waiters /\ e.done = f.done /\ e.queue = f.queue
          /\ e.socket = f.socket /\ e.next = f.next /\ e.status = f.status /\ e.ready = f.ready
          /\ e.timer = f.timer /\ e.authWaits = f.authWaits
          /\ e.usable = f.usable /\ e.written = f.written
          /\ e.opened = f.opened /\ e.dropped = f.dropped
      BY ONLY w \in Seq(Request), <1>2, <2>2 DEF ConnType
    <2> QED
      BY ONLY <2>1, <2>3
  <1>7. ToSet(e.outbox) = {} /\ Distinct(e.outbox)
    BY <1>6 DEF ToSet, Distinct
  <1>8. e.waiters = {} /\ IsFiniteSet(e.waiters)
    BY <1>2, <1>6, FS_EmptySet
  <1>9. {k \in Request : e.done[k] = "pending"} = {}
    BY <1>2, <1>6 DEF Gone, Loose
  <1>10. \A k \in Request : e.done[k] = "new" => b.done[k] = "new"
    BY <1>2, <1>6 DEF Gone, Loose
  <1>11. Loose(b, e)
    BY <1>2, <1>6, <1>7, <1>8, <1>9, <1>10 DEF Gone, Loose
  <1> QED
    BY <1>2, <1>6, <1>8, <1>11 DEF Gone

LEMMA StopFacts ==
  ASSUME HarmlessCallback, NEW b, NEW d, Loose(b, d), NEW e, e = stop(d)
  PROVE  Ended(b, e) /\ e.status = "closed"
  <1> DEFINE f == [d EXCEPT !.timer = FALSE]
             g == setStatus(f, "closed")
             h == drop(g)
  <1>1. d \in ConnType /\ "closed" \in Status /\ FALSE \in BOOLEAN
    BY DEF Loose, Status
  <1>2. SameLoss(d, f) /\ ~ f.timer
    BY <1>1, SetTimer
  <1>3. Loose(b, f) /\ f \in ConnType
    BY <1>2, LooseSame DEF SameLoss
  <1> HIDE DEF f
  <1>4. g = [f EXCEPT !.status = "closed"]
    BY <1>1, <1>3, StatusOnly
  <1>5. SameLoss(f, g) /\ g.status = "closed" /\ g.timer = f.timer
    BY ONLY <1>1, <1>3, <1>4, SetStatus
  <1>6. Loose(b, g)
    BY <1>3, <1>5, LooseSame
  <1> HIDE DEF g
  <1>7. Gone(b, h) /\ h.status = g.status /\ h.timer = g.timer
    BY <1>6, DropFacts
  <1>8. e = FailAll(h)
    BY DEF stop, f, g
  <1> HIDE DEF h
  <1>9. Gone(b, e) /\ e.waiters = {} /\ e.wake /\ e.status = h.status /\ e.timer = h.timer
    BY <1>7, <1>8, FailAllFacts
  <1> QED
    BY <1>2, <1>5, <1>7, <1>9 DEF Ended

\* scheduleReconnect, of a connection that lost its socket.
LEMMA ScheduleFacts ==
  ASSUME HarmlessCallback, NEW b, NEW d, Gone(b, d), NEW e, e = scheduleReconnect(d)
  PROVE  Ended(b, e) /\ e.status = "connecting" /\ e.timer
  <1> DEFINE g == setStatus(d, "connecting")
  <1>1. d \in ConnType /\ "connecting" \in Status /\ TRUE \in BOOLEAN /\ Loose(b, d)
    BY DEF Gone, Loose, Status
  <1>2. g = [d EXCEPT !.status = "connecting"]
    BY <1>1, StatusOnly
  <1>3. SameLoss(d, g) /\ g.status = "connecting" /\ g.authWaits = d.authWaits
    BY ONLY <1>1, <1>2, SetStatus
  <1>4. Gone(b, g) /\ Loose(b, g) /\ g \in ConnType
    BY <1>1, <1>3, LooseSame DEF SameLoss, Gone
  <1>5. e = [g EXCEPT !.timer = TRUE]
    BY DEF scheduleReconnect
  <1> HIDE DEF g
  <1>6. SameLoss(g, e) /\ e.timer /\ e.status = g.status /\ e.authWaits = g.authWaits
    BY ONLY <1>1, <1>4, <1>5, SetTimer
  <1>7. Gone(b, e)
    BY <1>4, <1>6, LooseSame DEF Gone
  <1> QED
    BY <1>3, <1>6, <1>7 DEF Ended

LEMMA LostFacts ==
  ASSUME HarmlessCallback, NEW b, NEW d, Loose(b, d), NEW terminal \in BOOLEAN,
         d.status \in {"paused", "closed"} => ~ d.timer,
         d.status = "closed" => d.waiters = {} /\ (b.status # "closed" => d.wake),
         NEW e, e = lost(d, terminal)
  PROVE  Ended(b, e)
  <1> DEFINE f == drop(d)
  <1>1. /\ Gone(b, f) /\ f.status = d.status /\ f.timer = d.timer
        /\ d.wake => f.wake
        /\ d.waiters = {} => f.waiters = {}
    BY DropFacts
  <1>2. e = IF f.status \in {"paused", "closed"} THEN f
            ELSE IF ~ Reconnect \/ terminal THEN stop(f)
            ELSE scheduleReconnect(f)
    BY DEF lost
  <1> HIDE DEF f
  <1>3. CASE f.status \in {"paused", "closed"}
    BY <1>1, <1>2, <1>3 DEF Ended
  <1>4. CASE f.status \notin {"paused", "closed"} /\ (~ Reconnect \/ terminal)
    <2>1. Loose(b, f) /\ e = stop(f)
      BY <1>1, <1>2, <1>4 DEF Gone
    <2> QED
      BY <2>1, StopFacts
  <1>5. CASE f.status \notin {"paused", "closed"} /\ ~ (~ Reconnect \/ terminal)
    <2>1. e = scheduleReconnect(f)
      BY <1>2, <1>5
    <2> QED
      BY <1>1, <2>1, ScheduleFacts
  <1> QED
    BY <1>3, <1>4, <1>5

LEMMA DisconnectFacts ==
  ASSUME HarmlessCallback, NEW b, NEW d, Loose(b, d), NEW e, e = disconnect(d, "paused")
  PROVE  Ended(b, e)
  <1> DEFINE f == [d EXCEPT !.timer = FALSE]
             g == setStatus(f, "paused")
  <1>1. d \in ConnType /\ "paused" \in Status /\ FALSE \in BOOLEAN
    BY DEF Loose, Status
  <1>2. SameLoss(d, f) /\ ~ f.timer
    BY <1>1, SetTimer
  <1>3. Loose(b, f) /\ f \in ConnType
    BY <1>2, LooseSame DEF SameLoss
  <1> HIDE DEF f
  <1>4. g = [f EXCEPT !.status = "paused"]
    BY <1>1, <1>3, StatusOnly
  <1>5. SameLoss(f, g) /\ g.status = "paused" /\ g.timer = f.timer
    BY ONLY <1>1, <1>3, <1>4, SetStatus
  <1>6. Loose(b, g)
    BY <1>3, <1>5, LooseSame
  <1>7. e = lost(g, FALSE)
    BY DEF disconnect, f
  <1> HIDE DEF g
  <1>8. ~ g.timer /\ g.status # "closed"
    BY <1>2, <1>5
  <1> QED
    BY ONLY HarmlessCallback, <1>1, <1>6, <1>7, <1>8, LostFacts

\* A connection that stays without a socket for the moment.
LEMMA EndedReplaced ==
  ASSUME NEW b \in ConnType, NEW e, Ended(b, e)
  PROVE  Replaced(b, e)
  <1>1. Gone(b, e) /\ Loose(b, e) /\ e \in ConnType
    BY DEF Ended, Gone, Loose
  <1>2. /\ e.status \in Status /\ e.next \in 1 .. MaxSockets + 1 /\ e.socket = 0
        /\ e.timer \in BOOLEAN /\ e.ready \in BOOLEAN
    BY <1>1, ConnFields DEF Gone
  <1>3. Driven(e)
    BY <1>1, <1>2 DEF Ended, Gone, Driven
  <1>4. Requests(e)
    BY <1>1 DEF Ended, Gone, Loose, Requests
  <1>5. e.socket < e.next
    BY <1>2, Constants
  <1>6. Settled(e)
    BY <1>1, <1>3, <1>4, <1>5 DEF Settled
  <1>7. Woken(b, e)
    BY <1>1 DEF Ended, Loose, Woken
  <1> QED
    BY <1>1, <1>2, <1>6, <1>7 DEF Gone, Loose, Replaced

\* open, of a connection that lost its socket: a new one, or another try later.
LEMMA OpenFacts ==
  ASSUME HarmlessCallback, NEW b, Settled(b), NEW d, Gone(b, d), b.next \in SocketId,
         NEW e, e = open(d)
  PROVE  Replaced(b, e)
  <1> DEFINE f == [d EXCEPT !.timer = FALSE]
             g == setStatus(f, "connecting")
             h == [g EXCEPT !.ready = FALSE]
  <1>1. d \in ConnType /\ Loose(b, d) /\ "connecting" \in Status /\ FALSE \in BOOLEAN /\ TRUE \in BOOLEAN
    BY DEF Gone, Loose, Status
  <1>2. SameLoss(d, f) /\ ~ f.timer /\ f.authWaits = d.authWaits
    BY <1>1, SetTimer
  <1>3. Gone(b, f) /\ Loose(b, f) /\ f \in ConnType
    BY <1>1, <1>2, LooseSame DEF SameLoss, Gone
  <1> HIDE DEF f
  <1>4. g = [f EXCEPT !.status = "connecting"]
    BY <1>1, <1>3, StatusOnly
  <1>5. SameLoss(f, g) /\ g.status = "connecting" /\ g.timer = f.timer /\ g.authWaits = f.authWaits
    BY ONLY <1>1, <1>3, <1>4, SetStatus
  <1>6. Gone(b, g) /\ g \in ConnType
    BY <1>3, <1>5, LooseSame DEF SameLoss, Gone
  <1> HIDE DEF g
  <1>7. /\ h \in ConnType /\ SameLoss(g, h) /\ h.status = g.status /\ h.timer = g.timer
        /\ h.authWaits = g.authWaits
    <2>1. g.ready = FALSE
      BY <1>6, ConnFields DEF Gone
    <2>2. h = g
      BY <1>6, <2>1 DEF ConnType
    <2> QED
      BY <1>6, <2>2 DEF SameLoss
  <1>8. Gone(b, h) /\ Loose(b, h) /\ ~ h.timer /\ h.status = "connecting"
    BY <1>2, <1>5, <1>6, <1>7, LooseSame DEF Gone
  <1>9. e = IF h.usable THEN Connect(h) ELSE scheduleReconnect([h EXCEPT !.usable = TRUE])
    BY DEF open, f, g
  <1> HIDE DEF h
  <1>10. CASE ~ h.usable
    <2> DEFINE r == [h EXCEPT !.usable = TRUE]
    <2>1. SameLoss(h, r) /\ r.authWaits = h.authWaits
      BY <1>1, <1>7, SetUsable
    <2>2. Gone(b, r)
      BY <1>8, <2>1, LooseSame DEF Gone
    <2> HIDE DEF r
    <2>3. e = scheduleReconnect(r)
      BY <1>9, <1>10 DEF r
    <2>4. Ended(b, e)
      BY <2>2, <2>3, ScheduleFacts
    <2> QED
      BY <2>4, EndedReplaced DEF Settled
  <1>11. CASE h.usable
    <2>1. e = [h EXCEPT !.socket = h.next, !.next = @ + 1, !.opened = @ \cup {h.next}]
      BY <1>9, <1>11 DEF Connect
    <2>2. h.next = b.next /\ h.next \in SocketId /\ h.opened = {} /\ h.next \in 0 .. MaxSockets
          /\ h.next + 1 \in 1 .. MaxSockets + 1 /\ h.opened \cup {h.next} \in SUBSET SocketId
      BY <1>8, Constants DEF Loose, SocketId
    <2>3. /\ e \in ConnType /\ e.socket = h.next /\ e.next = h.next + 1 /\ e.opened = {h.next}
          /\ e.status = h.status /\ e.ready = h.ready /\ e.timer = h.timer
          /\ e.authWaits = h.authWaits /\ e.waiters = h.waiters /\ e.outbox = h.outbox
          /\ e.done = h.done /\ e.queue = h.queue /\ e.wake = h.wake /\ e.written = h.written
          /\ e.dropped = h.dropped
      BY <1>7, <2>1, <2>2 DEF ConnType
    <2>4. e.socket # b.socket
      <3>1. b.socket < b.next /\ b.socket \in 0 .. MaxSockets
        BY ConnFields DEF Settled
      <3> QED
        BY <2>2, <2>3, <3>1, Constants
    <2>5. Driven(e)
      <3>1. h.socket = 0 /\ ~ h.ready /\ ~ h.authWaits
        BY <1>8 DEF Gone
      <3> QED
        BY <1>8, <2>2, <2>3, <3>1, Constants, ConnFields DEF Driven
    <2>6. Requests(e)
      BY <1>8, <2>3 DEF Gone, Loose, Requests
    <2>7. Settled(e)
      BY <2>2, <2>3, <2>5, <2>6, Constants DEF Settled
    <2>8. Woken(b, e)
      BY <1>8, <2>3 DEF Loose, Woken
    <2> QED
      BY <1>8, <2>2, <2>3, <2>4, <2>7, <2>8 DEF Gone, Loose, Replaced
  <1> QED
    BY <1>10, <1>11

\* resume(): nothing, or a new socket.
LEMMA ResumeFacts ==
  ASSUME HarmlessCallback, NEW b, Settled(b), AtRest(b), b.next \in SocketId, NEW silent,
         NEW e, e = resume(b, silent)
  PROVE  e = b \/ Replaced(b, e)
  <1>1. b \in ConnType /\ b.status \in Status /\ Loose(b, b) /\ Driven(b) /\ FALSE \in BOOLEAN
    BY ConnFields, LooseStart DEF Settled
  <1>2. CASE b.status = "open" /\ silent # 0
    <2> DEFINE f == lost(b, FALSE)
    <2>1. b.status \notin {"paused", "closed"}
      BY <1>2
    <2>2. Ended(b, f)
      BY ONLY HarmlessCallback, <1>1, <2>1, LostFacts
    <2>3. e = open(f)
      BY <1>2 DEF resume
    <2> HIDE DEF f
    <2>4. Gone(b, f)
      BY <2>2 DEF Ended
    <2> QED
      BY <2>3, <2>4, OpenFacts
  <1>3. CASE b.status \in {"connecting", "paused"} /\ b.socket = 0
    <2>1. e = open(b)
      BY <1>3 DEF resume
    <2>2. Gone(b, b)
      BY <1>1, <1>3 DEF Gone, AtRest, Settled, Requests, Driven
    <2> QED
      BY <2>1, <2>2, OpenFacts
  <1>4. CASE b.status = "closed" \/ (b.status = "open" /\ silent = 0)
             \/ (b.status \in {"connecting", "paused"} /\ b.socket # 0)
    BY <1>4 DEF resume
  <1> QED
    BY <1>1, <1>2, <1>3, <1>4 DEF Status

-----------------------------------------------------------------------------
(* One step of Run                                                         *)

\* What the actions that run a handler leave in order.
Around ==
    /\ asking' \subseteq asking /\ handling' \in SUBSET SocketId
    /\ quiet' \in 0 .. 2 /\ UNCHANGED reader

LEMMA RunReplaced ==
  ASSUME SocketInv, NEW d, Run(d), Replaced(c, d), Around
  PROVE  SocketInv'
  <1>1. 1 \in SocketId /\ net[1] \in NetState
    BY Constants DEF SocketInv, SocketTypeOK
  <1>2. NetMove(1, net[1]) /\ RunOn(1, net[1], d)
    BY DEF NetMove, Run
  <1>3. asking' \subseteq asking /\ handling' \in SUBSET SocketId /\ quiet' \in 0 .. 2 /\ UNCHANGED reader
    BY DEF Around
  <1> QED
    BY ONLY SocketInv, Replaced(c, d), <1>1, <1>2, <1>3, ReplacedInv

LEMMA RunStayed ==
  ASSUME SocketInv, NEW d, NEW F, Run(d), Stayed(c, d, F),
         LoggedIn(d, F, net[c.socket], asking'), Around
  PROVE  SocketInv'
  <1>1. 1 \in SocketId /\ net[1] \in NetState /\ net \in [SocketId -> NetState]
    BY Constants DEF SocketInv, SocketTypeOK
  <1>2. NetMove(1, net[1]) /\ RunOn(1, net[1], d)
    BY DEF NetMove, Run
  <1>3. /\ asking' \in SUBSET SocketId /\ \A t \in asking' : t \in asking
        /\ handling' \in SUBSET SocketId /\ quiet' \in 0 .. 2 /\ UNCHANGED reader
    BY DEF Around, SocketInv, SocketTypeOK
  <1>4. [net EXCEPT ![1] = net[1]] = net
    BY <1>1
  <1>5. LoggedIn(d, F, [net EXCEPT ![1] = net[1]][c.socket], asking')
    BY <1>4
  <1> QED
    BY ONLY SocketInv, Stayed(c, d, F), <1>1, <1>2, <1>3, <1>5, StayedInv

\* Nothing is written: what the login needs to know.
LEMMA Silent ==
  ASSUME SocketInv, NEW d, NEW F, F = <<>>, NEW now, NEW waiting \in SUBSET asking,
         d.ready => c.ready, d.authWaits => c.authWaits,
         c.socket # 0 /\ now = "connecting" => net[c.socket] = "connecting"
  PROVE  LoggedIn(d, F, now, waiting)
  <1>1. c.socket # 0 => c.socket \in SocketId
    BY ConnFields, Constants DEF SocketInv, SocketTypeOK
  <1>2. \A i \in DOMAIN F : FALSE
    OBVIOUS
  <1>3. c.socket # 0 /\ (now = "connecting" \/ c.socket \in waiting) => ~ c.ready /\ ~ c.authWaits
    BY <1>1 DEF SocketInv, Sockets
  <1> QED
    BY <1>2, <1>3 DEF LoggedIn

LEMMA Idle ==
  ASSUME SocketInv, NEW F, F = <<>>
  PROVE  Stayed(c, c, F)
  <1>1. \A i \in DOMAIN F : FALSE
    OBVIOUS
  <1>2. Settled(c) /\ AtRest(c)
    BY DEF SocketInv
  <1> QED
    BY <1>1, <1>2 DEF Stayed, AtRest, Woken

LEMMA RunSame ==
  ASSUME SocketInv, Run(c), Around
  PROVE  SocketInv'
  <1>1. PICK F : F = <<>>
    OBVIOUS
  <1>2. Stayed(c, c, F)
    BY <1>1, Idle
  <1>3. LoggedIn(c, F, net[c.socket], asking')
    <2>1. asking' \in SUBSET asking
      BY DEF Around
    <2> QED
      BY <1>1, <2>1, Silent
  <1> QED
    BY <1>2, <1>3, RunStayed

-----------------------------------------------------------------------------
(* The steps that lose, leave or open a socket                             *)

\* The connection of a state, and the states around it.
LEMMA Here ==
  ASSUME SocketInv
  PROVE  /\ Settled(c) /\ AtRest(c) /\ c \in ConnType /\ Loose(c, c) /\ Driven(c) /\ Requests(c)
         /\ c.status \in Status /\ c.timer \in BOOLEAN
         /\ c.status \in {"paused", "closed"} => ~ c.timer
         /\ c.status = "closed" => c.waiters = {}
         /\ net \in [SocketId -> NetState] /\ quiet \in 0 .. 2
         /\ asking \in SUBSET SocketId /\ handling \in SUBSET SocketId
         /\ c.socket # 0 => c.socket \in SocketId
  <1>1. Settled(c) /\ AtRest(c)
    BY DEF SocketInv
  <1>2. c \in ConnType /\ Driven(c) /\ Requests(c)
    BY <1>1 DEF Settled
  <1> QED
    BY <1>1, <1>2, ConnFields, LooseStart, Constants DEF SocketInv, SocketTypeOK, Driven, Requests

LEMMA LostHere ==
  ASSUME HarmlessCallback, SocketInv, NEW terminal \in BOOLEAN, NEW e, e = lost(c, terminal)
  PROVE  Replaced(c, e)
  <1>1. /\ Loose(c, c) /\ c \in ConnType /\ (c.status \in {"paused", "closed"} => ~ c.timer)
        /\ (c.status = "closed" => c.waiters = {} /\ (c.status # "closed" => c.wake))
    BY Here
  <1>2. Ended(c, e)
    BY ONLY HarmlessCallback, terminal \in BOOLEAN, e = lost(c, terminal), <1>1, LostFacts
  <1> QED
    BY <1>1, <1>2, EndedReplaced

LEMMA CredentialsFailInv ==
  ASSUME HarmlessCallback, SocketInv, NEW s \in SocketId, CredentialsFail(s)
  PROVE  SocketInv'
  <1>1. Around
    BY Here DEF CredentialsFail, Around
  <1>2. CASE c.socket = s
    <2>1. Run(lost(c, FALSE)) /\ FALSE \in BOOLEAN
      BY <1>2 DEF CredentialsFail
    <2> QED
      BY <1>1, <2>1, LostHere, RunReplaced
  <1>3. CASE c.socket # s
    BY <1>1, <1>3, RunSame DEF CredentialsFail
  <1> QED
    BY <1>2, <1>3

LEMMA AuthRefusedInv ==
  ASSUME HarmlessCallback, SocketInv, AuthRefused
  PROVE  SocketInv'
  <1> DEFINE d == [c EXCEPT !.authWaits = FALSE]
  <1>1. PICK final \in BOOLEAN : Run(IF final THEN stop(d) ELSE lost(d, FALSE))
    BY DEF AuthRefused
  <1>2. Around
    BY Here DEF AuthRefused, Around, Hears
  <1>3. c \in ConnType /\ FALSE \in BOOLEAN /\ Loose(c, c)
    BY Here
  <1>4. SameLoss(c, d) /\ d.status = c.status /\ d.timer = c.timer
    BY <1>3, SetAuth
  <1>5. Loose(c, d)
    BY <1>3, <1>4, LooseSame
  <1> HIDE DEF d
  <1>6. CASE final
    <2>1. Run(stop(d))
      BY <1>1, <1>6
    <2>2. Ended(c, stop(d))
      BY <1>5, StopFacts
    <2> QED
      BY <1>2, <1>3, <2>1, <2>2, EndedReplaced, RunReplaced
  <1>7. CASE ~ final
    <2>1. Run(lost(d, FALSE))
      BY <1>1, <1>7
    <2>2. /\ d.status \in {"paused", "closed"} => ~ d.timer
          /\ d.status = "closed" => d.waiters = {} /\ (c.status # "closed" => d.wake)
      BY <1>4, Here DEF SameLoss
    <2>3. Ended(c, lost(d, FALSE))
      BY ONLY HarmlessCallback, <1>3, <1>5, <2>2, LostFacts
    <2> QED
      BY <1>2, <1>3, <2>1, <2>3, EndedReplaced, RunReplaced
  <1> QED
    BY <1>6, <1>7

LEMMA CheckLivenessInv ==
  ASSUME HarmlessCallback, SocketInv, CheckLiveness
  PROVE  SocketInv'
  <1>1. Around /\ Run(lost(c, FALSE)) /\ FALSE \in BOOLEAN
    BY Here DEF CheckLiveness, Around
  <1> QED
    BY <1>1, LostHere, RunReplaced

LEMMA ReconnectTimerInv ==
  ASSUME HarmlessCallback, SocketInv, ReconnectTimer
  PROVE  SocketInv'
  <1>1. Around /\ Run(open(c)) /\ c.next \in SocketId /\ c.timer
    BY Here DEF ReconnectTimer, Around, SocketsLeft
  <1>2. Settled(c) /\ AtRest(c) /\ Loose(c, c) /\ Driven(c) /\ Requests(c) /\ c.status \in Status
    BY Here
  <1>3. c.status = "connecting" /\ c.socket = 0
    BY <1>1, <1>2 DEF Driven, Status
  <1>4. Gone(c, c)
    BY <1>2, <1>3 DEF Gone, AtRest, Requests, Driven
  <1>5. Replaced(c, open(c))
    BY ONLY HarmlessCallback, <1>1, <1>2, <1>4, OpenFacts
  <1> QED
    BY <1>1, <1>5, RunReplaced

LEMMA PauseInv ==
  ASSUME HarmlessCallback, SocketInv, Pause
  PROVE  SocketInv'
  <1>1. Around /\ Run(disconnect(c, "paused")) /\ Loose(c, c) /\ c \in ConnType
    BY Here DEF Pause, Around
  <1>2. Ended(c, disconnect(c, "paused"))
    BY <1>1, DisconnectFacts
  <1> QED
    BY <1>1, <1>2, EndedReplaced, RunReplaced

LEMMA CloseInv ==
  ASSUME HarmlessCallback, SocketInv, Close
  PROVE  SocketInv'
  <1>1. Around /\ Run(stop(c)) /\ Loose(c, c) /\ c \in ConnType
    BY Here DEF Close, Around
  <1>2. Ended(c, stop(c))
    BY <1>1, StopFacts
  <1> QED
    BY <1>1, <1>2, EndedReplaced, RunReplaced

LEMMA ResumeInv ==
  ASSUME HarmlessCallback, SocketInv, Resume
  PROVE  SocketInv'
  <1>1. Around /\ Run(resume(c, quiet)) /\ Settled(c) /\ AtRest(c) /\ c.next \in SocketId
    BY Here DEF Resume, Around, SocketsLeft
  <1>2. resume(c, quiet) = c \/ Replaced(c, resume(c, quiet))
    BY ONLY HarmlessCallback, <1>1, ResumeFacts
  <1> QED
    BY <1>1, <1>2, RunReplaced, RunSame

LEMMA CloseEventInv ==
  ASSUME HarmlessCallback, SocketInv, NEW s \in SocketId, CloseEvent(s)
  PROVE  SocketInv'
  <1>1. PICK terminal \in BOOLEAN :
          RunOn(s, "closed", IF c.socket = s THEN lost(c, terminal) ELSE c)
    BY DEF CloseEvent
  <1>2. /\ NetMove(s, "closed") /\ "closed" \in NetState
        /\ asking' \subseteq asking /\ handling' \in SUBSET SocketId /\ quiet' \in 0 .. 2
        /\ UNCHANGED reader
    BY Here DEF CloseEvent, NetMove, NetState
  <1>3. CASE c.socket = s
    <2>1. RunOn(s, "closed", lost(c, terminal)) /\ Replaced(c, lost(c, terminal))
      BY <1>1, <1>3, LostHere
    <2> QED
      BY ONLY SocketInv, s \in SocketId, <1>2, <2>1, ReplacedInv
  <1>4. CASE c.socket # s
    <2>1. PICK F : F = <<>>
      OBVIOUS
    <2>2. Stayed(c, c, F) /\ RunOn(s, "closed", c)
      BY <1>1, <1>4, <2>1, Idle
    <2>3. asking' \in SUBSET asking /\ asking' \in SUBSET SocketId
      BY <1>2, Here
    <2> DEFINE now == [net EXCEPT ![s] = "closed"][c.socket]
    <2>4. c.socket # 0 /\ now = "connecting" => net[c.socket] = "connecting"
      BY <1>4, Here
    <2> HIDE DEF now
    <2>5. LoggedIn(c, F, now, asking')
      BY <2>1, <2>3, <2>4, Silent
    <2>6. /\ LoggedIn(c, F, [net EXCEPT ![s] = "closed"][c.socket], asking')
          /\ \A t \in asking' : t \in asking
      BY <1>2, <2>5 DEF now
    <2> QED
      BY ONLY SocketInv, s \in SocketId, <1>2, <2>2, <2>3, <2>6, StayedInv
  <1> QED
    BY <1>3, <1>4

-----------------------------------------------------------------------------
(* The steps that keep the socket                                          *)

\* The requests ks are over, and nothing is written.
LEMMA Answered ==
  ASSUME SocketInv, NEW d \in ConnType, NEW ks \in SUBSET Request, NEW F, F = <<>>,
         d.waiters = c.waiters \ ks,
         \A k \in Request : d.done[k] = IF k \in ks THEN "over" ELSE c.done[k],
         ToSet(d.outbox) = ToSet(c.outbox) \ ks, Distinct(d.outbox),
         c.outbox = <<>> => d.outbox = <<>>,
         c.wake => d.wake, d.queue # c.queue => d.wake,
         d.written = c.written /\ d.opened = c.opened /\ d.dropped = c.dropped,
         d.socket = c.socket /\ d.next = c.next /\ d.status = c.status /\ d.ready = c.ready,
         d.timer = c.timer /\ d.authWaits = c.authWaits
  PROVE  Stayed(c, d, F)
  <1>1. Settled(c) /\ AtRest(c) /\ Requests(c) /\ Driven(c)
    BY Here
  <1>2. Driven(d) /\ d.socket < d.next
    BY <1>1 DEF Driven, Settled
  <1>3. Requests(d)
    <2>1. IsFiniteSet(d.waiters)
      BY <1>1, FS_Subset DEF Requests
    <2>2. d.waiters = {k \in Request : d.done[k] = "pending"}
      BY <1>1 DEF Requests
    <2> QED
      BY <1>1, <2>1, <2>2 DEF Requests
  <1>4. Settled(d)
    BY <1>2, <1>3 DEF Settled
  <1>5. \A i \in DOMAIN F : FALSE
    OBVIOUS
  <1>6. Woken(c, d)
    BY DEF Woken
  <1> QED
    BY <1>1, <1>4, <1>5, <1>6 DEF Stayed, AtRest

LEMMA RunAnswered ==
  ASSUME SocketInv, NEW d \in ConnType, NEW ks \in SUBSET Request, Run(d), Around,
         d.waiters = c.waiters \ ks,
         \A k \in Request : d.done[k] = IF k \in ks THEN "over" ELSE c.done[k],
         ToSet(d.outbox) = ToSet(c.outbox) \ ks, Distinct(d.outbox),
         c.outbox = <<>> => d.outbox = <<>>,
         c.wake => d.wake, d.queue # c.queue => d.wake,
         d.written = c.written /\ d.opened = c.opened /\ d.dropped = c.dropped,
         d.socket = c.socket /\ d.next = c.next /\ d.status = c.status /\ d.ready = c.ready,
         d.timer = c.timer /\ d.authWaits = c.authWaits
  PROVE  SocketInv'
  <1>1. PICK F : F = <<>>
    OBVIOUS
  <1>2. Stayed(c, d, F)
    BY <1>1, Answered
  <1>3. LoggedIn(d, F, net[c.socket], asking')
    <2>1. asking' \in SUBSET asking
      BY DEF Around
    <2> QED
      BY <1>1, <2>1, Silent
  <1> QED
    BY <1>2, <1>3, RunStayed

\* A request the server got is not queued.
LEMMA ReceivedFacts ==
  ASSUME SocketInv, NEW k \in Request, Received(k)
  PROVE  k \notin ToSet(c.outbox)
  BY DEF SocketInv, OnWire, Received

\* The parts of a result.
LEMMA PushFacts ==
  ASSUME NEW d \in ConnType, NEW k \in Request, NEW e, e = pushResult(d, k)
  PROVE  /\ e \in ConnType /\ e.wake
         /\ e.waiters = d.waiters /\ e.done = d.done /\ e.outbox = d.outbox
         /\ e.written = d.written /\ e.opened = d.opened /\ e.dropped = d.dropped
         /\ e.socket = d.socket /\ e.next = d.next /\ e.status = d.status /\ e.ready = d.ready
         /\ e.timer = d.timer /\ e.authWaits = d.authWaits
  <1> DEFINE q == Newest(Append(d.queue, k))
  <1>1. q \in Seq(Request)
    <2>1. Append(d.queue, k) \in Seq(Request)
      BY ConnFields
    <2> QED
      BY <2>1, NewestSeq
  <1>2. e = [d EXCEPT !.queue = q, !.wake = TRUE]
    BY DEF pushResult
  <1> HIDE DEF q
  <1> QED
    BY <1>1, <1>2 DEF ConnType

\* The wait for request k ends.
Over(d, k) == [d EXCEPT !.waiters = @ \ {k}, !.done[k] = "over"]

LEMMA OverFacts ==
  ASSUME NEW d \in ConnType, NEW k \in Request, NEW e, e = Over(d, k)
  PROVE  /\ e \in ConnType
         /\ e.waiters = d.waiters \ {k}
         /\ \A j \in Request : e.done[j] = IF j \in {k} THEN "over" ELSE d.done[j]
         /\ e.outbox = d.outbox /\ e.queue = d.queue /\ e.wake = d.wake
         /\ e.written = d.written /\ e.opened = d.opened /\ e.dropped = d.dropped
         /\ e.socket = d.socket /\ e.next = d.next /\ e.status = d.status /\ e.ready = d.ready
         /\ e.timer = d.timer /\ e.authWaits = d.authWaits
  <1> DEFINE D == [d.done EXCEPT ![k] = "over"]
             W == d.waiters \ {k}
  <1>1. /\ D \in [Request -> {"new", "pending", "over"}] /\ W \in SUBSET Request
        /\ \A j \in Request : D[j] = IF j \in {k} THEN "over" ELSE d.done[j]
    BY ConnFields
  <1>2. e = [d EXCEPT !.waiters = W, !.done = D]
    BY DEF Over, ConnType
  <1> HIDE DEF D, W
  <1>3. /\ e \in ConnType /\ e.waiters = W /\ e.done = D
        /\ e.outbox = d.outbox /\ e.queue = d.queue /\ e.wake = d.wake
        /\ e.written = d.written /\ e.opened = d.opened /\ e.dropped = d.dropped
        /\ e.socket = d.socket /\ e.next = d.next /\ e.status = d.status /\ e.ready = d.ready
        /\ e.timer = d.timer /\ e.authWaits = d.authWaits
    BY <1>1, <1>2 DEF ConnType
  <1> QED
    BY <1>1, <1>3 DEF W

LEMMA ResultInv ==
  ASSUME SocketInv, NEW k \in Request, Result(k)
  PROVE  SocketInv'
  <1> DEFINE d == IF k \notin c.waiters THEN c
                  ELSE [c EXCEPT !.waiters = @ \ {k}, !.done[k] = "over"]
             e == IF k \in c.waiters \cap Stream THEN pushResult(d, k) ELSE d
  <1>1. Around /\ Run(e)
    BY Here DEF Result, Around
  <1>2. c \in ConnType /\ Requests(c) /\ k \notin ToSet(c.outbox)
    BY Here, ReceivedFacts DEF Result
  <1>3. CASE k \notin c.waiters
    BY <1>1, <1>3, RunSame
  <1>4. CASE k \in c.waiters
    <2>1. d = Over(c, k)
      BY <1>4 DEF Over
    <2> HIDE DEF d
    <2>2. /\ d \in ConnType
          /\ d.waiters = c.waiters \ {k}
          /\ \A j \in Request : d.done[j] = IF j \in {k} THEN "over" ELSE c.done[j]
          /\ d.outbox = c.outbox /\ d.queue = c.queue /\ d.wake = c.wake
          /\ d.written = c.written /\ d.opened = c.opened /\ d.dropped = c.dropped
          /\ d.socket = c.socket /\ d.next = c.next /\ d.status = c.status /\ d.ready = c.ready
          /\ d.timer = c.timer /\ d.authWaits = c.authWaits
      BY ONLY k \in Request, <1>2, <2>1, OverFacts
    <2>3. /\ e \in ConnType
          /\ e.waiters = d.waiters /\ e.done = d.done /\ e.outbox = d.outbox
          /\ e.written = d.written /\ e.opened = d.opened /\ e.dropped = d.dropped
          /\ e.socket = d.socket /\ e.next = d.next /\ e.status = d.status /\ e.ready = d.ready
          /\ e.timer = d.timer /\ e.authWaits = d.authWaits
          /\ d.wake => e.wake
          /\ e.queue # d.queue => e.wake
      BY <2>2, PushFacts
    <2> HIDE DEF e
    <2>4. /\ {k} \in SUBSET Request /\ e.waiters = c.waiters \ {k}
          /\ \A j \in Request : e.done[j] = IF j \in {k} THEN "over" ELSE c.done[j]
          /\ ToSet(e.outbox) = ToSet(c.outbox) \ {k} /\ Distinct(e.outbox)
          /\ c.outbox = <<>> => e.outbox = <<>>
      BY <1>2, <2>2, <2>3 DEF Requests
    <2>5. /\ c.wake => e.wake
          /\ e.queue # c.queue => e.wake
          /\ e.written = c.written /\ e.opened = c.opened /\ e.dropped = c.dropped
          /\ e.socket = c.socket /\ e.next = c.next /\ e.status = c.status /\ e.ready = c.ready
          /\ e.timer = c.timer /\ e.authWaits = c.authWaits
      BY <2>2, <2>3
    <2> QED
      BY ONLY SocketInv, <1>1, <2>3, <2>4, <2>5, RunAnswered
  <1> QED
    BY <1>3, <1>4

LEMMA ItemInv ==
  ASSUME SocketInv, NEW k \in Request, Item(k)
  PROVE  SocketInv'
  <1> DEFINE e == pushResult(c, k)
  <1>1. Around /\ Run(IF k \in c.waiters THEN e ELSE c)
    BY Here DEF Item, Around
  <1>2. c \in ConnType /\ Requests(c)
    BY Here
  <1>3. CASE k \notin c.waiters
    BY <1>1, <1>3, RunSame
  <1>4. CASE k \in c.waiters
    <2>1. /\ e \in ConnType /\ e.wake
          /\ e.waiters = c.waiters /\ e.done = c.done /\ e.outbox = c.outbox
          /\ e.written = c.written /\ e.opened = c.opened /\ e.dropped = c.dropped
          /\ e.socket = c.socket /\ e.next = c.next /\ e.status = c.status /\ e.ready = c.ready
          /\ e.timer = c.timer /\ e.authWaits = c.authWaits
      BY ONLY k \in Request, <1>2, PushFacts
    <2> HIDE DEF e
    <2>2. /\ {} \in SUBSET Request /\ e.waiters = c.waiters \ {}
          /\ \A j \in Request : e.done[j] = IF j \in {} THEN "over" ELSE c.done[j]
          /\ ToSet(e.outbox) = ToSet(c.outbox) \ {} /\ Distinct(e.outbox)
          /\ c.outbox = <<>> => e.outbox = <<>>
      BY <1>2, <2>1 DEF Requests
    <2>3. Run(e)
      BY <1>1, <1>4
    <2> QED
      BY ONLY SocketInv, <1>1, <2>1, <2>2, <2>3, RunAnswered
  <1> QED
    BY <1>3, <1>4

LEMMA EndFrameInv ==
  ASSUME SocketInv, NEW k \in Request, EndFrame(k)
  PROVE  SocketInv'
  <1> DEFINE e == Over(c, k)
  <1>1. Around /\ Run(IF k \in c.waiters THEN e ELSE c)
    BY Here DEF EndFrame, Around, Over
  <1>2. c \in ConnType /\ Requests(c) /\ k \notin ToSet(c.outbox)
    BY Here, ReceivedFacts DEF EndFrame
  <1>3. CASE k \notin c.waiters
    BY <1>1, <1>3, RunSame
  <1>4. CASE k \in c.waiters
    <2>1. /\ e \in ConnType
          /\ e.waiters = c.waiters \ {k}
          /\ \A j \in Request : e.done[j] = IF j \in {k} THEN "over" ELSE c.done[j]
          /\ e.outbox = c.outbox /\ e.queue = c.queue /\ e.wake = c.wake
          /\ e.written = c.written /\ e.opened = c.opened /\ e.dropped = c.dropped
          /\ e.socket = c.socket /\ e.next = c.next /\ e.status = c.status /\ e.ready = c.ready
          /\ e.timer = c.timer /\ e.authWaits = c.authWaits
      BY ONLY k \in Request, <1>2, OverFacts
    <2> HIDE DEF e
    <2>2. /\ {k} \in SUBSET Request
          /\ ToSet(e.outbox) = ToSet(c.outbox) \ {k} /\ Distinct(e.outbox)
          /\ c.outbox = <<>> => e.outbox = <<>>
      BY <1>2, <2>1 DEF Requests
    <2>3. Run(e)
      BY <1>1, <1>4
    <2>4. /\ c.wake => e.wake
          /\ e.queue # c.queue => e.wake
      BY <2>1
    <2> QED
      BY ONLY SocketInv, <1>1, <2>1, <2>2, <2>3, <2>4, RunAnswered
  <1> QED
    BY <1>3, <1>4

\* A queue without one of its requests.
LEMMA WithoutFacts ==
  ASSUME NEW q \in Seq(Request), Distinct(q), NEW k \in Request, NEW w, w = Without(q, k)
  PROVE  /\ w \in Seq(Request) /\ Distinct(w)
         /\ ToSet(w) = ToSet(q) \ {k}
         /\ q = <<>> => w = <<>>
  <1>1. CASE k \notin ToSet(q)
    BY <1>1 DEF Without
  <1>2. CASE k \in ToSet(q)
    <2> DEFINE at == CHOOSE i \in DOMAIN q : q[i] = k
               n == Len(q)
    <2>1. at \in DOMAIN q /\ q[at] = k
      BY <1>2 DEF ToSet
    <2>2. n \in Nat /\ DOMAIN q = 1 .. n
      OBVIOUS
    <2>3. w = [i \in 1 .. n - 1 |-> IF i < at THEN q[i] ELSE q[i + 1]]
      BY <1>2 DEF Without
    <2> HIDE DEF at, n
    <2>4. /\ n \in Nat /\ at \in Nat /\ n >= 1 /\ n - 1 \in Nat /\ at \in 1 .. n
          /\ \A i \in 1 .. n - 1 : i \in 1 .. n /\ i + 1 \in 1 .. n
      BY <2>1, <2>2
    <2>5. \A i \in 1 .. n : q[i] \in Request
      BY <2>2
    <2>6. w \in [1 .. n - 1 -> Request]
      BY <2>3, <2>4, <2>5
    <2>7. w \in Seq(Request) /\ DOMAIN w = 1 .. n - 1
      BY <2>4, <2>6
    <2>8. \A i \in 1 .. n - 1 : w[i] = IF i < at THEN q[i] ELSE q[i + 1]
      BY <2>3
    <2>9. \A i, j \in 1 .. n : q[i] = q[j] => i = j
      BY <2>2 DEF Distinct
    <2>10. Distinct(w)
      <3> SUFFICES ASSUME NEW i \in 1 .. n - 1, NEW j \in 1 .. n - 1, w[i] = w[j] PROVE i = j
        BY <2>7 DEF Distinct
      <3>1. at \in Nat /\ i \in Nat /\ j \in Nat
        BY <2>4
      <3>2. /\ i \in 1 .. n /\ i + 1 \in 1 .. n /\ j \in 1 .. n /\ j + 1 \in 1 .. n
            /\ w[i] = IF i < at THEN q[i] ELSE q[i + 1]
            /\ w[j] = IF j < at THEN q[j] ELSE q[j + 1]
        BY <2>4, <2>8
      <3>3. CASE i < at /\ j < at
        BY <2>9, <3>2, <3>3
      <3>4. CASE i < at /\ ~ (j < at)
        <4>1. i = j + 1
          BY <2>9, <3>2, <3>4
        <4> QED
          BY <3>1, <3>4, <4>1
      <3>5. CASE ~ (i < at) /\ j < at
        <4>1. i + 1 = j
          BY <2>9, <3>2, <3>5
        <4> QED
          BY <3>1, <3>5, <4>1
      <3>6. CASE ~ (i < at) /\ ~ (j < at)
        <4>1. i + 1 = j + 1
          BY <2>9, <3>2, <3>6
        <4> QED
          BY <3>1, <4>1
      <3> QED
        BY <3>3, <3>4, <3>5, <3>6
    <2>11. ASSUME NEW x \in ToSet(w) PROVE x \in ToSet(q) /\ x # k
      <3>1. PICK i \in 1 .. n - 1 : w[i] = x
        BY <2>7, <2>11, InSeq
      <3>2. PICK j \in 1 .. n : q[j] = x /\ j # at
        BY <2>4, <2>8, <3>1
      <3> QED
        BY <2>1, <2>2, <2>9, <3>2, InSeq
    <2>12. ASSUME NEW x \in ToSet(q), x # k PROVE x \in ToSet(w)
      <3>1. PICK j \in 1 .. n : q[j] = x
        BY <2>2, InSeq
      <3>2. j # at
        BY <2>1, <2>12, <3>1
      <3>3. PICK i \in 1 .. n - 1 : w[i] = x
        <4>1. CASE j < at
          <5>1. j \in 1 .. n - 1
            BY <2>4, <4>1
          <5> QED
            BY <2>8, <3>1, <4>1, <5>1
        <4>2. CASE j > at
          <5>1. j - 1 \in 1 .. n - 1 /\ ~ (j - 1 < at) /\ (j - 1) + 1 = j
            BY <2>4, <4>2
          <5> QED
            BY <2>8, <3>1, <5>1
        <4> QED
          BY <2>4, <3>2, <4>1, <4>2
      <3> QED
        BY <2>7, <3>3, InSeq
    <2>13. q # <<>>
      BY <2>1
    <2> QED
      BY <2>7, <2>10, <2>11, <2>12, <2>13
  <1> QED
    BY <1>1, <1>2

LEMMA TimeOutInv ==
  ASSUME SocketInv, NEW k \in Request, TimeOut(k)
  PROVE  SocketInv'
  <1> DEFINE w == Without(c.outbox, k)
             d == Over(c, k)
             e == [c EXCEPT !.waiters = @ \ {k}, !.done[k] = "over", !.outbox = Without(@, k)]
  <1>1. Around /\ Run(e)
    BY Here DEF TimeOut, Around
  <1>2. c \in ConnType /\ Requests(c) /\ c.outbox \in Seq(Request) /\ Distinct(c.outbox)
    BY Here, ConnFields DEF Requests
  <1>3. /\ w \in Seq(Request) /\ Distinct(w)
        /\ ToSet(w) = ToSet(c.outbox) \ {k}
        /\ c.outbox = <<>> => w = <<>>
    BY ONLY k \in Request, <1>2, WithoutFacts
  <1>4. e = [d EXCEPT !.outbox = w]
    BY <1>2 DEF ConnType, Over
  <1> HIDE DEF w
  <1>5. /\ d \in ConnType
        /\ d.waiters = c.waiters \ {k}
        /\ \A j \in Request : d.done[j] = IF j \in {k} THEN "over" ELSE c.done[j]
        /\ d.outbox = c.outbox /\ d.queue = c.queue /\ d.wake = c.wake
        /\ d.written = c.written /\ d.opened = c.opened /\ d.dropped = c.dropped
        /\ d.socket = c.socket /\ d.next = c.next /\ d.status = c.status /\ d.ready = c.ready
        /\ d.timer = c.timer /\ d.authWaits = c.authWaits
    BY ONLY k \in Request, <1>2, OverFacts
  <1> HIDE DEF d, e
  <1>6. /\ e \in ConnType /\ e.outbox = w
        /\ e.waiters = d.waiters /\ e.done = d.done /\ e.queue = d.queue /\ e.wake = d.wake
        /\ e.written = d.written /\ e.opened = d.opened /\ e.dropped = d.dropped
        /\ e.socket = d.socket /\ e.next = d.next /\ e.status = d.status /\ e.ready = d.ready
        /\ e.timer = d.timer /\ e.authWaits = d.authWaits
    BY ONLY <1>3, <1>4, <1>5 DEF ConnType
  <1>7. /\ {k} \in SUBSET Request /\ e.waiters = c.waiters \ {k}
        /\ \A j \in Request : e.done[j] = IF j \in {k} THEN "over" ELSE c.done[j]
        /\ ToSet(e.outbox) = ToSet(c.outbox) \ {k} /\ Distinct(e.outbox)
        /\ c.outbox = <<>> => e.outbox = <<>>
        /\ c.wake => e.wake
        /\ e.queue # c.queue => e.wake
        /\ e.written = c.written /\ e.opened = c.opened /\ e.dropped = c.dropped
        /\ e.socket = c.socket /\ e.next = c.next /\ e.status = c.status /\ e.ready = c.ready
        /\ e.timer = c.timer /\ e.authWaits = c.authWaits
    BY <1>3, <1>5, <1>6
  <1> QED
    BY ONLY SocketInv, <1>1, <1>6, <1>7, RunAnswered

\* write, on a connection that has a socket.
LEMMA WriteFacts ==
  ASSUME NEW d \in ConnType, d.written = <<>>, d.socket # 0, NEW frame \in FrameType,
         NEW e, e = write(d, frame)
  PROVE  /\ e \in ConnType
         /\ e.written \in Seq(FrameType) /\ DOMAIN e.written = {1} /\ Len(e.written) = 1
         /\ e.written[1] = frame
         /\ e.waiters = d.waiters /\ e.done = d.done /\ e.outbox = d.outbox
         /\ e.queue = d.queue /\ e.wake = d.wake /\ e.opened = d.opened /\ e.dropped = d.dropped
         /\ e.socket = d.socket /\ e.next = d.next /\ e.status = d.status /\ e.ready = d.ready
         /\ e.timer = d.timer /\ e.authWaits = d.authWaits
  <1> DEFINE F == Append(d.written, frame)
  <1>1. F \in Seq(FrameType) /\ DOMAIN F = {1} /\ Len(F) = 1 /\ F[1] = frame
    <2>1. d.written \in Seq(FrameType) /\ Len(d.written) = 0
      BY ConnFields
    <2>2. F \in Seq(FrameType) /\ Len(F) = 1 /\ F[1] = frame
      BY <2>1
    <2>3. DOMAIN F = 1 .. 1
      BY <2>2
    <2> QED
      BY <2>2, <2>3
  <1>2. e = [d EXCEPT !.written = F]
    BY DEF write
  <1> HIDE DEF F
  <1>3. /\ e \in ConnType /\ e.written = F
        /\ e.waiters = d.waiters /\ e.done = d.done /\ e.outbox = d.outbox
        /\ e.queue = d.queue /\ e.wake = d.wake /\ e.opened = d.opened /\ e.dropped = d.dropped
        /\ e.socket = d.socket /\ e.next = d.next /\ e.status = d.status /\ e.ready = d.ready
        /\ e.timer = d.timer /\ e.authWaits = d.authWaits
    BY <1>1, <1>2 DEF ConnType
  <1> QED
    BY <1>1, <1>3

\* A frame that is no call was written.
LEMMA WroteOne ==
  ASSUME SocketInv, c.socket # 0, NEW d \in ConnType, NEW F, d.written = F, DOMAIN F = {1},
         F[1].kind # "call",
         d.waiters = c.waiters /\ d.done = c.done /\ d.outbox = c.outbox,
         d.queue = c.queue /\ d.wake = c.wake /\ d.opened = c.opened /\ d.dropped = c.dropped,
         d.socket = c.socket /\ d.next = c.next /\ d.status = c.status /\ d.ready = c.ready,
         d.timer = c.timer
  PROVE  Stayed(c, d, F)
  <1>1. Settled(c) /\ AtRest(c) /\ Requests(c) /\ Driven(c)
    BY Here
  <1>2. Settled(d)
    <2>1. Driven(d)
      BY <1>1 DEF Driven
    <2>2. Requests(d)
      BY <1>1 DEF Requests
    <2> QED
      BY <1>1, <2>1, <2>2 DEF Settled
  <1>3. ASSUME NEW i \in DOMAIN F, NEW k \in Request, F[i] = Frame("call", k) PROVE FALSE
    BY <1>3, CallFrames
  <1>4. Woken(c, d)
    BY DEF Woken
  <1> QED
    BY <1>1, <1>2, <1>3, <1>4 DEF Stayed, AtRest

LEMMA HandlerDoneInv ==
  ASSUME SocketInv, NEW s \in SocketId, HandlerDone(s)
  PROVE  SocketInv'
  <1> DEFINE x == Frame("client_result", s)
             e == write(c, x)
             F == e.written
  <1>1. Around /\ Run(e) /\ asking' = asking
    BY Here DEF HandlerDone, Around
  <1>2. c \in ConnType /\ c.written = <<>>
    BY Here DEF AtRest
  <1>3. x \in FrameType /\ x.kind = "client_result"
    BY Constants, FrameFacts
  <1> HIDE DEF x
  <1>4. CASE c.socket = 0
    <2>1. e = c
      BY <1>4 DEF write
    <2> QED
      BY <1>1, <2>1, RunSame
  <1>5. CASE c.socket # 0
    <2>1. /\ e \in ConnType
          /\ DOMAIN F = {1} /\ Len(F) = 1 /\ F[1] = x
          /\ e.waiters = c.waiters /\ e.done = c.done /\ e.outbox = c.outbox
          /\ e.queue = c.queue /\ e.wake = c.wake /\ e.opened = c.opened /\ e.dropped = c.dropped
          /\ e.socket = c.socket /\ e.next = c.next /\ e.status = c.status /\ e.ready = c.ready
          /\ e.timer = c.timer /\ e.authWaits = c.authWaits
      BY ONLY <1>2, <1>3, <1>5, WriteFacts
    <2>2. e.written = F /\ F[1].kind # "call"
      BY <1>3, <2>1
    <2> HIDE DEF F, e
    <2>3. Stayed(c, e, F)
      BY ONLY SocketInv, <1>5, <2>1, <2>2, WroteOne
    <2>4. LoggedIn(e, F, net[c.socket], asking')
      <3>1. c.socket \in SocketId
        BY <1>5, Here
      <3>2. net[c.socket] = "connecting" \/ c.socket \in asking => ~ c.ready /\ ~ c.authWaits
        BY <3>1 DEF SocketInv, Sockets
      <3>3. \A i \in DOMAIN F : F[i].kind = "client_result"
        BY <1>3, <2>1
      <3> QED
        BY <1>1, <2>1, <3>2, <3>3 DEF LoggedIn
    <2> QED
      BY <1>1, <2>3, <2>4, RunStayed
  <1> QED
    BY <1>4, <1>5

LEMMA CredentialsInv ==
  ASSUME SocketInv, NEW s \in SocketId, Credentials(s)
  PROVE  SocketInv'
  <1> DEFINE x == Frame("auth", 0)
             d == [c EXCEPT !.authWaits = TRUE]
             e == write(d, x)
             F == e.written
  <1>1. Around /\ s \in asking /\ asking' = asking \ {s} /\ Run(IF c.socket = s THEN e ELSE c)
    BY Here DEF Credentials, Around, requestAuth
  <1>2. c \in ConnType /\ c.written = <<>>
    BY Here DEF AtRest
  <1>3. x \in FrameType /\ x.kind = "auth"
    BY FrameFacts
  <1> HIDE DEF x
  <1>4. CASE c.socket # s
    BY <1>1, <1>4, RunSame
  <1>5. CASE c.socket = s
    <2>1. SameLoss(c, d) /\ d.status = c.status /\ d.timer = c.timer /\ d.authWaits
      BY <1>2, SetAuth
    <2>2. d \in ConnType /\ d.written = <<>> /\ d.socket # 0 /\ c.socket # 0
      BY <1>2, <1>5, <2>1, Constants DEF SameLoss
    <2> HIDE DEF d
    <2>3. /\ e \in ConnType
          /\ DOMAIN F = {1} /\ Len(F) = 1 /\ F[1] = x
          /\ e.waiters = d.waiters /\ e.done = d.done /\ e.outbox = d.outbox
          /\ e.queue = d.queue /\ e.wake = d.wake /\ e.opened = d.opened /\ e.dropped = d.dropped
          /\ e.socket = d.socket /\ e.next = d.next /\ e.status = d.status /\ e.ready = d.ready
          /\ e.timer = d.timer /\ e.authWaits = d.authWaits
      BY ONLY <1>3, <2>2, WriteFacts
    <2>4. e.written = F /\ F[1].kind # "call"
      BY <1>3, <2>3
    <2> HIDE DEF F, e
    <2>5. /\ e.waiters = c.waiters /\ e.done = c.done /\ e.outbox = c.outbox
          /\ e.queue = c.queue /\ e.wake = c.wake /\ e.opened = c.opened /\ e.dropped = c.dropped
          /\ e.socket = c.socket /\ e.next = c.next /\ e.status = c.status /\ e.ready = c.ready
          /\ e.timer = c.timer
      BY <2>1, <2>3 DEF SameLoss
    <2>6. Stayed(c, e, F)
      BY ONLY SocketInv, <2>2, <2>3, <2>4, <2>5, WroteOne
    <2>7. LoggedIn(e, F, net[c.socket], asking')
      <3>1. c.socket \in asking /\ net[c.socket] # "connecting" /\ c.socket \notin asking'
        BY <1>1, <1>5 DEF SocketInv, Sockets
      <3>2. \A i \in DOMAIN F : F[i].kind = "auth"
        BY <1>3, <2>3
      <3>3. \E i \in DOMAIN F : F[i].kind = "auth"
        BY <1>3, <2>3
      <3> QED
        BY <2>3, <3>1, <3>2, <3>3 DEF LoggedIn
    <2>8. Run(e)
      BY <1>1, <1>5
    <2> QED
      BY <1>1, <2>6, <2>7, <2>8, RunStayed
  <1> QED
    BY <1>4, <1>5

\* call and send: request k waits.
Waiting(d, k) == [d EXCEPT !.done[k] = "pending", !.waiters = @ \cup {k}]

LEMMA WaitingFacts ==
  ASSUME NEW d \in ConnType, NEW k \in Request, NEW e, e = Waiting(d, k)
  PROVE  /\ e \in ConnType
         /\ e.waiters = d.waiters \cup {k}
         /\ \A j \in Request : e.done[j] = IF j = k THEN "pending" ELSE d.done[j]
         /\ e.outbox = d.outbox /\ e.queue = d.queue /\ e.wake = d.wake
         /\ e.written = d.written /\ e.opened = d.opened /\ e.dropped = d.dropped
         /\ e.socket = d.socket /\ e.next = d.next /\ e.status = d.status /\ e.ready = d.ready
         /\ e.timer = d.timer /\ e.authWaits = d.authWaits
  <1> DEFINE D == [d.done EXCEPT ![k] = "pending"]
             W == d.waiters \cup {k}
  <1>1. /\ D \in [Request -> {"new", "pending", "over"}] /\ W \in SUBSET Request
        /\ \A j \in Request : D[j] = IF j = k THEN "pending" ELSE d.done[j]
    BY ConnFields
  <1>2. e = [d EXCEPT !.waiters = W, !.done = D]
    BY DEF Waiting, ConnType
  <1> HIDE DEF D, W
  <1>3. /\ e \in ConnType /\ e.waiters = W /\ e.done = D
        /\ e.outbox = d.outbox /\ e.queue = d.queue /\ e.wake = d.wake
        /\ e.written = d.written /\ e.opened = d.opened /\ e.dropped = d.dropped
        /\ e.socket = d.socket /\ e.next = d.next /\ e.status = d.status /\ e.ready = d.ready
        /\ e.timer = d.timer /\ e.authWaits = d.authWaits
    <2>1. D \in [Request -> {"new", "pending", "over"}] /\ W \in SUBSET Request
      BY <1>1
    <2> QED
      BY ONLY d \in ConnType, <1>2, <2>1 DEF ConnType
  <1> QED
    BY <1>1, <1>3 DEF W

\* One more request in the outbox.
LEMMA Queued ==
  ASSUME NEW q \in Seq(Request), NEW k \in Request, Distinct(q), k \notin ToSet(q),
         NEW w, w = Append(q, k)
  PROVE  w \in Seq(Request) /\ Distinct(w) /\ ToSet(w) = ToSet(q) \cup {k}
  <1> DEFINE n == Len(q)
  <1>1. /\ n \in Nat /\ DOMAIN q = 1 .. n /\ w \in Seq(Request) /\ DOMAIN w = 1 .. n + 1
        /\ \A i \in 1 .. n : w[i] = q[i]
        /\ w[n + 1] = k
    OBVIOUS
  <1> HIDE DEF n
  <1>2. \A i \in 1 .. n + 1 : i \in 1 .. n \/ i = n + 1
    BY <1>1
  <1>3. \A i \in 1 .. n : q[i] # k
    BY <1>1, InSeq
  <1>4. Distinct(w)
    BY <1>1, <1>2, <1>3 DEF Distinct
  <1>5. ASSUME NEW x PROVE x \in ToSet(w) <=> x \in ToSet(q) \/ x = k
    <2>1. ASSUME x \in ToSet(w) PROVE x \in ToSet(q) \/ x = k
      <3>1. PICK i \in 1 .. n + 1 : w[i] = x
        BY ONLY <1>1, <2>1 DEF ToSet
      <3>2. (i \in 1 .. n /\ q[i] = x) \/ x = k
        BY <1>1, <1>2, <3>1
      <3> QED
        BY <1>1, <3>2, InSeq
    <2>2. ASSUME x \in ToSet(q) PROVE x \in ToSet(w)
      <3>1. PICK i \in 1 .. n : q[i] = x
        BY <1>1, <2>2, InSeq
      <3>2. i \in 1 .. n + 1 /\ w[i] = x
        BY <1>1, <3>1
      <3> QED
        BY <1>1, <3>2, InSeq
    <2>3. ASSUME x = k PROVE x \in ToSet(w)
      <3>1. n + 1 \in 1 .. n + 1 /\ w[n + 1] = x
        BY <1>1, <2>3
      <3> QED
        BY <1>1, <3>1, InSeq
    <2> QED
      BY <2>1, <2>2, <2>3
  <1> QED
    BY <1>1, <1>4, <1>5

LEMMA MakeInv ==
  ASSUME SocketInv, NEW k \in Request, Make(k)
  PROVE  SocketInv'
  <1> DEFINE p == Waiting(c, k)
  <1>1. /\ Around /\ asking' = asking /\ c.done[k] = "new"
        /\ Run(IF c.status = "closed" THEN [c EXCEPT !.done[k] = "over"] ELSE enqueue(p, k))
    BY Here DEF Make, Around, Waiting
  <1>2. /\ c \in ConnType /\ Requests(c) /\ Driven(c) /\ Settled(c) /\ AtRest(c)
        /\ c.socket # 0 => c.socket \in SocketId
    BY Here
  <1>3. k \notin c.waiters /\ k \notin ToSet(c.outbox)
    BY <1>1, <1>2 DEF Requests
  <1>4. CASE c.status = "closed"
    <2> DEFINE D == [c.done EXCEPT ![k] = "over"]
               e == [c EXCEPT !.done = D]
    <2>1. /\ D \in [Request -> {"new", "pending", "over"}]
          /\ \A j \in Request : D[j] = IF j \in {k} THEN "over" ELSE c.done[j]
      BY <1>2, ConnFields
    <2>2. Run(e)
      BY <1>1, <1>4
    <2> HIDE DEF D
    <2>3. /\ e \in ConnType /\ e.done = D /\ e.waiters = c.waiters
          /\ e.outbox = c.outbox /\ e.queue = c.queue /\ e.wake = c.wake
          /\ e.written = c.written /\ e.opened = c.opened /\ e.dropped = c.dropped
          /\ e.socket = c.socket /\ e.next = c.next /\ e.status = c.status /\ e.ready = c.ready
          /\ e.timer = c.timer /\ e.authWaits = c.authWaits
      BY <1>2, <2>1 DEF ConnType
    <2> HIDE DEF e
    <2>4. /\ {k} \in SUBSET Request /\ e.waiters = c.waiters \ {k}
          /\ \A j \in Request : e.done[j] = IF j \in {k} THEN "over" ELSE c.done[j]
          /\ ToSet(e.outbox) = ToSet(c.outbox) \ {k} /\ Distinct(e.outbox)
          /\ c.outbox = <<>> => e.outbox = <<>>
          /\ c.wake => e.wake
          /\ e.queue # c.queue => e.wake
      BY <1>2, <1>3, <2>1, <2>3 DEF Requests
    <2> QED
      BY ONLY SocketInv, <1>1, <2>2, <2>3, <2>4, RunAnswered
  <1>5. /\ p \in ConnType
        /\ p.waiters = c.waiters \cup {k}
        /\ \A j \in Request : p.done[j] = IF j = k THEN "pending" ELSE c.done[j]
        /\ p.outbox = c.outbox /\ p.queue = c.queue /\ p.wake = c.wake
        /\ p.written = c.written /\ p.opened = c.opened /\ p.dropped = c.dropped
        /\ p.socket = c.socket /\ p.next = c.next /\ p.status = c.status /\ p.ready = c.ready
        /\ p.timer = c.timer /\ p.authWaits = c.authWaits
    BY ONLY k \in Request, <1>2, WaitingFacts
  <1> HIDE DEF p
  <1>6. /\ p.waiters = {j \in Request : p.done[j] = "pending"}
        /\ IsFiniteSet(p.waiters)
        /\ \A j \in Request : p.done[j] = "new" => c.done[j] = "new"
    <2>1. IsFiniteSet(c.waiters \cup {k})
      BY <1>2, FS_AddElement DEF Requests
    <2> QED
      BY <1>2, <1>5, <2>1 DEF Requests
  <1>7. CASE c.status # "closed" /\ c.ready /\ c.socket # 0
    <2> DEFINE x == Frame("call", k)
               e == write(p, x)
               F == e.written
    <2>1. Run(e)
      BY <1>1, <1>5, <1>7 DEF enqueue
    <2>2. x \in FrameType /\ x.kind = "call"
      BY CallFrames
    <2>3. p.written = <<>> /\ p.socket # 0
      BY <1>2, <1>5, <1>7 DEF AtRest
    <2>4. \A j \in Request : x = Frame("call", j) => j = k
      BY CallFrames
    <2> HIDE DEF x
    <2>5. /\ e \in ConnType
          /\ DOMAIN F = {1} /\ Len(F) = 1 /\ F[1] = x
          /\ e.waiters = p.waiters /\ e.done = p.done /\ e.outbox = p.outbox
          /\ e.queue = p.queue /\ e.wake = p.wake /\ e.opened = p.opened /\ e.dropped = p.dropped
          /\ e.socket = p.socket /\ e.next = p.next /\ e.status = p.status /\ e.ready = p.ready
          /\ e.timer = p.timer /\ e.authWaits = p.authWaits
      BY ONLY <1>5, <2>2, <2>3, WriteFacts
    <2>6. e.written = F
      OBVIOUS
    <2> HIDE DEF e, F
    <2>7. c.outbox = <<>> /\ e.outbox = <<>> /\ ToSet(e.outbox) = {} /\ ToSet(c.outbox) = {}
      BY <1>2, <1>5, <1>7, <2>5 DEF Requests, ToSet
    <2>8. Requests(e)
      <3>1. Distinct(e.outbox) /\ ToSet(e.outbox) \subseteq e.waiters
        BY <2>7 DEF Distinct
      <3>2. e.waiters = {j \in Request : e.done[j] = "pending"} /\ IsFiniteSet(e.waiters)
        BY <1>6, <2>5
      <3>3. e.ready /\ e.outbox = <<>> /\ e.status # "closed"
        BY <1>5, <1>7, <2>5, <2>7
      <3> QED
        BY <3>1, <3>2, <3>3 DEF Requests
    <2>9. Driven(e)
      BY <1>2, <1>5, <2>5 DEF Driven
    <2>10. Settled(e)
      BY <1>2, <1>5, <2>5, <2>8, <2>9 DEF Settled
    <2>11. ASSUME NEW i \in DOMAIN F, NEW j \in Request, F[i] = Frame("call", j)
           PROVE  /\ c.done[j] = "new" /\ j \notin ToSet(e.outbox) /\ e.done[j] # "new"
                  /\ \A l \in DOMAIN F : l = i
      BY <1>1, <1>5, <2>4, <2>5, <2>7, <2>11
    <2>12. ASSUME NEW j \in e.waiters
           PROVE  j \in c.waiters \ ToSet(c.outbox) \/ Frame("call", j) \in ToSet(F)
      <3>1. j \in c.waiters \/ j = k
        BY <1>5, <2>5
      <3>2. x \in ToSet(F)
        BY <2>5 DEF ToSet
      <3> QED
        BY <2>7, <3>1, <3>2 DEF x
    <2>13. Woken(c, e)
      BY <1>5, <2>5 DEF Woken
    <2>14. Stayed(c, e, F)
      BY <1>2, <1>5, <1>6, <1>7, <2>5, <2>6, <2>7, <2>10, <2>11, <2>12, <2>13 DEF Stayed, AtRest
    <2>15. LoggedIn(e, F, net[c.socket], asking')
      <3>1. ~ (net[c.socket] = "connecting" \/ c.socket \in asking)
        BY <1>2, <1>7 DEF SocketInv, Sockets
      <3>2. \A i \in DOMAIN F : F[i].kind = "call"
        BY <2>2, <2>5
      <3> QED
        BY <1>1, <1>7, <3>1, <3>2 DEF LoggedIn
    <2> QED
      BY <1>1, <2>1, <2>14, <2>15, RunStayed
  <1>8. CASE c.status # "closed" /\ ~ (c.ready /\ c.socket # 0)
    <2> DEFINE w == Append(p.outbox, k)
               e == [p EXCEPT !.outbox = w]
    <2>1. Run(e)
      BY <1>1, <1>5, <1>8 DEF enqueue
    <2>2. p.outbox \in Seq(Request) /\ Distinct(p.outbox) /\ k \notin ToSet(p.outbox)
      BY <1>2, <1>3, <1>5, ConnFields DEF Requests
    <2>3. w \in Seq(Request) /\ Distinct(w) /\ ToSet(w) = ToSet(p.outbox) \cup {k}
      BY ONLY k \in Request, <2>2, Queued
    <2> HIDE DEF w
    <2>4. /\ e \in ConnType /\ e.outbox = w
          /\ e.waiters = p.waiters /\ e.done = p.done /\ e.written = p.written
          /\ e.queue = p.queue /\ e.wake = p.wake /\ e.opened = p.opened /\ e.dropped = p.dropped
          /\ e.socket = p.socket /\ e.next = p.next /\ e.status = p.status /\ e.ready = p.ready
          /\ e.timer = p.timer /\ e.authWaits = p.authWaits
      BY <1>5, <2>3 DEF ConnType
    <2> HIDE DEF e
    <2>5. ~ c.ready
      BY <1>2, <1>8 DEF Driven
    <2>6. Requests(e)
      <3>1. Distinct(e.outbox) /\ ToSet(e.outbox) = ToSet(c.outbox) \cup {k}
        BY <1>5, <2>3, <2>4
      <3>2. c.waiters = ToSet(c.outbox)
        BY <1>2, <2>5 DEF Requests
      <3>3. e.waiters = ToSet(e.outbox)
        BY <1>5, <2>4, <3>1, <3>2
      <3>4. e.waiters = {j \in Request : e.done[j] = "pending"} /\ IsFiniteSet(e.waiters)
        BY <1>6, <2>4
      <3>5. ~ e.ready /\ e.status # "closed"
        BY <1>5, <1>8, <2>4, <2>5
      <3> QED
        BY <3>1, <3>3, <3>4, <3>5 DEF Requests
    <2>7. Driven(e)
      BY <1>2, <1>5, <2>4 DEF Driven
    <2>8. Settled(e)
      BY <1>2, <1>5, <2>4, <2>6, <2>7 DEF Settled
    <2>9. PICK F : F = <<>>
      OBVIOUS
    <2>10. \A i \in DOMAIN F : FALSE
      BY <2>9
    <2>11. Woken(c, e)
      BY <1>5, <2>4 DEF Woken
    <2>12. e.waiters \subseteq ToSet(e.outbox)
      BY <1>5, <2>4, <2>5, <2>6 DEF Requests
    <2>13. \A j \in ToSet(e.outbox) : j \in ToSet(c.outbox) \/ c.done[j] = "new"
      BY <1>1, <1>5, <2>3, <2>4
    <2>14. Stayed(c, e, F)
      BY <1>2, <1>5, <1>6, <2>4, <2>8, <2>9, <2>10, <2>11, <2>12, <2>13 DEF Stayed, AtRest
    <2>15. LoggedIn(e, F, net[c.socket], asking')
      BY <1>1, <1>5, <2>4, <2>9, Silent
    <2> QED
      BY <1>1, <2>1, <2>14, <2>15, RunStayed
  <1> QED
    BY <1>4, <1>7, <1>8

\* The frames of an outbox.
CallsOf(q) == [i \in 1 .. Len(q) |-> Frame("call", q[i])]

LEMMA OutboxFrames ==
  ASSUME NEW q \in Seq(Request), Distinct(q), NEW G, G = CallsOf(q)
  PROVE  /\ G \in Seq(FrameType)
         /\ \A i \in DOMAIN G : G[i].kind = "call"
         /\ \A i \in DOMAIN G : \A k \in Request : G[i] = Frame("call", k) =>
              k \in ToSet(q) /\ \A j \in DOMAIN G : G[j] = Frame("call", k) => j = i
         /\ \A k \in ToSet(q) : \E i \in DOMAIN G : G[i] = Frame("call", k)
  <1> DEFINE n == Len(q)
  <1>1. n \in Nat /\ DOMAIN q = 1 .. n /\ \A i \in 1 .. n : q[i] \in Request
    OBVIOUS
  <1>2. G = [i \in 1 .. n |-> Frame("call", q[i])]
    BY DEF CallsOf
  <1> HIDE DEF n
  <1>3. \A i \in 1 .. n : G[i] = Frame("call", q[i]) /\ G[i] \in FrameType /\ G[i].kind = "call"
    BY <1>1, <1>2, CallFrames
  <1>4. DOMAIN G = 1 .. n /\ G \in [1 .. n -> FrameType]
    BY <1>2, <1>3
  <1>5. G \in Seq(FrameType)
    BY <1>1, <1>4
  <1>6. ASSUME NEW i \in 1 .. n, NEW k \in Request, G[i] = Frame("call", k) PROVE q[i] = k
    BY <1>1, <1>3, <1>6, CallFrames
  <1>7. \A i, j \in 1 .. n : q[i] = q[j] => i = j
    BY <1>1 DEF Distinct
  <1>8. ASSUME NEW i \in DOMAIN G, NEW k \in Request, G[i] = Frame("call", k)
        PROVE  k \in ToSet(q) /\ \A j \in DOMAIN G : G[j] = Frame("call", k) => j = i
    <2>1. q[i] = k
      BY <1>4, <1>6, <1>8
    <2>2. k \in ToSet(q)
      BY <1>1, <1>4, <2>1 DEF ToSet
    <2> QED
      BY <1>4, <1>6, <1>7, <2>1, <2>2
  <1>9. ASSUME NEW k \in ToSet(q) PROVE \E i \in DOMAIN G : G[i] = Frame("call", k)
    <2>1. PICK i \in 1 .. n : q[i] = k
      BY <1>1, <1>9 DEF ToSet
    <2> QED
      BY <1>3, <1>4, <2>1
  <1> QED
    BY <1>3, <1>4, <1>5, <1>8, <1>9

\* becomeReady, on a connection with a socket: the resubscriptions and the
\* outbox are written.
MadeReady(d, e, G) ==
    /\ e \in ConnType /\ e.ready /\ e.status = "open" /\ e.outbox = <<>>
    /\ e.written \in Seq(FrameType)
    /\ \E one \in Seq(FrameType) :
         /\ DOMAIN one = {1} /\ Len(one) = 1 /\ one[1] = Frame("subscribe", 0)
         /\ e.written = one \o G
    /\ e.waiters = d.waiters /\ e.done = d.done
    /\ e.queue = d.queue /\ e.wake = d.wake /\ e.opened = d.opened /\ e.dropped = d.dropped
    /\ e.socket = d.socket /\ e.next = d.next /\ e.timer = d.timer /\ e.authWaits = d.authWaits

LEMMA ReadyFields ==
  ASSUME HarmlessCallback, NEW d \in ConnType, d.written = <<>>, d.socket # 0,
         NEW G \in Seq(FrameType), G = CallsOf(d.outbox),
         NEW e, e = becomeReady(d)
  PROVE  MadeReady(d, e, G)
  <1> DEFINE f == [d EXCEPT !.ready = TRUE]
             g == setStatus(f, "open")
             x == Frame("subscribe", 0)
  <1>1. /\ f \in ConnType /\ f.ready
        /\ f.waiters = d.waiters /\ f.done = d.done /\ f.outbox = d.outbox /\ f.written = d.written
        /\ f.queue = d.queue /\ f.wake = d.wake /\ f.opened = d.opened /\ f.dropped = d.dropped
        /\ f.socket = d.socket /\ f.next = d.next /\ f.timer = d.timer /\ f.authWaits = d.authWaits
    BY DEF ConnType
  <1> HIDE DEF f
  <1>2. "open" \in Status
    BY DEF Status
  <1>3. g = [f EXCEPT !.status = "open"]
    BY <1>1, <1>2, StatusOnly
  <1>4. SameLoss(f, g) /\ g.status = "open" /\ g.timer = f.timer /\ g.authWaits = f.authWaits
    BY ONLY <1>1, <1>2, <1>3, SetStatus
  <1>5. g \in ConnType /\ g.written = <<>> /\ g.socket # 0 /\ g.ready
    BY <1>1, <1>4 DEF SameLoss
  <1>6. PICK h : h = write(g, x) /\ e = flush(h)
    <2>1. e = flush(IF g.ready THEN write(g, x) ELSE g)
      BY DEF becomeReady, f
    <2> QED
      BY <1>5, <2>1
  <1>7. x \in FrameType
    BY FrameFacts
  <1> HIDE DEF g, x
  <1>8. /\ h \in ConnType
        /\ DOMAIN h.written = {1} /\ Len(h.written) = 1 /\ h.written[1] = x
        /\ h.waiters = g.waiters /\ h.done = g.done /\ h.outbox = g.outbox
        /\ h.queue = g.queue /\ h.wake = g.wake /\ h.opened = g.opened /\ h.dropped = g.dropped
        /\ h.socket = g.socket /\ h.next = g.next /\ h.status = g.status /\ h.ready = g.ready
        /\ h.timer = g.timer /\ h.authWaits = g.authWaits
    <2>1. g \in ConnType /\ g.written = <<>> /\ g.socket # 0
      BY <1>5
    <2>2. h = write(g, x)
      BY <1>6
    <2> QED
      BY ONLY <1>7, <2>1, <2>2, WriteFacts
  <1>9. h.outbox = d.outbox /\ h.socket # 0
    BY <1>1, <1>4, <1>5, <1>8 DEF SameLoss
  <1>10. e = [h EXCEPT !.written = @ \o G, !.outbox = <<>>]
    BY <1>6, <1>9 DEF flush, CallsOf
  <1>11. h.written \in Seq(FrameType) /\ \E w \in Seq(FrameType) : w = h.written \o G
    <2>1. h.written \in Seq(FrameType)
      BY <1>8, ConnFields
    <2> QED
      BY <2>1, ConcatAt
  <1>11a. PICK w \in Seq(FrameType) : w = h.written \o G
    BY <1>11
  <1>12. PICK q \in Seq(Request) : q = <<>>
    <2>1. <<>> \in Seq(Request)
      OBVIOUS
    <2> QED
      BY <2>1
  <1>13. e = [h EXCEPT !.written = w, !.outbox = q]
    BY <1>10, <1>11a, <1>12
  <1>14. /\ e \in ConnType /\ e.written = w /\ e.outbox = q
         /\ e.waiters = h.waiters /\ e.done = h.done
         /\ e.queue = h.queue /\ e.wake = h.wake /\ e.opened = h.opened /\ e.dropped = h.dropped
         /\ e.socket = h.socket /\ e.next = h.next /\ e.status = h.status /\ e.ready = h.ready
         /\ e.timer = h.timer /\ e.authWaits = h.authWaits
    BY ONLY w \in Seq(FrameType), q \in Seq(Request), <1>8, <1>13 DEF ConnType
  <1>15. \E one \in Seq(FrameType) :
              /\ DOMAIN one = {1} /\ Len(one) = 1 /\ one[1] = Frame("subscribe", 0)
              /\ e.written = one \o G
    BY <1>8, <1>11, <1>11a, <1>14 DEF x
  <1>16. /\ e.ready /\ e.status = "open"
         /\ e.waiters = d.waiters /\ e.done = d.done
         /\ e.queue = d.queue /\ e.wake = d.wake /\ e.opened = d.opened /\ e.dropped = d.dropped
         /\ e.socket = d.socket /\ e.next = d.next /\ e.timer = d.timer /\ e.authWaits = d.authWaits
    BY ONLY <1>1, <1>4, <1>8, <1>14 DEF SameLoss
  <1> QED
    BY ONLY w \in Seq(FrameType), <1>12, <1>14, <1>15, <1>16 DEF MadeReady

LEMMA ReadyStayed ==
  ASSUME HarmlessCallback, SocketInv, c.socket # 0,
         NEW d \in ConnType, d.authWaits => c.authWaits,
         d.waiters = c.waiters /\ d.done = c.done /\ d.outbox = c.outbox,
         d.queue = c.queue /\ d.wake = c.wake /\ d.opened = c.opened /\ d.dropped = c.dropped,
         d.socket = c.socket /\ d.next = c.next /\ d.timer = c.timer /\ d.written = c.written,
         NEW e, e = becomeReady(d)
  PROVE  /\ Stayed(c, e, e.written)
         /\ \A i \in DOMAIN e.written : e.written[i].kind \in {"call", "subscribe"}
         /\ e.authWaits = d.authWaits
  <1>1. /\ Requests(c) /\ Driven(c) /\ Settled(c) /\ AtRest(c) /\ c \in ConnType
        /\ c.status \in Status /\ c.outbox \in Seq(Request) /\ Distinct(c.outbox)
    BY Here, ConnFields DEF Requests
  <1> DEFINE G == CallsOf(c.outbox)
             F == e.written
  <1>2. /\ G \in Seq(FrameType)
        /\ \A i \in DOMAIN G : G[i].kind = "call"
        /\ \A i \in DOMAIN G : \A k \in Request : G[i] = Frame("call", k) =>
             k \in ToSet(c.outbox) /\ \A j \in DOMAIN G : G[j] = Frame("call", k) => j = i
        /\ \A k \in ToSet(c.outbox) : \E i \in DOMAIN G : G[i] = Frame("call", k)
    BY ONLY <1>1, OutboxFrames
  <1>3. d.written = <<>> /\ d.socket # 0 /\ G = CallsOf(d.outbox)
    BY <1>1 DEF AtRest
  <1> HIDE DEF G
  <1>4. /\ e \in ConnType /\ e.ready /\ e.status = "open" /\ e.outbox = <<>>
        /\ F \in Seq(FrameType)
        /\ \E one \in Seq(FrameType) :
             /\ DOMAIN one = {1} /\ Len(one) = 1 /\ one[1] = Frame("subscribe", 0)
             /\ F = one \o G
        /\ e.waiters = d.waiters /\ e.done = d.done
        /\ e.queue = d.queue /\ e.wake = d.wake /\ e.opened = d.opened /\ e.dropped = d.dropped
        /\ e.socket = d.socket /\ e.next = d.next /\ e.timer = d.timer /\ e.authWaits = d.authWaits
    <2>1. G \in Seq(FrameType)
      BY <1>2
    <2>2. MadeReady(d, e, G)
      BY ONLY HarmlessCallback, d \in ConnType, e = becomeReady(d), <1>3, <2>1, ReadyFields
    <2> QED
      BY <2>2 DEF MadeReady
  <1>5. PICK one \in Seq(FrameType) :
             /\ DOMAIN one = {1} /\ Len(one) = 1 /\ one[1] = Frame("subscribe", 0)
             /\ F = one \o G
    BY <1>4
  <1> DEFINE m == Len(G)
  <1>6. /\ m \in Nat /\ DOMAIN G = 1 .. m /\ DOMAIN F = 1 .. 1 + m
        /\ F[1] = Frame("subscribe", 0)
        /\ \A i \in 1 .. m : F[1 + i] = G[i]
        /\ \A i \in 1 .. 1 + m : i = 1 \/ (i - 1 \in 1 .. m /\ F[i] = G[i - 1])
    <2>1. /\ Len(G) \in Nat /\ DOMAIN G = 1 .. Len(G)
          /\ DOMAIN (one \o G) = 1 .. Len(one) + Len(G)
          /\ \A i \in 1 .. Len(one) : (one \o G)[i] = one[i]
          /\ \A i \in 1 .. Len(G) : (one \o G)[Len(one) + i] = G[i]
          /\ \A i \in 1 .. Len(one) + Len(G) :
               i \in 1 .. Len(one) \/ (i - Len(one) \in 1 .. Len(G) /\ (one \o G)[i] = G[i - Len(one)])
      BY ONLY one \in Seq(FrameType), <1>2, ConcatAt
    <2>2. \A i : i \in 1 .. 1 <=> i = 1
      OBVIOUS
    <2> QED
      BY <1>5, <2>1, <2>2
  <1> HIDE DEF F, m
  <1>7. Frame("subscribe", 0).kind = "subscribe"
    BY FrameFacts
  <1>8. ASSUME NEW i \in DOMAIN F PROVE F[i].kind \in {"call", "subscribe"}
    <2>1. i = 1 \/ (i - 1 \in DOMAIN G /\ F[i] = G[i - 1])
      BY <1>6
    <2> QED
      BY <1>2, <1>6, <1>7, <2>1
  <1>9. ASSUME NEW i \in DOMAIN F, NEW k \in Request, F[i] = Frame("call", k)
        PROVE  k \in ToSet(c.outbox) /\ \A j \in DOMAIN F : F[j] = Frame("call", k) => j = i
    <2>1. Frame("call", k).kind = "call" /\ Frame("subscribe", 0) # Frame("call", k)
      BY <1>7, CallFrames
    <2>2. \A j \in 1 .. 1 + m : F[j] = Frame("call", k) => j - 1 \in 1 .. m /\ G[j - 1] = Frame("call", k)
      BY <1>6, <2>1
    <2>3. i - 1 \in 1 .. m /\ G[i - 1] = Frame("call", k)
      BY <1>6, <1>9, <2>2
    <2>4. k \in ToSet(c.outbox)
      BY <1>2, <1>6, <2>3
    <2>5. ASSUME NEW j \in DOMAIN F, F[j] = Frame("call", k) PROVE j = i
      <3>1. j - 1 \in 1 .. m /\ G[j - 1] = Frame("call", k)
        BY <1>6, <2>2, <2>5
      <3>2. j - 1 = i - 1
        BY <1>2, <1>6, <2>3, <3>1
      <3> QED
        BY <1>6, <3>2
    <2> QED
      BY <2>4, <2>5
  <1>10. ASSUME NEW k \in ToSet(c.outbox) PROVE Frame("call", k) \in ToSet(F)
    <2>1. PICK i \in 1 .. m : G[i] = Frame("call", k)
      BY <1>2, <1>6
    <2>2. 1 + i \in DOMAIN F /\ F[1 + i] = Frame("call", k)
      BY <1>6, <2>1
    <2> QED
      BY <2>2 DEF ToSet
  <1>11. ToSet(e.outbox) = {} /\ Distinct(e.outbox)
    BY <1>4 DEF ToSet, Distinct
  <1>12. c.status \in {"connecting", "open"} /\ ~ c.timer
    BY <1>1 DEF Driven, Status
  <1>13. Driven(e)
    BY <1>4, <1>12 DEF Driven
  <1>14. Requests(e)
    <2>1. e.waiters = c.waiters /\ e.done = c.done /\ e.ready /\ e.status = "open" /\ e.outbox = <<>>
      BY <1>4
    <2>2. c.waiters = {k \in Request : c.done[k] = "pending"} /\ IsFiniteSet(c.waiters)
      BY <1>1 DEF Requests
    <2>3. e.waiters = {k \in Request : e.done[k] = "pending"} /\ IsFiniteSet(e.waiters)
      BY ONLY <2>1, <2>2
    <2> QED
      BY <1>11, <2>1, <2>3 DEF Requests
  <1>15. Settled(e)
    BY <1>1, <1>4, <1>13, <1>14 DEF Settled
  <1>16. Woken(c, e)
    BY <1>4 DEF Woken
  <1>17. \A k \in c.waiters : c.done[k] # "new"
    BY <1>1 DEF Requests
  <1>18. ASSUME NEW i \in DOMAIN F, NEW k \in Request, F[i] = Frame("call", k)
         PROVE  k \in ToSet(c.outbox) /\ k \notin ToSet(e.outbox) /\ e.done[k] # "new"
    BY <1>1, <1>4, <1>9, <1>11, <1>17, <1>18 DEF Requests
  <1>19. Stayed(c, e, F)
    <2>1. e.written = F /\ e.opened = {} /\ e.dropped = {} /\ e.socket = c.socket /\ e.next = c.next
      BY <1>1, <1>4 DEF AtRest, F
    <2>2. \A k \in Request : e.done[k] = "new" => c.done[k] = "new"
      BY <1>4
    <2>3. \A k \in e.waiters \ ToSet(e.outbox) :
            k \in c.waiters \ ToSet(c.outbox) \/ (c.socket # 0 /\ Frame("call", k) \in ToSet(F))
      BY <1>4, <1>10
    <2> QED
      BY <1>9, <1>11, <1>15, <1>16, <1>18, <2>1, <2>2, <2>3 DEF Stayed
  <1> QED
    BY <1>4, <1>8, <1>19 DEF F

LEMMA AuthOkInv ==
  ASSUME HarmlessCallback, SocketInv, AuthOk
  PROVE  SocketInv'
  <1> DEFINE d == [c EXCEPT !.authWaits = FALSE]
             e == becomeReady(d)
             F == e.written
  <1>1. Around /\ asking' = asking /\ Run(e) /\ c.authWaits /\ c.socket # 0 /\ net[c.socket] # "connecting"
    BY Here DEF AuthOk, Around, Hears, Inbound
  <1>2. c \in ConnType /\ FALSE \in BOOLEAN /\ c.socket \in SocketId
    BY <1>1, Here
  <1>3. SameLoss(c, d) /\ d.timer = c.timer /\ ~ d.authWaits
    BY <1>2, SetAuth
  <1> HIDE DEF d
  <1>4. /\ d \in ConnType
        /\ d.waiters = c.waiters /\ d.done = c.done /\ d.outbox = c.outbox
        /\ d.queue = c.queue /\ d.wake = c.wake /\ d.opened = c.opened /\ d.dropped = c.dropped
        /\ d.socket = c.socket /\ d.next = c.next /\ d.timer = c.timer /\ d.written = c.written
        /\ d.authWaits => c.authWaits
    BY <1>3 DEF SameLoss
  <1>5. /\ Stayed(c, e, F)
        /\ \A i \in DOMAIN F : F[i].kind \in {"call", "subscribe"}
    BY ONLY HarmlessCallback, SocketInv, <1>1, <1>4, ReadyStayed
  <1> HIDE DEF e, F
  <1>6. c.socket \notin asking
    BY <1>1, <1>2 DEF SocketInv, Sockets
  <1>7. LoggedIn(e, F, net[c.socket], asking')
    BY <1>1, <1>5, <1>6 DEF LoggedIn
  <1> QED
    BY <1>1, <1>5, <1>7, RunStayed

LEMMA OpenedInv ==
  ASSUME HarmlessCallback, SocketInv, NEW s \in SocketId, Opened(s)
  PROVE  SocketInv'
  <1> DEFINE d == [c EXCEPT !.watchdog = TRUE]
  <1>1. /\ net[s] = "connecting" /\ s = c.socket /\ c.socket # 0
        /\ handling' \in SUBSET SocketId /\ quiet' \in 0 .. 2 /\ UNCHANGED reader
        /\ asking \in SUBSET SocketId
    BY Here, Constants DEF Opened
  <1>2. NetMove(s, "open") /\ "open" \in NetState
    BY <1>1 DEF NetMove, NetState
  <1>3. /\ d \in ConnType
        /\ d.waiters = c.waiters /\ d.done = c.done /\ d.outbox = c.outbox
        /\ d.queue = c.queue /\ d.wake = c.wake /\ d.opened = c.opened /\ d.dropped = c.dropped
        /\ d.socket = c.socket /\ d.next = c.next /\ d.timer = c.timer /\ d.written = c.written
        /\ d.authWaits = c.authWaits /\ d.status = c.status /\ d.ready = c.ready
    <2>1. c \in ConnType
      BY Here
    <2> QED
      BY <2>1 DEF ConnType
  <1>4. [net EXCEPT ![s] = "open"][c.socket] = "open"
    BY <1>1, Here
  <1>5. ~ c.ready /\ ~ c.authWaits
    BY <1>1 DEF SocketInv, Sockets
  <1>6. CASE Auth
    <2>1. RunOn(s, "open", d) /\ asking' = asking \cup {s}
      BY <1>6 DEF Opened
    <2> HIDE DEF d
    <2>2. PICK F : F = <<>>
      OBVIOUS
    <2>3. /\ {} \in SUBSET Request /\ d.waiters = c.waiters \ {}
          /\ \A j \in Request : d.done[j] = IF j \in {} THEN "over" ELSE c.done[j]
          /\ ToSet(d.outbox) = ToSet(c.outbox) \ {} /\ Distinct(d.outbox)
          /\ c.outbox = <<>> => d.outbox = <<>>
          /\ c.wake => d.wake
          /\ d.queue # c.queue => d.wake
      BY <1>3, Here DEF Requests
    <2>4. Stayed(c, d, F)
      BY ONLY SocketInv, <1>3, <2>2, <2>3, Answered
    <2>5. LoggedIn(d, F, [net EXCEPT ![s] = "open"][c.socket], asking')
      <3>1. \A i \in DOMAIN F : FALSE
        BY <2>2
      <3> QED
        BY <1>3, <1>5, <3>1 DEF LoggedIn
    <2>6. /\ asking' \in SUBSET SocketId
          /\ \A t \in asking' : t \in asking
               \/ (t = c.socket /\ t = s /\ "open" = "open" /\ Auth /\ net[t] = "connecting")
      BY <1>1, <1>6, <2>1
    <2> QED
      BY ONLY SocketInv, s \in SocketId, <1>1, <1>2, <2>1, <2>4, <2>5, <2>6, StayedInv
  <1>7. CASE ~ Auth
    <2> DEFINE e == becomeReady(d)
               F == e.written
    <2>1. RunOn(s, "open", e) /\ asking' = asking
      BY <1>7 DEF Opened
    <2> HIDE DEF d
    <2>2. /\ d.authWaits => c.authWaits
          /\ d.socket = c.socket /\ d.next = c.next /\ d.timer = c.timer /\ d.written = c.written
      BY <1>3
    <2>3. /\ Stayed(c, e, F)
          /\ \A i \in DOMAIN F : F[i].kind \in {"call", "subscribe"}
      BY ONLY HarmlessCallback, SocketInv, <1>1, <1>3, <2>2, ReadyStayed
    <2> HIDE DEF e, F
    <2>4. asking = {}
      BY <1>7 DEF SocketInv, Sockets
    <2>5. LoggedIn(e, F, [net EXCEPT ![s] = "open"][c.socket], asking')
      BY <1>4, <1>7, <2>1, <2>3, <2>4 DEF LoggedIn
    <2>6. asking' \in SUBSET SocketId /\ \A t \in asking' : t \in asking
      BY <1>1, <2>1
    <2> QED
      BY ONLY SocketInv, s \in SocketId, <1>1, <1>2, <2>1, <2>3, <2>5, <2>6, StayedInv
  <1> QED
    BY <1>6, <1>7

-----------------------------------------------------------------------------
(* The steps that run no handler                                           *)

\* Only what the platform says of the sockets changes, and none comes alive.
LEMMA NetInv ==
  ASSUME SocketInv, UNCHANGED <<c, wire, sent, asking, reader>>,
         handling' \in SUBSET SocketId, quiet' \in 0 .. 2,
         net' \in [SocketId -> NetState],
         \A t \in SocketId : \/ net'[t] = net[t]
                             \/ /\ net'[t] \in {"closing", "dead"} 
                                /\ net[t] \in {"connecting", "open"}
  PROVE  SocketInv'
  <1> USE DEF SocketInv
  <1>1. SocketTypeOK'
    BY DEF SocketTypeOK
  <1>2. Settled(c') /\ AtRest(c') /\ Reading'
    BY DEF Reading
  <1>3. c.socket # 0 => c.socket \in SocketId
    BY Here
  <1>4. Sockets'
    <2>1. \A t \in SocketId : net'[t] = "connecting" => net[t] = "connecting"
      OBVIOUS
    <2>2. \A t \in SocketId : t >= c.next => net[t] = "none" /\ net'[t] = "none"
      BY DEF Sockets
    <2>3. \A t \in SocketId : net'[t] \in {"connecting", "open", "dead"} => t = c.socket
      BY DEF Sockets
    <2>4. \A t \in asking : t < c.next /\ Auth /\ net'[t] # "connecting"
      BY <2>1, Here DEF Sockets
    <2>5. \A t \in SocketId : t = c.socket /\ (net'[t] = "connecting" \/ t \in asking) =>
            /\ ~ c.ready /\ ~ c.authWaits
            /\ \A i \in DOMAIN wire : wire[i].kind = "client_result"
      BY <2>1 DEF Sockets
    <2> QED
      BY <2>2, <2>3, <2>4, <2>5 DEF Sockets
  <1>5. OnWire'
    <2>1. c.socket # 0 /\ net'[c.socket] = "open" => net[c.socket] = "open"
      BY <1>3
    <2>2. CallsAfterAuth'
      BY DEF OnWire, CallsAfterAuth
    <2> QED
      BY <2>1, <2>2 DEF OnWire
  <1> QED
    BY <1>1, <1>2, <1>4, <1>5

LEMMA QuietInv ==
  ASSUME SocketInv, ClientCall \/ Ping \/ Quieten
  PROVE  SocketInv'
  <1>1. UNCHANGED <<c, net, wire, sent, asking, reader>>
    BY DEF ClientCall, Ping, Quieten
  <1>2. handling' \in SUBSET SocketId
    BY Here DEF ClientCall, Ping, Quieten, Hears, Inbound
  <1>3. quiet' \in 0 .. 2
    BY Here DEF ClientCall, Ping, Quieten, Hears
  <1>4. net' \in [SocketId -> NetState]
    BY <1>1, Here
  <1> QED
    BY <1>1, <1>2, <1>3, <1>4, NetInv

LEMMA BreaksInv ==
  ASSUME SocketInv, NEW s \in SocketId, Breaks(s) \/ DiesSilently(s)
  PROVE  SocketInv'
  <1>1. UNCHANGED <<c, wire, sent, asking, handling, quiet, reader>>
    BY DEF Breaks, DiesSilently
  <1>2. PICK n \in {"closing", "dead"} : net' = [net EXCEPT ![s] = n] /\ net[s] \in {"connecting", "open"}
    BY DEF Breaks, DiesSilently
  <1>3. net \in [SocketId -> NetState] /\ handling' \in SUBSET SocketId /\ quiet' \in 0 .. 2
    BY <1>1, Here
  <1>4. n \in NetState
    BY DEF NetState
  <1>5. /\ net' \in [SocketId -> NetState]
        /\ \A t \in SocketId : \/ net'[t] = net[t]
                               \/ /\ net'[t] \in {"closing", "dead"}
                                  /\ net[t] \in {"connecting", "open"}
    BY <1>2, <1>3, <1>4
  <1> QED
    BY <1>1, <1>3, <1>5, NetInv

\* Of the connection only the factory, the queue of results and its signal.
LEMMA SoftInv ==
  ASSUME SocketInv, UNCHANGED <<net, wire, sent, asking, handling, quiet>>,
         c' \in ConnType, reader' \in {"idle", "waiting", "done"}, Reading',
         c'.waiters = c.waiters /\ c'.done = c.done /\ c'.outbox = c.outbox,
         c'.opened = c.opened /\ c'.dropped = c.dropped /\ c'.written = c.written,
         c'.socket = c.socket /\ c'.next = c.next /\ c'.timer = c.timer,
         c'.authWaits = c.authWaits /\ c'.status = c.status /\ c'.ready = c.ready
  PROVE  SocketInv'
  <1> USE DEF SocketInv
  <1>1. SocketTypeOK'
    BY DEF SocketTypeOK
  <1>2. Settled(c) /\ AtRest(c)
    OBVIOUS
  <1>3. Requests(c')
    BY <1>2 DEF Settled, Requests
  <1>4. Driven(c')
    BY <1>2 DEF Settled, Driven
  <1>5. Settled(c') /\ AtRest(c')
    BY <1>2, <1>3, <1>4 DEF Settled, AtRest
  <1>6. Sockets'
    BY DEF Sockets
  <1>7. CallsAfterAuth'
    BY DEF OnWire, CallsAfterAuth
  <1>8. OnWire'
    BY <1>7 DEF OnWire
  <1> QED
    BY <1>1, <1>5, <1>6, <1>8

LEMMA FactoryBreaksInv ==
  ASSUME SocketInv, FactoryBreaks
  PROVE  SocketInv'
  <1>1. c \in ConnType /\ c' = [c EXCEPT !.usable = FALSE] /\ UNCHANGED reader
    BY Here DEF FactoryBreaks
  <1>2. /\ c' \in ConnType
        /\ c'.waiters = c.waiters /\ c'.done = c.done /\ c'.outbox = c.outbox
        /\ c'.opened = c.opened /\ c'.dropped = c.dropped /\ c'.written = c.written
        /\ c'.socket = c.socket /\ c'.next = c.next /\ c'.timer = c.timer
        /\ c'.authWaits = c.authWaits /\ c'.status = c.status /\ c'.ready = c.ready
        /\ c'.queue = c.queue /\ c'.wake = c.wake
    BY <1>1 DEF ConnType
  <1>3. Reading' /\ reader' \in {"idle", "waiting", "done"}
    BY <1>1, <1>2 DEF SocketInv, SocketTypeOK, Reading
  <1> QED
    BY <1>2, <1>3, SoftInv DEF FactoryBreaks

LEMMA ReadInv ==
  ASSUME SocketInv, Read
  PROVE  SocketInv'
  <1>1. c \in ConnType /\ reader \in {"idle", "waiting", "done"} /\ c.queue \in Seq(Request)
    BY Here, ConnFields DEF SocketInv, SocketTypeOK
  <1>2. CASE reader = "idle" /\ c.queue # <<>> /\ c' = [c EXCEPT !.queue = Tail(@)] /\ UNCHANGED reader
    <2> DEFINE q == Tail(c.queue)
    <2>1. q \in Seq(Request) /\ c' = [c EXCEPT !.queue = q]
      BY <1>1, <1>2
    <2> HIDE DEF q
    <2>2. /\ c' \in ConnType
          /\ c'.waiters = c.waiters /\ c'.done = c.done /\ c'.outbox = c.outbox
          /\ c'.opened = c.opened /\ c'.dropped = c.dropped /\ c'.written = c.written
          /\ c'.socket = c.socket /\ c'.next = c.next /\ c'.timer = c.timer
          /\ c'.authWaits = c.authWaits /\ c'.status = c.status /\ c'.ready = c.ready
      BY <1>1, <2>1 DEF ConnType
    <2>3. Reading' /\ reader' \in {"idle", "waiting", "done"}
      BY <1>2 DEF Reading
    <2> QED
      BY <2>2, <2>3, SoftInv DEF Read
  <1>3. CASE c' = c /\ reader' \in {"idle", "done"}
    <2>1. Reading'
      BY <1>3 DEF Reading
    <2> QED
      BY <1>1, <1>3, <2>1, SoftInv DEF Read
  <1>4. CASE c.queue = <<>> /\ c.status # "closed" /\ c' = [c EXCEPT !.wake = FALSE] /\ reader' = "waiting"
    <2>1. /\ c' \in ConnType /\ c'.queue = c.queue
          /\ c'.waiters = c.waiters /\ c'.done = c.done /\ c'.outbox = c.outbox
          /\ c'.opened = c.opened /\ c'.dropped = c.dropped /\ c'.written = c.written
          /\ c'.socket = c.socket /\ c'.next = c.next /\ c'.timer = c.timer
          /\ c'.authWaits = c.authWaits /\ c'.status = c.status /\ c'.ready = c.ready
      BY <1>1, <1>4 DEF ConnType
    <2>2. Reading' /\ reader' \in {"idle", "waiting", "done"}
      BY <1>4, <2>1 DEF Reading
    <2> QED
      BY <2>1, <2>2, SoftInv DEF Read
  <1> QED
    BY <1>1, <1>2, <1>3, <1>4 DEF Read, gen

-----------------------------------------------------------------------------
(* The theorems                                                            *)

LEMMA StartInv ==
  ASSUME Init
  PROVE  SocketInv
  <1> DEFINE D == [k \in Request |-> "new"]
  <1>1. PICK f \in Seq(FrameType) : f = <<>>
    <2>1. <<>> \in Seq(FrameType)
      OBVIOUS
    <2> QED
      BY <2>1
  <1>2. PICK q \in Seq(Request) : q = <<>>
    <2>1. <<>> \in Seq(Request)
      OBVIOUS
    <2> QED
      BY <2>1
  <1>3. D \in [Request -> {"new", "pending", "over"}] /\ \A k \in Request : D[k] = "new"
    OBVIOUS
  <1>4. c = [socket |-> 1, next |-> 2, status |-> "connecting", ready |-> FALSE,
             timer |-> FALSE, watchdog |-> FALSE, authWaits |-> FALSE, waiters |-> {}, outbox |-> q,
             done |-> D, queue |-> q, wake |-> FALSE,
             usable |-> TRUE, written |-> f, opened |-> {}, dropped |-> {}]
    BY <1>1, <1>2 DEF Init, ClientInit
  <1> HIDE DEF D
  <1>5. 1 \in 0 .. MaxSockets /\ 2 \in 1 .. MaxSockets + 1 /\ "connecting" \in Status
    BY Constants DEF Status
  <1>6. /\ c \in ConnType /\ c.socket = 1 /\ c.next = 2 /\ c.status = "connecting"
        /\ c.waiters = {} /\ c.outbox = q /\ c.done = D /\ c.queue = q
        /\ c.written = f /\ c.opened = {} /\ c.dropped = {}
    BY <1>3, <1>4, <1>5 DEF ConnType
  <1>7. ~ c.ready /\ ~ c.timer /\ ~ c.authWaits
    BY <1>4
  <1>8. Distinct(q) /\ ToSet(q) = {} /\ IsFiniteSet({})
    BY <1>2, FS_EmptySet DEF Distinct, ToSet
  <1>9. Requests(c)
    BY <1>3, <1>6, <1>7, <1>8 DEF Requests
  <1>10. Settled(c) /\ AtRest(c)
    <2>1. c.timer = FALSE /\ (c.socket # 0) = TRUE
      BY <1>4
    <2>2. Driven(c)
      BY <1>6, <1>7, <2>1 DEF Driven
    <2> QED
      BY <1>1, <1>6, <1>9, <2>2 DEF Settled, AtRest
  <1>11. /\ net \in [SocketId -> NetState] /\ net = [s \in SocketId |-> IF s = 1 THEN "connecting" ELSE "none"]
         /\ wire = <<>> /\ wire \in Seq(FrameType) /\ sent = [k \in Request |-> 0]
         /\ asking = {} /\ handling = {} /\ quiet = 0 /\ reader = "idle"
    BY <1>1 DEF Init, NetState
  <1>12. SocketTypeOK
    BY <1>6, <1>11 DEF SocketTypeOK
  <1>13. Sockets
    <2>1. \A s \in SocketId : s >= 2 => net[s] = "none"
      BY <1>11
    <2> QED
      BY <1>6, <1>7, <1>11, <2>1 DEF Sockets
  <1>14. OnWire
    <2>1. ToSet(wire) = {} /\ CallsAfterAuth
      BY <1>11 DEF ToSet, CallsAfterAuth
    <2> QED
      BY <1>6, <1>7, <1>11, <2>1 DEF OnWire
  <1>15. Reading
    BY <1>11 DEF Reading
  <1> QED
    BY <1>10, <1>12, <1>13, <1>14, <1>15 DEF SocketInv

LEMMA StepInv ==
  ASSUME HarmlessCallback, SocketInv, [Next]_vars
  PROVE  SocketInv'
  <1>1. ASSUME NEW s \in SocketId, Opened(s) \/ Credentials(s) \/ CredentialsFail(s)
          \/ Breaks(s) \/ CloseEvent(s) \/ DiesSilently(s) \/ HandlerDone(s)
        PROVE  SocketInv'
    BY <1>1, OpenedInv, CredentialsInv, CredentialsFailInv, BreaksInv, CloseEventInv, HandlerDoneInv
  <1>2. ASSUME NEW k \in Request, Result(k) \/ Item(k) \/ EndFrame(k) \/ Make(k) \/ TimeOut(k)
        PROVE  SocketInv'
    BY <1>2, ResultInv, ItemInv, EndFrameInv, MakeInv, TimeOutInv
  <1>3. CASE AuthOk \/ AuthRefused \/ ClientCall \/ Ping \/ Quieten \/ FactoryBreaks
    BY <1>3, AuthOkInv, AuthRefusedInv, QuietInv, FactoryBreaksInv
  <1>4. CASE CheckLiveness \/ ReconnectTimer \/ Pause \/ Resume \/ Close \/ Read
    BY <1>4, CheckLivenessInv, ReconnectTimerInv, PauseInv, ResumeInv, CloseInv, ReadInv
  <1>5. CASE UNCHANGED vars
    <2>1. c' \in ConnType /\ reader' \in {"idle", "waiting", "done"} /\ Reading'
      BY <1>5 DEF vars, SocketInv, SocketTypeOK, Reading
    <2> QED
      BY <1>5, <2>1, SoftInv DEF vars
  <1> QED
    BY <1>1, <1>2, <1>3, <1>4, <1>5 DEF Next

\* The inductive invariant, for every number of requests and sockets.
THEOREM AlwaysSocketInv == ASSUME HarmlessCallback PROVE Spec => []SocketInv
  <1>1. Init => SocketInv
    BY StartInv
  <1>2. SocketInv /\ [Next]_vars => SocketInv'
    BY StepInv
  <1> QED
    BY <1>1, <1>2, PTL DEF Spec

\* A connection that is connecting has a socket or a timer and never both, one
\* that is paused or closed has neither, and no socket is left behind, in every
\* order of onclose, the watchdog, the timer, late credentials, pause, resume
\* and close (socket.ts lost, open, disconnect, resume).
THEOREM AlwaysAnchored == ASSUME HarmlessCallback PROVE Spec => []Anchored
  <1>1. SocketInv => Anchored
    <2> SUFFICES ASSUME SocketInv PROVE Anchored
      OBVIOUS
    <2>1. Driven(c) /\ Sockets
      BY DEF SocketInv, Settled
    <2> QED
      BY <2>1 DEF Anchored, Driven, Sockets
  <1> QED
    BY <1>1, AlwaysSocketInv, PTL

\* A request that waits is queued or was sent on the current socket, none
\* reaches the server twice or before the login, and a reader that waits has
\* nothing to read (socket.ts enqueue, flush, failSent, becomeReady, gen).
THEOREM RequestsAlwaysExact == ASSUME HarmlessCallback PROVE Spec => []RequestsExact
  <1>1. SocketInv => RequestsExact
    <2> SUFFICES ASSUME SocketInv PROVE RequestsExact
      OBVIOUS
    <2>1. Requests(c) /\ OnWire /\ Reading
      BY DEF SocketInv, Settled
    <2>2. CallsTracked
      BY <2>1 DEF Requests, OnWire, Reading, CallsTracked
    <2> QED
      BY <2>1, <2>2 DEF OnWire, RequestsExact
  <1> QED
    BY <1>1, AlwaysSocketInv, PTL
=============================================================================

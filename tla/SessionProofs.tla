---------------------------- MODULE SessionProofs ----------------------------
(***************************************************************************)
(* Proofs about Session: its variables have their types, nothing is served *)
(* under another identity than the bound one, the claim of an auth frame   *)
(* is never lost, and every request has one final answer or the session    *)
(* ends.  All of it for any set of users, any limits and any number of     *)
(* requests, with and without an auth hook.                                *)
(***************************************************************************)
EXTENDS Session, SequenceTheorems, TLAPS

Answer == {"item", "ok", "error", "conflict"}
At == {"none", "run", "start", "authorize", "ok", "error", "done"} \cup Claiming

LEMMA ConstantTypes ==
  /\ Anonymous \notin User /\ AuthHook \in BOOLEAN /\ AdapterAuth \in BOOLEAN
  /\ MaxRequests \in Nat /\ MaxItems \in Nat /\ Buffer \in Nat
  BY SessionAssumption

LEMMA IdTypes == 0 \notin Id /\ \A i \in Id : i \in Nat /\ i > 0
  BY ConstantTypes DEF Id

-----------------------------------------------------------------------------
(* What the helpers do                                                     *)

\* Request `i` is told `what`, and no other is told anything.
Said(i, what) ==
  \A j \in Id : told'[j] = IF j = i THEN Append(told[j], what) ELSE told[j]

LEMMA QueueFacts ==
  ASSUME TypeOK, NEW i \in Id \cup {0}, NEW what \in Answer \cup {"ping"},
         i # 0 => what \in Answer, Queue(i, what)
  PROVE  /\ outgoing' \in Seq(Id \cup {0})
         /\ told' \in [Id -> Seq(Answer)]
         /\ receiver' = receiver
         /\ i = 0 => UNCHANGED told
         /\ Said(i, what)
  <1>0. told \in [Id -> Seq(Answer)] /\ outgoing \in Seq(Id \cup {0})
    BY DEF TypeOK, Answer
  <1>1. outgoing' \in Seq(Id \cup {0}) /\ receiver' = receiver
    BY <1>0 DEF Queue
  <1>2. CASE i = 0
    BY <1>0, <1>1, <1>2, IdTypes DEF Queue, Said
  <1>3. CASE i # 0
    <2>1. told' = [told EXCEPT ![i] = Append(@, what)] /\ i \in Id
      BY <1>3 DEF Queue
    <2>2. Append(told[i], what) \in Seq(Answer)
      BY <1>0, <1>3, <2>1
    <2> QED
      BY <1>0, <1>1, <1>3, <2>1, <2>2 DEF Said
  <1> QED
    BY <1>2, <1>3

\* close: detached, and closed from now on.
LEMMA CloseFacts ==
  ASSUME TypeOK, NEW reason \in {"retry", "final"}, close(reason)
  PROVE  /\ attached' = FALSE /\ signalling' = signalling
         /\ closer' \in {"open", "retry", "final"} /\ closer' # "open"
  BY DEF close, Signal, IsClosed, TypeOK

\* send_now: the frame is queued, or the receiver is gone, or the session is
\* closed for being slow.
LEMMA SendNowFacts ==
  ASSUME TypeOK, NEW i \in Id \cup {0}, NEW what \in Answer \cup {"ping"},
         i # 0 => what \in Answer,
         NEW then \in {"no", "retry", "final"}, send_now(i, what, then)
  PROVE  /\ outgoing' \in Seq(Id \cup {0}) /\ told' \in [Id -> Seq(Answer)]
         /\ receiver' = receiver /\ signalling' = signalling
         /\ attached' \in BOOLEAN /\ closer' \in {"open", "retry", "final"}
         /\ i = 0 => UNCHANGED told
         /\ IsClosed => IsClosed'
         /\ Said(i, what) \/ (UNCHANGED told /\ (~ receiver \/ IsClosed'))
  <1> DEFINE full == receiver /\ ~ HasRoom
             reason == IF full THEN "retry" ELSE then
  <1>0. told \in [Id -> Seq(Answer)] /\ outgoing \in Seq(Id \cup {0})
    BY DEF TypeOK, Answer
  <1>1. /\ IF receiver /\ HasRoom THEN Queue(i, what) ELSE UNCHANGED wireVars
        /\ IF reason = "no" THEN UNCHANGED <<attached, closer, signalling>>
           ELSE close(reason)
    BY DEF send_now
  <1>2. reason \in {"no", "retry", "final"} /\ (full => reason = "retry")
    OBVIOUS
  <1> HIDE DEF reason
  <1>3. /\ signalling' = signalling /\ attached' \in BOOLEAN
        /\ closer' \in {"open", "retry", "final"}
        /\ (IsClosed => IsClosed') /\ (reason # "no" => IsClosed')
    <2>1. CASE reason = "no"
      BY <1>1, <2>1 DEF TypeOK, IsClosed
    <2>2. CASE reason # "no"
      BY <1>1, <1>2, <2>2, CloseFacts DEF IsClosed
    <2> QED
      BY <2>1, <2>2
  <1>4. CASE receiver /\ HasRoom
    BY <1>1, <1>3, <1>4, QueueFacts
  <1>5. CASE ~ (receiver /\ HasRoom)
    <2>1. UNCHANGED <<outgoing, receiver, told>>
      BY <1>1, <1>5 DEF wireVars
    <2>2. ~ receiver \/ full
      BY <1>5
    <2>3. ~ receiver \/ IsClosed'
      BY <1>2, <1>3, <2>2
    <2> QED
      BY <1>0, <1>3, <2>1, <2>3
  <1> QED
    BY <1>4, <1>5

LEMMA SendFacts ==
  ASSUME TypeOK, NEW i \in Id, NEW what \in Answer, Send(i, what)
  PROVE  /\ outgoing' \in Seq(Id \cup {0}) /\ told' \in [Id -> Seq(Answer)]
         /\ receiver' = receiver
         /\ Said(i, what) \/ (UNCHANGED told /\ ~ receiver)
  <1>1. CASE receiver /\ HasRoom /\ Queue(i, what)
    BY <1>1, QueueFacts, IdTypes
  <1>2. CASE ~ receiver /\ UNCHANGED wireVars
    BY <1>2 DEF wireVars, TypeOK, Answer
  <1> QED
    BY <1>1, <1>2 DEF Send

\* A task moves on, the others do not.
LEMMA GotoFacts ==
  ASSUME TypeOK, NEW i \in Id, NEW at \in At, Goto(i, at)
  PROVE  /\ task' \in [Id -> TaskRecord]
         /\ task'[i].at = at /\ task'[i].kind = task[i].kind
         /\ task'[i].as = task[i].as
         /\ \A j \in Id : j # i => task'[j] = task[j]
  <1>1. task \in [Id -> TaskRecord] /\ task[i] \in TaskRecord
    BY DEF TypeOK
  <1>2. task' = [task EXCEPT ![i] = [task[i] EXCEPT !.at = at]]
    BY <1>1 DEF Goto
  <1> DEFINE new == [task[i] EXCEPT !.at = at]
  <1>3. /\ new \in TaskRecord /\ new.at = at /\ new.kind = task[i].kind
        /\ new.as = task[i].as
    BY <1>1 DEF TaskRecord, At
  <1> HIDE DEF new
  <1> QED
    BY <1>1, <1>2, <1>3 DEF new

\* A task is put in the place of request `i`.
LEMMA PutFacts ==
  ASSUME TypeOK, NEW i \in Id, NEW t \in TaskRecord, task' = [task EXCEPT ![i] = t]
  PROVE  /\ task' \in [Id -> TaskRecord] /\ task'[i] = t
         /\ \A j \in Id : j # i => task'[j] = task[j]
  BY DEF TypeOK

LEMMA NoTasks ==
  /\ NoTask \in TaskRecord /\ NoTask.at = "none" /\ NoTask.kind = "none"
  /\ [NoTask EXCEPT !.at = "done"] \in TaskRecord
  /\ [NoTask EXCEPT !.at = "done"].at = "done"
  /\ [NoTask EXCEPT !.at = "done"].kind = "none"
  BY DEF NoTask, TaskRecord, Identity

-----------------------------------------------------------------------------
(* The client's requests                                                   *)

\* The request is answered at once.
AnsweredNow ==
  /\ task'[nextId].kind = "none" /\ task'[nextId].at = "done"
  /\ authenticating' = authenticating
  /\ \/ \E what \in {"ok", "error", "conflict"} : Said(nextId, what)
     \/ UNCHANGED told /\ (~ receiver \/ IsClosed')

\* The request is given to a task.
GivenTo(kind, at, as) ==
  /\ task'[nextId].kind = kind /\ task'[nextId].at = at /\ task'[nextId].as = as
  /\ UNCHANGED told

AnyRequest ==
  \/ Unauthorized \/ unsubscribe \/ spawn_subscribe \/ spawn_auth
  \/ spawn_call("call") \/ spawn_call("stream")

RequestEffect ==
  /\ nextId \in Id /\ nextId' = nextId + 1
  /\ bound' = bound /\ req' = req /\ authenticated' = authenticated
  /\ adapter' = adapter /\ dropped' = dropped /\ receiver' = receiver
  /\ IsClosed => IsClosed'
  /\ \A j \in Id : j # nextId => task'[j] = task[j]
  /\ \/ AnsweredNow
     \/ /\ authenticated /\ authenticating' = authenticating
        /\ \E kind \in {"call", "stream"} : GivenTo(kind, "run", req)
     \/ /\ authenticated /\ authenticating' = authenticating
        /\ GivenTo("subscribe", "start", Anonymous)
     \/ /\ ~ authenticating /\ authenticating' = TRUE
        /\ GivenTo("auth", "hook", Anonymous)

LEMMA AnsweredFacts ==
  ASSUME TypeOK, nextId \in Id, NEW what \in {"ok", "error", "conflict"},
         Answered(what), UNCHANGED authenticating
  PROVE  /\ outgoing' \in Seq(Id \cup {0}) /\ told' \in [Id -> Seq(Answer)]
         /\ attached' \in BOOLEAN /\ closer' \in {"open", "retry", "final"}
         /\ signalling' = signalling /\ task' \in [Id -> TaskRecord]
         /\ bound' = bound /\ req' = req /\ authenticated' = authenticated
         /\ adapter' = adapter /\ dropped' = dropped /\ receiver' = receiver
         /\ IsClosed => IsClosed'
         /\ \A j \in Id : j # nextId => task'[j] = task[j]
         /\ AnsweredNow
  <1>1. /\ send_now(nextId, what, "no")
        /\ task' = [task EXCEPT ![nextId] = [NoTask EXCEPT !.at = "done"]]
        /\ bound' = bound /\ req' = req /\ authenticated' = authenticated
        /\ dropped' = dropped /\ adapter' = adapter
    BY DEF Answered
  <1>2. what \in Answer
    BY DEF Answer
  <1>3. /\ outgoing' \in Seq(Id \cup {0}) /\ told' \in [Id -> Seq(Answer)]
        /\ receiver' = receiver /\ signalling' = signalling
        /\ attached' \in BOOLEAN /\ closer' \in {"open", "retry", "final"}
        /\ IsClosed => IsClosed'
    BY <1>1, <1>2, SendNowFacts
  <1>4. Said(nextId, what) \/ (UNCHANGED told /\ (~ receiver \/ IsClosed'))
    BY <1>1, <1>2, SendNowFacts
  <1>5. /\ task' \in [Id -> TaskRecord]
        /\ task'[nextId] = [NoTask EXCEPT !.at = "done"]
        /\ \A j \in Id : j # nextId => task'[j] = task[j]
    BY <1>1, NoTasks, PutFacts
  <1>6. task'[nextId].kind = "none" /\ task'[nextId].at = "done"
    BY <1>5, NoTasks
  <1>7. AnsweredNow
    BY <1>4, <1>6 DEF AnsweredNow
  <1> QED
    BY <1>1, <1>3, <1>5, <1>7

LEMMA SpawnedFacts ==
  ASSUME TypeOK, nextId \in Id, NEW kind \in {"call", "stream", "subscribe", "auth"},
         NEW at \in At, NEW as \in Identity, Spawned(Task(kind, at, as))
  PROVE  /\ task' \in [Id -> TaskRecord]
         /\ UNCHANGED <<attached, bound, req, authenticated, closer, signalling,
                        dropped, adapter, outgoing, receiver>>
         /\ \A j \in Id : j # nextId => task'[j] = task[j]
         /\ GivenTo(kind, at, as)
  <1> DEFINE t == Task(kind, at, as)
  <1>1. t \in TaskRecord /\ t.kind = kind /\ t.at = at /\ t.as = as
    BY DEF Task, TaskRecord, At
  <1>2. /\ task' = [task EXCEPT ![nextId] = t]
        /\ UNCHANGED <<attached, bound, req, authenticated, closer, signalling,
                       dropped, adapter, outgoing, receiver, told>>
    BY DEF Spawned, endVars, wireVars
  <1> HIDE DEF t
  <1>3. /\ task' \in [Id -> TaskRecord] /\ task'[nextId] = t
        /\ \A j \in Id : j # nextId => task'[j] = task[j]
    BY <1>1, <1>2, PutFacts
  <1> QED
    BY <1>1, <1>2, <1>3 DEF GivenTo

LEMMA RequestFacts ==
  ASSUME TypeOK, AnyRequest
  PROVE  TypeOK' /\ RequestEffect
  <1>1. /\ nextId \in Id /\ nextId' = nextId + 1
        /\ idle' = FALSE /\ rate' = rate + 1 /\ timer' = timer
    BY DEF AnyRequest, Unauthorized, unsubscribe, spawn_subscribe, spawn_auth,
       spawn_call, Request, Handle, Touched
  <1>2. rate' \in Nat /\ nextId' \in Nat \ {0}
    BY <1>1 DEF TypeOK
  <1>3. ASSUME NEW what \in {"ok", "error", "conflict"}, Answered(what),
               UNCHANGED authenticating
        PROVE  TypeOK' /\ RequestEffect
    <2>1. /\ outgoing' \in Seq(Id \cup {0}) /\ told' \in [Id -> Seq(Answer)]
          /\ attached' \in BOOLEAN /\ closer' \in {"open", "retry", "final"}
          /\ signalling' = signalling /\ task' \in [Id -> TaskRecord]
          /\ bound' = bound /\ req' = req /\ authenticated' = authenticated
          /\ adapter' = adapter /\ dropped' = dropped /\ receiver' = receiver
          /\ IsClosed => IsClosed'
      BY <1>1, <1>3, AnsweredFacts
    <2>2. AnsweredNow /\ \A j \in Id : j # nextId => task'[j] = task[j]
      BY <1>1, <1>3, AnsweredFacts
    <2>3. TypeOK'
      BY <1>1, <1>2, <1>3, <2>1 DEF TypeOK, Answer
    <2> QED
      BY <1>1, <2>1, <2>2, <2>3 DEF RequestEffect
  <1>4. ASSUME NEW kind \in {"call", "stream", "subscribe", "auth"}, NEW at \in At,
               NEW as \in Identity, Spawned(Task(kind, at, as)),
               authenticating' \in BOOLEAN
        PROVE  /\ TypeOK' /\ GivenTo(kind, at, as)
               /\ UNCHANGED <<bound, req, authenticated, adapter, dropped, receiver,
                              closer>>
               /\ \A j \in Id : j # nextId => task'[j] = task[j]
    <2>1. /\ task' \in [Id -> TaskRecord]
          /\ UNCHANGED <<attached, bound, req, authenticated, closer, signalling,
                         dropped, adapter, outgoing, receiver>>
          /\ \A j \in Id : j # nextId => task'[j] = task[j]
          /\ GivenTo(kind, at, as)
      BY <1>1, <1>4, SpawnedFacts
    <2>2. UNCHANGED told
      BY <2>1 DEF GivenTo
    <2>3. TypeOK'
      BY <1>1, <1>2, <1>4, <2>1, <2>2 DEF TypeOK
    <2> QED
      BY <2>1, <2>3
  <1>5. /\ Anonymous \in Identity /\ req \in Identity
        /\ {"run", "start", "hook"} \subseteq At
        /\ authenticated \in BOOLEAN /\ authenticating \in BOOLEAN
    BY DEF Identity, At, Claiming, TypeOK
  <1>6. ASSUME NEW kind \in {"call", "stream"}, authenticated,
               UNCHANGED authenticating, Spawned(Task(kind, "run", req))
        PROVE  TypeOK' /\ RequestEffect
    <2>1. /\ TypeOK' /\ GivenTo(kind, "run", req)
          /\ UNCHANGED <<bound, req, authenticated, adapter, dropped, receiver, closer>>
          /\ \A j \in Id : j # nextId => task'[j] = task[j]
      BY <1>4, <1>5, <1>6
    <2> QED
      BY <1>1, <1>6, <2>1 DEF RequestEffect, IsClosed
  <1>7. ASSUME authenticated, UNCHANGED authenticating,
               Spawned(Task("subscribe", "start", Anonymous))
        PROVE  TypeOK' /\ RequestEffect
    <2>1. /\ TypeOK' /\ GivenTo("subscribe", "start", Anonymous)
          /\ UNCHANGED <<bound, req, authenticated, adapter, dropped, receiver, closer>>
          /\ \A j \in Id : j # nextId => task'[j] = task[j]
      BY <1>4, <1>5, <1>7
    <2> QED
      BY <1>1, <1>7, <2>1 DEF RequestEffect, IsClosed
  <1>8. ASSUME ~ authenticating, authenticating' = TRUE,
               Spawned(Task("auth", "hook", Anonymous))
        PROVE  TypeOK' /\ RequestEffect
    <2>1. /\ TypeOK' /\ GivenTo("auth", "hook", Anonymous)
          /\ UNCHANGED <<bound, req, authenticated, adapter, dropped, receiver, closer>>
          /\ \A j \in Id : j # nextId => task'[j] = task[j]
      BY <1>4, <1>5, <1>8
    <2> QED
      BY <1>1, <1>8, <2>1 DEF RequestEffect, IsClosed
  <1>9. CASE Unauthorized \/ unsubscribe
    BY <1>3, <1>9 DEF Unauthorized, unsubscribe
  <1>10. CASE spawn_call("call") \/ spawn_call("stream")
    <2>1. PICK kind \in {"call", "stream"} : spawn_call(kind)
      BY <1>10
    <2> QED
      BY <1>3, <1>6, <2>1 DEF spawn_call
  <1>11. CASE spawn_subscribe
    BY <1>3, <1>7, <1>11 DEF spawn_subscribe
  <1>12. CASE spawn_auth
    BY <1>3, <1>8, <1>12 DEF spawn_auth
  <1> QED
    BY <1>9, <1>10, <1>11, <1>12 DEF AnyRequest

-----------------------------------------------------------------------------
(* The tasks                                                               *)

\* What a step of task `i` does to the rest, and what the client is told.
TaskEffect(i) ==
  /\ nextId' = nextId /\ dropped' = dropped /\ receiver' = receiver
  /\ IsClosed => IsClosed'
  /\ i \in Running
  /\ \A j \in Id : j # i => task'[j] = task[j]
  /\ task'[i].kind = task[i].kind
  /\ \/ UNCHANGED told /\ i \in Running'
     \/ Said(i, "item") /\ i \in Running'
     \/ /\ task'[i].at = "done"
        /\ \/ \E what \in {"ok", "error"} : Said(i, what)
           \/ UNCHANGED told /\ (~ receiver \/ IsClosed')

LEMMA TaskFacts ==
  ASSUME TypeOK, NEW i \in Id, Step(i)
  PROVE  TypeOK' /\ TaskEffect(i)
  <1> USE DEF taskOnly, timeVars
  <1>0. /\ task[i] \in TaskRecord /\ task \in [Id -> TaskRecord]
        /\ {"ok", "error", "done", "run", "authorize"} \cup Claiming \subseteq At
        /\ {"ok", "error", "item"} \subseteq Answer
    BY DEF TypeOK, At, Answer
  <1>r. task[i].at \notin {"none", "done"} => i \in Running
    BY DEF Running
  <1>p. task'[i].at \notin {"none", "done"} => i \in Running'
    BY DEF Running
  <1>1. ASSUME Ends(i) PROVE TypeOK' /\ TaskEffect(i)
    <2>1. PICK at \in {"ok", "error"} : Goto(i, at)
      <3>1. PICK outcome \in {"ok", "error", "panic"} :
               Goto(i, IF run_unary(outcome) = "panic" THEN "done"
                       ELSE run_unary(outcome))
        BY <1>1 DEF Ends
      <3> QED
        BY <3>1 DEF run_unary
    <2>2. /\ task' \in [Id -> TaskRecord] /\ task'[i].at = at
          /\ task'[i].kind = task[i].kind
          /\ \A j \in Id : j # i => task'[j] = task[j]
      BY <1>0, <2>1, GotoFacts
    <2>3. UNCHANGED <<attached, authenticating, closer, signalling, outgoing,
             receiver, told, bound, req, authenticated, dropped, adapter, timer,
             idle, rate, nextId>> /\ task[i].at = "run"
      BY <1>1 DEF Ends, wireVars
    <2>4. TypeOK'
      BY <2>2, <2>3 DEF TypeOK
    <2> QED
      BY <1>r, <1>p, <2>2, <2>3, <2>4 DEF TaskEffect, IsClosed
  <1>2. ASSUME Replies(i) PROVE TypeOK' /\ TaskEffect(i)
    <2>1. /\ task[i].at \in {"ok", "error"} /\ Send(i, task[i].at) /\ Goto(i, "done")
          /\ UNCHANGED <<attached, authenticating, closer, signalling, bound, req,
               authenticated, dropped, adapter, timer, idle, rate, nextId>>
      BY <1>2 DEF Replies
    <2>2. /\ task' \in [Id -> TaskRecord] /\ task'[i].at = "done"
          /\ task'[i].kind = task[i].kind
          /\ \A j \in Id : j # i => task'[j] = task[j]
      BY <1>0, <2>1, GotoFacts
    <2>3. /\ outgoing' \in Seq(Id \cup {0}) /\ told' \in [Id -> Seq(Answer)]
          /\ receiver' = receiver
          /\ Said(i, task[i].at) \/ (UNCHANGED told /\ ~ receiver)
      BY <1>0, <2>1, SendFacts
    <2>4. TypeOK'
      BY <2>1, <2>2, <2>3 DEF TypeOK, Answer
    <2> QED
      BY <1>r, <2>1, <2>2, <2>3, <2>4 DEF TaskEffect, IsClosed
  <1>3. ASSUME Yields(i) PROVE TypeOK' /\ TaskEffect(i)
    <2>1. /\ task[i].at = "run"
          /\ UNCHANGED <<attached, authenticating, closer, signalling, bound, req,
               authenticated, dropped, adapter, timer, idle, rate, nextId>>
      BY <1>3 DEF Yields
    <2>2. ASSUME Send(i, "item"), Goto(i, IF receiver THEN "run" ELSE "done")
          PROVE  TypeOK' /\ TaskEffect(i)
      <3> DEFINE at == IF receiver THEN "run" ELSE "done"
      <3>1. /\ task' \in [Id -> TaskRecord] /\ task'[i].at = at
            /\ task'[i].kind = task[i].kind
            /\ \A j \in Id : j # i => task'[j] = task[j]
        BY <1>0, <2>2, GotoFacts
      <3>2. /\ outgoing' \in Seq(Id \cup {0}) /\ told' \in [Id -> Seq(Answer)]
            /\ receiver' = receiver
            /\ Said(i, "item") \/ (UNCHANGED told /\ ~ receiver)
        BY <1>0, <2>2, SendFacts
      <3>3. TypeOK'
        BY <2>1, <3>1, <3>2 DEF TypeOK, Answer
      <3>4. receiver => Said(i, "item") /\ i \in Running'
        BY <1>p, <3>1, <3>2
      <3>5. ~ receiver => UNCHANGED told /\ task'[i].at = "done"
        <4>1. ~ receiver => UNCHANGED told
          BY <2>2 DEF Send, wireVars
        <4> QED
          BY <3>1, <4>1
      <3> QED
        BY <1>r, <2>1, <3>1, <3>2, <3>3, <3>4, <3>5 DEF TaskEffect, IsClosed
    <2>3. ASSUME NEW last \in {"ok", "error"}, Goto(i, last), UNCHANGED wireVars
          PROVE  TypeOK' /\ TaskEffect(i)
      <3>1. /\ task' \in [Id -> TaskRecord] /\ task'[i].at = last
            /\ task'[i].kind = task[i].kind
            /\ \A j \in Id : j # i => task'[j] = task[j]
        BY <1>0, <2>3, GotoFacts
      <3>2. UNCHANGED <<outgoing, receiver, told>>
        BY <2>3 DEF wireVars
      <3>3. TypeOK'
        BY <2>1, <3>1, <3>2 DEF TypeOK
      <3> QED
        BY <1>r, <1>p, <2>1, <3>1, <3>2, <3>3 DEF TaskEffect, IsClosed
    <2> QED
      BY <1>3, <2>2, <2>3 DEF Yields
  <1>4. ASSUME NEW at \in {"authorize", "context"}, NEW as \in Identity,
               task' = [task EXCEPT ![i].at = at, ![i].as = as]
        PROVE  /\ task' \in [Id -> TaskRecord] /\ task'[i].at = at
               /\ task'[i].kind = task[i].kind /\ task'[i].as = as
               /\ \A j \in Id : j # i => task'[j] = task[j]
    <2> DEFINE new == [task[i] EXCEPT !.at = at, !.as = as]
    <2>1. task' = [task EXCEPT ![i] = new]
      BY <1>0, <1>4
    <2>2. /\ new \in TaskRecord /\ new.at = at /\ new.kind = task[i].kind
          /\ new.as = as
      BY <1>0 DEF TaskRecord, Claiming
    <2> HIDE DEF new
    <2> QED
      BY <2>1, <2>2, PutFacts
  <1>5. ASSUME TakesContext(i) PROVE TypeOK' /\ TaskEffect(i)
    <2>1. /\ task[i].at = "start"
          /\ task' = [task EXCEPT ![i].at = "authorize", ![i].as = req]
          /\ UNCHANGED <<attached, authenticating, closer, signalling, outgoing,
               receiver, told, bound, req, authenticated, dropped, adapter, timer,
               idle, rate, nextId>>
      BY <1>5 DEF TakesContext, wireVars
    <2>2. /\ task' \in [Id -> TaskRecord] /\ task'[i].at = "authorize"
          /\ task'[i].kind = task[i].kind
          /\ \A j \in Id : j # i => task'[j] = task[j]
      BY <1>4, <2>1 DEF TypeOK
    <2>3. TypeOK'
      BY <2>1, <2>2 DEF TypeOK
    <2> QED
      BY <1>r, <1>p, <2>1, <2>2, <2>3 DEF TaskEffect, IsClosed
  <1>6. ASSUME NEW what \in {"ok", "error"}, NEW then \in {"no", "retry", "final"},
               task[i].at \notin {"none", "done"}, send_now(i, what, then),
               Goto(i, "done"), UNCHANGED <<authenticating, taskOnly>>
        PROVE  TypeOK' /\ TaskEffect(i)
    <2>1. /\ task' \in [Id -> TaskRecord] /\ task'[i].at = "done"
          /\ task'[i].kind = task[i].kind
          /\ \A j \in Id : j # i => task'[j] = task[j]
      BY <1>0, <1>6, GotoFacts
    <2>2. /\ outgoing' \in Seq(Id \cup {0}) /\ told' \in [Id -> Seq(Answer)]
          /\ receiver' = receiver /\ signalling' = signalling
          /\ attached' \in BOOLEAN /\ closer' \in {"open", "retry", "final"}
          /\ IsClosed => IsClosed'
      BY <1>0, <1>6, SendNowFacts
    <2>3. Said(i, what) \/ (UNCHANGED told /\ (~ receiver \/ IsClosed'))
      BY <1>0, <1>6, SendNowFacts
    <2>4. UNCHANGED <<authenticating, bound, req, authenticated, dropped, adapter,
                      timer, idle, rate, nextId>>
      BY <1>6
    <2>5. TypeOK'
      BY <2>1, <2>2, <2>4 DEF TypeOK, Answer
    <2> QED
      BY <1>6, <1>r, <2>1, <2>2, <2>3, <2>4, <2>5 DEF TaskEffect
  <1>7. ASSUME Subscribes(i) PROVE TypeOK' /\ TaskEffect(i)
    <2>1. task[i].at = "authorize" /\ UNCHANGED <<authenticating, taskOnly>>
      BY <1>7 DEF Subscribes
    <2>2. ASSUME task' = [task EXCEPT ![i].tries = @ + 1],
                 UNCHANGED <<attached, closer, signalling, wireVars>>
          PROVE  TypeOK' /\ TaskEffect(i)
      <3> DEFINE new == [task[i] EXCEPT !.tries = @ + 1]
      <3>1. task' = [task EXCEPT ![i] = new]
        BY <1>0, <2>2
      <3>2. new \in TaskRecord /\ new.at = task[i].at /\ new.kind = task[i].kind
        BY <1>0 DEF TaskRecord
      <3> HIDE DEF new
      <3>3. /\ task' \in [Id -> TaskRecord] /\ task'[i].at = "authorize"
            /\ task'[i].kind = task[i].kind
            /\ \A j \in Id : j # i => task'[j] = task[j]
        BY <2>1, <3>1, <3>2, PutFacts
      <3>4. UNCHANGED <<attached, authenticating, closer, signalling, outgoing,
               receiver, told, bound, req, authenticated, dropped, adapter, timer,
               idle, rate, nextId>>
        BY <2>1, <2>2 DEF wireVars
      <3>5. TypeOK'
        BY <3>3, <3>4 DEF TypeOK
      <3> QED
        BY <1>r, <1>p, <2>1, <3>3, <3>4, <3>5 DEF TaskEffect, IsClosed
    <2>3. \/ \E what \in {"ok", "error"} : send_now(i, what, "no") /\ Goto(i, "done")
          \/ /\ task' = [task EXCEPT ![i].tries = @ + 1]
             /\ UNCHANGED <<attached, closer, signalling, wireVars>>
      BY <1>7 DEF Subscribes
    <2> QED
      BY <1>6, <2>1, <2>2, <2>3
  <1>8. ASSUME AuthReplies(i) PROVE TypeOK' /\ TaskEffect(i)
    <2>1. /\ task[i].at \in {"ok", "error"} /\ Goto(i, "done")
          /\ UNCHANGED <<authenticating, taskOnly>>
      BY <1>8 DEF AuthReplies
    <2>2. \E what \in {"ok", "error"}, then \in {"no", "retry", "final"} :
             send_now(i, what, then)
      BY <1>8 DEF AuthReplies
    <2> QED
      BY <1>6, <2>1, <2>2
  <1>9. ASSUME AuthBinds(i) PROVE TypeOK' /\ TaskEffect(i)
    <2>1. PICK u \in User :
             BindsHub(u) /\ task' = [task EXCEPT ![i].at = "context", ![i].as = u]
      BY <1>9 DEF AuthBinds
    <2>2. /\ task[i].at = "hook" /\ bound' = u
          /\ UNCHANGED <<attached, authenticating, closer, signalling, outgoing,
               receiver, told, req, authenticated, dropped, adapter, timer, idle,
               rate, nextId>>
      BY <1>9, <2>1 DEF AuthBinds, BindsHub, endVars, wireVars
    <2>3. u \in Identity
      BY DEF Identity
    <2>4. /\ task' \in [Id -> TaskRecord] /\ task'[i].at = "context"
          /\ task'[i].kind = task[i].kind
          /\ \A j \in Id : j # i => task'[j] = task[j]
      BY <1>4, <2>1, <2>3
    <2>5. TypeOK'
      BY <2>2, <2>3, <2>4 DEF TypeOK
    <2> QED
      BY <1>r, <1>p, <2>2, <2>4, <2>5 DEF TaskEffect, IsClosed
  <1>10. ASSUME Authenticates(i) \/ AuthFails(i) \/ AuthReleases(i)
         PROVE  TypeOK' /\ TaskEffect(i)
    <2>1. PICK at \in {"flag", "bound", "refused", "ok", "error"} : Goto(i, at)
      BY <1>10 DEF Authenticates, AuthFails, AuthReleases
    <2>2. /\ task[i].at \in Claiming /\ req' \in {req, task[i].as}
          /\ authenticated' \in BOOLEAN /\ authenticating' \in BOOLEAN
          /\ UNCHANGED <<attached, bound, closer, signalling, dropped, outgoing,
               receiver, told, adapter, timer, idle, rate, nextId>>
      BY <1>10 DEF Authenticates, AuthFails, AuthReleases, authVars, endVars,
         wireVars, Claiming, TypeOK
    <2>3. /\ task' \in [Id -> TaskRecord] /\ task'[i].at = at
          /\ task'[i].kind = task[i].kind
          /\ \A j \in Id : j # i => task'[j] = task[j]
      BY <2>1, GotoFacts DEF At, Claiming
    <2>4. req' \in Identity
      BY <1>0, <2>2 DEF TaskRecord, TypeOK
    <2>5. TypeOK'
      BY <2>2, <2>3, <2>4 DEF TypeOK
    <2> QED
      BY <1>r, <1>p, <2>2, <2>3, <2>5 DEF TaskEffect, IsClosed, Claiming
  <1> QED
    BY <1>1, <1>2, <1>3, <1>5, <1>7, <1>8, <1>9, <1>10 DEF Step

-----------------------------------------------------------------------------
(* Everything else                                                         *)

\* Steps that touch no task and no login.
Quiet ==
  \/ RateLimited \/ FrameTooLarge \/ OtherFrame \/ HubDetaches \/ HubSignals
  \/ Tick \/ WindowEnds \/ TimerEnds \/ Idles \/ NextSecond \/ Forward \/ Drop

QuietEffect ==
  /\ UNCHANGED <<task, told, bound, req, authenticated, authenticating, adapter, nextId>>
  /\ IsClosed => IsClosed'
  /\ dropped => dropped'
  /\ receiver' = receiver \/ dropped'

LEMMA QuietFacts ==
  ASSUME TypeOK, Quiet
  PROVE  TypeOK' /\ QuietEffect
  <1>1. CASE RateLimited \/ FrameTooLarge
    <2>1. /\ close("retry")
          /\ UNCHANGED <<task, told, bound, req, authenticated, authenticating,
                         adapter, nextId, dropped, outgoing, receiver, timer, rate>>
          /\ idle' \in BOOLEAN
      BY <1>1 DEF RateLimited, FrameTooLarge, wireVars, timeVars, TypeOK
    <2>2. /\ attached' = FALSE /\ signalling' = signalling
          /\ closer' \in {"open", "retry", "final"} /\ closer' # "open"
      BY <2>1, CloseFacts
    <2> QED
      BY <2>1, <2>2 DEF TypeOK, QuietEffect, IsClosed
  <1>2. CASE OtherFrame
    <2>1. UNCHANGED <<attached, bound, req, authenticated, authenticating, closer,
             signalling, dropped, task, adapter, outgoing, receiver, told, timer,
             nextId>> /\ idle' = FALSE /\ rate' = rate + 1
      BY <1>2 DEF OtherFrame, Handle, Touched, authVars, endVars, wireVars
    <2>2. QuietEffect
      BY <2>1 DEF QuietEffect, IsClosed
    <2>3. rate' \in Nat
      BY <2>1 DEF TypeOK
    <2>4. TypeOK'
      BY <2>1, <2>3, Zenon DEF TypeOK
    <2> QED
      BY <2>2, <2>4
  <1>3. CASE HubDetaches
    <2>1. UNCHANGED <<bound, req, authenticated, authenticating, closer, dropped,
             task, adapter, outgoing, receiver, told, timer, idle, rate, nextId>>
          /\ attached' = FALSE /\ signalling' \in {"final", "retry"}
      BY <1>3 DEF HubDetaches, wireVars, timeVars
    <2> QED
      BY <2>1 DEF TypeOK, QuietEffect, IsClosed
  <1>4. CASE HubSignals
    <2>1. UNCHANGED <<attached, bound, req, authenticated, authenticating, dropped,
             task, adapter, outgoing, receiver, told, timer, idle, rate, nextId>>
          /\ signalling' = "no" /\ signalling # "no"
          /\ closer' = (IF IsClosed THEN closer ELSE signalling)
      BY <1>4 DEF HubSignals, Signal, authVars, wireVars, timeVars
    <2>2. closer' \in {"open", "retry", "final"} /\ (IsClosed => IsClosed')
      BY <2>1 DEF TypeOK, IsClosed
    <2> QED
      BY <2>1, <2>2 DEF TypeOK, QuietEffect
  <1>5. CASE Tick
    <2>1. UNCHANGED <<bound, req, authenticated, authenticating, dropped, task,
                      adapter, idle, rate, nextId>>
      BY <1>5 DEF Tick
    <2>2. CASE idle
      <3>1. close("retry") /\ timer' = "over" /\ UNCHANGED <<outgoing, receiver, told>>
        BY <1>5, <2>2 DEF Tick, wireVars
      <3>2. /\ attached' = FALSE /\ signalling' = signalling
            /\ closer' \in {"open", "retry", "final"} /\ closer' # "open"
        BY <3>1, CloseFacts
      <3> QED
        BY <2>1, <3>1, <3>2 DEF TypeOK, QuietEffect, IsClosed
    <2>3. CASE ~ idle
      <3>1. send_now(0, "ping", "no") /\ timer' = timer
        BY <1>5, <2>3 DEF Tick
      <3>2. /\ outgoing' \in Seq(Id \cup {0})
            /\ receiver' = receiver /\ signalling' = signalling
            /\ attached' \in BOOLEAN /\ closer' \in {"open", "retry", "final"}
            /\ UNCHANGED told
            /\ IsClosed => IsClosed'
        BY <3>1, SendNowFacts
      <3> QED
        BY <2>1, <3>1, <3>2 DEF TypeOK, QuietEffect
    <2> QED
      BY <2>2, <2>3
  <1>6. CASE WindowEnds
    <2>1. UNCHANGED <<bound, req, authenticated, authenticating, dropped, task,
                      adapter, outgoing, receiver, told, idle, rate, nextId>>
      BY <1>6 DEF WindowEnds, wireVars
    <2>2. CASE authenticated
      BY <1>6, <2>1, <2>2 DEF WindowEnds, TypeOK, QuietEffect, IsClosed
    <2>3. CASE ~ authenticated
      <3>1. close("retry") /\ timer' = "over"
        BY <1>6, <2>3 DEF WindowEnds
      <3>2. /\ attached' = FALSE /\ signalling' = signalling
            /\ closer' \in {"open", "retry", "final"} /\ closer' # "open"
        BY <3>1, CloseFacts
      <3> QED
        BY <2>1, <3>1, <3>2 DEF TypeOK, QuietEffect, IsClosed
    <2> QED
      BY <2>2, <2>3
  <1>7. CASE TimerEnds \/ Idles \/ NextSecond
    <2>1. UNCHANGED <<attached, bound, req, authenticated, authenticating, closer,
             signalling, dropped, task, adapter, outgoing, receiver, told, nextId>>
          /\ timer' \in {timer, "over"} /\ idle' \in {idle, TRUE} /\ rate' \in {rate, 0}
      BY <1>7 DEF TimerEnds, Idles, NextSecond, authVars, endVars, wireVars
    <2>2. QuietEffect
      BY <2>1 DEF QuietEffect, IsClosed
    <2>3. timer' \in {"window", "ticking", "over"} /\ rate' \in Nat
      BY <2>1 DEF TypeOK
    <2>4. TypeOK'
      BY <2>1, <2>3, Zenon DEF TypeOK
    <2> QED
      BY <2>2, <2>4
  <1>8. CASE Forward
    <2>1. UNCHANGED <<attached, bound, req, authenticated, authenticating, closer,
             signalling, dropped, task, adapter, receiver, told, timer, idle, rate,
             nextId>> /\ outgoing # <<>> /\ outgoing' = Tail(outgoing)
      BY <1>8 DEF Forward, authVars, endVars, timeVars
    <2>2. outgoing' \in Seq(Id \cup {0})
      BY <2>1, HeadTailProperties DEF TypeOK
    <2> QED
      BY <2>1, <2>2 DEF TypeOK, QuietEffect, IsClosed
  <1>9. CASE Drop
    <2>1. UNCHANGED <<bound, req, authenticated, authenticating, closer, signalling,
             task, adapter, told, idle, rate, nextId>>
          /\ dropped' = TRUE /\ attached' = FALSE /\ receiver' = FALSE
          /\ outgoing' = <<>> /\ timer' = "over"
      BY <1>9 DEF Drop
    <2>2. QuietEffect
      BY <2>1 DEF QuietEffect, IsClosed
    <2>3. outgoing' \in Seq(Id \cup {0}) /\ timer' \in {"window", "ticking", "over"}
      BY <2>1
    <2>4. TypeOK'
      BY <2>1, <2>3, Zenon DEF TypeOK
    <2> QED
      BY <2>2, <2>4
  <1> QED
    BY <1>1, <1>2, <1>3, <1>4, <1>5, <1>6, <1>7, <1>8, <1>9 DEF Quiet

\* The adapter's three steps of a login.
AdapterEffect ==
  /\ UNCHANGED <<task, told, authenticating, nextId, closer, dropped, receiver>>
  /\ \/ /\ bound = Anonymous /\ bound' \in User
        /\ adapter'.at = "context" /\ adapter'.as = bound'
        /\ UNCHANGED <<req, authenticated>>
     \/ /\ adapter.at = "context" /\ adapter'.at = "flag" /\ adapter'.as = adapter.as
        /\ req' = adapter.as
        /\ UNCHANGED <<bound, authenticated>>
     \/ /\ adapter.at = "flag" /\ adapter'.at = "done"
        /\ authenticated' = TRUE
        /\ UNCHANGED <<bound, req>>

LEMMA AdapterFacts ==
  ASSUME TypeOK, AdapterAuthenticates
  PROVE  TypeOK' /\ AdapterEffect
  <1>0. UNCHANGED <<authenticating, closer, signalling, dropped, task, outgoing,
                    receiver, told, timer, idle, rate, nextId>>
    BY DEF AdapterAuthenticates, endVars, wireVars, timeVars
  <1>a. adapter \in [at : {"new", "context", "flag", "done"}, as : Identity]
    BY DEF TypeOK
  <1>1. ASSUME NEW u \in User, BindsHub(u), adapter' = [at |-> "context", as |-> u],
               UNCHANGED <<req, authenticated>>
        PROVE  TypeOK' /\ AdapterEffect
    <2>1. bound = Anonymous /\ bound' = u /\ attached' = attached /\ u \in Identity
      BY <1>1 DEF BindsHub, Identity
    <2>2. /\ adapter' \in [at : {"new", "context", "flag", "done"}, as : Identity]
          /\ adapter'.at = "context" /\ adapter'.as = u
      BY <1>1, <2>1
    <2> QED
      BY <1>0, <1>1, <2>1, <2>2 DEF TypeOK, AdapterEffect
  <1>2. ASSUME NEW at \in {"flag", "done"}, adapter' = [adapter EXCEPT !.at = at]
        PROVE  /\ adapter' \in [at : {"new", "context", "flag", "done"}, as : Identity]
               /\ adapter'.at = at /\ adapter'.as = adapter.as
    BY <1>a, <1>2
  <1>3. ASSUME adapter.at = "context", adapter' = [adapter EXCEPT !.at = "flag"],
               req' = adapter.as, UNCHANGED <<attached, bound, authenticated>>
        PROVE  TypeOK' /\ AdapterEffect
    <2>1. /\ adapter' \in [at : {"new", "context", "flag", "done"}, as : Identity]
          /\ adapter'.at = "flag" /\ adapter'.as = adapter.as /\ adapter.as \in Identity
      BY <1>a, <1>2, <1>3
    <2> QED
      BY <1>0, <1>3, <2>1 DEF TypeOK, AdapterEffect
  <1>4. ASSUME adapter.at = "flag", adapter' = [adapter EXCEPT !.at = "done"],
               authenticated' = TRUE, UNCHANGED <<attached, bound, req>>
        PROVE  TypeOK' /\ AdapterEffect
    <2>1. /\ adapter' \in [at : {"new", "context", "flag", "done"}, as : Identity]
          /\ adapter'.at = "done"
      BY <1>2, <1>4
    <2> QED
      BY <1>0, <1>4, <2>1 DEF TypeOK, AdapterEffect
  <1> QED
    BY <1>1, <1>3, <1>4 DEF AdapterAuthenticates

LEMMA Steps ==
  [Next]_vars => \/ AnyRequest \/ Quiet \/ AdapterAuthenticates
                 \/ \E i \in Id : Step(i)
                 \/ UNCHANGED vars
  BY DEF Next, AnyRequest, Quiet

LEMMA InitType == Init => TypeOK
  <1> SUFFICES ASSUME Init PROVE TypeOK
    OBVIOUS
  <1>1. Anonymous \in Identity /\ NoTask \in TaskRecord
    BY NoTasks DEF Identity
  <1>2. adapter \in [at : {"new", "context", "flag", "done"}, as : Identity]
    BY <1>1 DEF Init
  <1>3. /\ outgoing \in Seq(Id \cup {0}) /\ rate \in Nat /\ nextId \in Nat \ {0}
        /\ task \in [Id -> TaskRecord] /\ told \in [Id -> Seq(Answer)]
        /\ timer \in {"window", "ticking", "over"}
        /\ closer \in {"open", "retry", "final"} /\ signalling \in {"no", "retry", "final"}
    BY <1>1 DEF Init
  <1>4. /\ attached \in BOOLEAN /\ authenticated \in BOOLEAN
        /\ authenticating \in BOOLEAN /\ dropped \in BOOLEAN
        /\ receiver \in BOOLEAN /\ idle \in BOOLEAN
    BY ConstantTypes DEF Init
  <1>5. bound \in Identity /\ req \in Identity
    BY <1>1 DEF Init
  <1> QED
    BY <1>2, <1>3, <1>4, <1>5 DEF TypeOK, Answer

LEMMA StepType == TypeOK /\ [Next]_vars => TypeOK'
  <1> SUFFICES ASSUME TypeOK, [Next]_vars PROVE TypeOK'
    OBVIOUS
  <1>1. CASE UNCHANGED vars
    BY <1>1 DEF TypeOK, vars, authVars, endVars, wireVars, timeVars
  <1> QED
    BY <1>1, Steps, RequestFacts, QuietFacts, AdapterFacts, TaskFacts

\* Every variable of a session has its type in every reachable state.
THEOREM TypeCorrect == Spec => []TypeOK
  BY InitType, StepType, PTL DEF Spec

-----------------------------------------------------------------------------
(* The login                                                               *)

\* What a step of task `i` does to the login.
SameLogin == UNCHANGED <<bound, req, authenticated, authenticating, adapter>>

Served(i) ==
  /\ task[i].kind # "auth" /\ SameLogin
  /\ \/ task'[i].as = task[i].as
        /\ ~ (task[i].kind = "subscribe" /\ task[i].at = "start")
     \/ task'[i].as = req

AuthStep(i) ==
  /\ task[i].kind = "auth" /\ UNCHANGED adapter
  /\ \/ /\ bound = Anonymous /\ bound' \in User
        /\ task[i].at = "hook" /\ task'[i].at = "context" /\ task'[i].as = bound'
        /\ UNCHANGED <<req, authenticated, authenticating>>
     \/ /\ task[i].at = "context" /\ task'[i].at = "flag"
        /\ task'[i].as = task[i].as /\ req' = task[i].as
        /\ UNCHANGED <<bound, authenticated, authenticating>>
     \/ /\ task[i].at = "flag" /\ task'[i].at = "bound" /\ authenticated' = TRUE
        /\ UNCHANGED <<bound, req, authenticating>>
     \/ /\ task[i].at = "hook" /\ task'[i].at = "refused"
        /\ UNCHANGED <<bound, req, authenticated, authenticating>>
     \/ /\ task[i].at \in {"bound", "refused"} /\ task'[i].at \in {"ok", "error"}
        /\ authenticating' = FALSE
        /\ UNCHANGED <<bound, req, authenticated>>
     \/ /\ task[i].at \in {"ok", "error"} /\ task'[i].at = "done"
        /\ UNCHANGED <<bound, req, authenticated, authenticating>>

LEMMA LoginEffect ==
  ASSUME TypeOK, NEW i \in Id, Step(i)
  PROVE  Served(i) \/ AuthStep(i)
  <1> USE DEF taskOnly
  <1>0. /\ task[i] \in TaskRecord /\ task \in [Id -> TaskRecord]
        /\ {"ok", "error", "done", "run", "flag", "bound", "refused"} \subseteq At
    BY DEF TypeOK, At, Claiming
  <1>1. ASSUME Ends(i) \/ Replies(i) \/ Yields(i) PROVE Served(i)
    <2>1. \E at \in {"ok", "error", "done", "run"} : Goto(i, at)
      <3>1. CASE Ends(i)
        BY <3>1 DEF Ends, run_unary
      <3>2. CASE Replies(i)
        BY <3>2 DEF Replies
      <3>3. CASE Yields(i)
        BY <3>3 DEF Yields
      <3> QED
        BY <1>1, <3>1, <3>2, <3>3
    <2>2. SameLogin /\ task[i].kind \in {"call", "stream"}
      BY <1>1 DEF Ends, Replies, Yields, SameLogin
    <2> QED
      BY <1>0, <2>1, <2>2, GotoFacts DEF Served
  <1>2. ASSUME TakesContext(i) PROVE Served(i)
    <2>1. /\ task[i].kind = "subscribe" /\ SameLogin
          /\ task' = [task EXCEPT ![i] = [task[i] EXCEPT !.at = "authorize", !.as = req]]
      BY <1>0, <1>2 DEF TakesContext, SameLogin
    <2>2. task'[i].as = req
      BY <1>0, <2>1 DEF TaskRecord
    <2> QED
      BY <2>1, <2>2 DEF Served
  <1>3. ASSUME Subscribes(i) PROVE Served(i)
    <2>1. /\ task[i].kind = "subscribe" /\ task[i].at = "authorize" /\ SameLogin
      BY <1>3 DEF Subscribes, SameLogin
    <2>2. CASE task' = [task EXCEPT ![i].tries = @ + 1]
      <3>1. task'[i] = [task[i] EXCEPT !.tries = @ + 1]
        BY <1>0, <2>2
      <3>2. task'[i].as = task[i].as
        BY <1>0, <3>1 DEF TaskRecord
      <3> QED
        BY <2>1, <3>2 DEF Served
    <2>3. CASE Goto(i, "done")
      BY <1>0, <2>1, <2>3, GotoFacts DEF Served
    <2> QED
      BY <1>3, <2>2, <2>3 DEF Subscribes
  <1>4. ASSUME AuthBinds(i) PROVE AuthStep(i)
    <2>1. PICK u \in User :
             BindsHub(u) /\ task' = [task EXCEPT ![i].at = "context", ![i].as = u]
      BY <1>4 DEF AuthBinds
    <2>2. task'[i] = [task[i] EXCEPT !.at = "context", !.as = u]
      BY <1>0, <2>1
    <2>3. task'[i].at = "context" /\ task'[i].as = u
      BY <1>0, <2>2 DEF TaskRecord
    <2> QED
      BY <1>4, <2>1, <2>3 DEF AuthStep, AuthBinds, BindsHub
  <1>5. ASSUME Authenticates(i) PROVE AuthStep(i)
    <2>1. /\ task[i].kind = "auth" /\ UNCHANGED <<adapter, bound, authenticating>>
      BY <1>5 DEF Authenticates
    <2>2. \/ /\ task[i].at = "context" /\ Goto(i, "flag")
             /\ req' = task[i].as /\ UNCHANGED authenticated
          \/ /\ task[i].at = "flag" /\ Goto(i, "bound")
             /\ authenticated' = TRUE /\ UNCHANGED req
      BY <1>5 DEF Authenticates
    <2>3. CASE task[i].at = "context" /\ Goto(i, "flag")
               /\ req' = task[i].as /\ UNCHANGED authenticated
      <3>1. task'[i].at = "flag" /\ task'[i].as = task[i].as
        BY <1>0, <2>3, GotoFacts
      <3> QED
        BY <2>1, <2>3, <3>1 DEF AuthStep
    <2>4. CASE task[i].at = "flag" /\ Goto(i, "bound")
               /\ authenticated' = TRUE /\ UNCHANGED req
      <3>1. task'[i].at = "bound"
        BY <1>0, <2>4, GotoFacts
      <3> QED
        BY <2>1, <2>4, <3>1 DEF AuthStep
    <2> QED
      BY <2>2, <2>3, <2>4
  <1>6. ASSUME AuthFails(i) PROVE AuthStep(i)
    <2>1. task'[i].at = "refused"
      BY <1>0, <1>6, GotoFacts DEF AuthFails
    <2> QED
      BY <1>6, <2>1 DEF AuthFails, AuthStep, authVars
  <1>7. ASSUME AuthReleases(i) PROVE AuthStep(i)
    <2>1. \E at \in {"ok", "error"} : Goto(i, at)
      BY <1>7 DEF AuthReleases
    <2>2. task'[i].at \in {"ok", "error"}
      BY <1>0, <2>1, GotoFacts
    <2> QED
      BY <1>7, <2>2 DEF AuthReleases, AuthStep
  <1>8. ASSUME AuthReplies(i) PROVE AuthStep(i)
    <2>1. task'[i].at = "done"
      BY <1>0, <1>8, GotoFacts DEF AuthReplies
    <2> QED
      BY <1>8, <2>1 DEF AuthReplies, AuthStep
  <1> QED
    BY <1>1, <1>2, <1>3, <1>4, <1>5, <1>6, <1>7, <1>8 DEF Step

LEMMA StepFresh ==
  ASSUME TypeOK, Fresh, [Next]_vars
  PROVE  Fresh'
  <1> SUFFICES ASSUME NEW j \in Id, j >= nextId'
               PROVE  task'[j].at = "none" /\ task'[j].kind = "none"
    BY DEF Fresh
  <1>0. nextId \in Nat /\ j \in Nat
    BY IdTypes DEF TypeOK
  <1>1. CASE AnyRequest
    <2>1. RequestEffect
      BY <1>1, RequestFacts
    <2>2. j > nextId /\ task'[j] = task[j]
      BY <1>0, <2>1 DEF RequestEffect
    <2> QED
      BY <1>0, <2>2 DEF Fresh
  <1>2. ASSUME UNCHANGED <<task, nextId>> PROVE task'[j].at = "none" /\ task'[j].kind = "none"
    BY <1>2 DEF Fresh
  <1>3. ASSUME NEW i \in Id, Step(i) PROVE task'[j].at = "none" /\ task'[j].kind = "none"
    <2>1. TaskEffect(i)
      BY <1>3, TaskFacts
    <2>2. j # i
      BY <2>1 DEF TaskEffect, Running, Fresh
    <2> QED
      BY <2>1, <2>2 DEF TaskEffect, Fresh
  <1> QED
    BY <1>1, <1>2, <1>3, Steps, QuietFacts, AdapterFacts
    DEF QuietEffect, AdapterEffect, vars

\* A step that changes neither the tasks nor the login keeps it in order.
LEMMA SameLoginKept ==
  ASSUME LoginInv, UNCHANGED <<task, nextId>>, SameLogin
  PROVE  LoginInOrder' /\ OneClaim' /\ LoginExact'
  BY DEF LoginInv, LoginInOrder, OneClaim, LoginExact, ServedAsBound, ClaimHeld,
     Running, SameLogin

LEMMA RequestLogin ==
  ASSUME LoginInv, AnyRequest
  PROVE  LoginInOrder' /\ OneClaim' /\ LoginExact'
  <1>0. TypeOK /\ Fresh /\ LoginInOrder /\ OneClaim /\ ServedAsBound /\ ClaimHeld
    BY DEF LoginInv, LoginExact
  <1>1. RequestEffect
    BY <1>0, RequestFacts
  <1>2. /\ nextId \in Id /\ \A j \in Id : j # nextId => task'[j] = task[j]
        /\ bound' = bound /\ req' = req /\ authenticated' = authenticated
        /\ adapter' = adapter
    BY <1>1 DEF RequestEffect
  <1>3. \/ /\ task'[nextId].kind = "none" /\ task'[nextId].at = "done"
           /\ authenticating' = authenticating
        \/ /\ authenticated /\ authenticating' = authenticating
           /\ task'[nextId].kind \in {"call", "stream"} /\ task'[nextId].as = req
        \/ /\ authenticated /\ authenticating' = authenticating
           /\ task'[nextId].kind = "subscribe" /\ task'[nextId].at = "start"
        \/ /\ ~ authenticating /\ authenticating' = TRUE
           /\ task'[nextId].kind = "auth" /\ task'[nextId].at = "hook"
    BY <1>1 DEF RequestEffect, AnsweredNow, GivenTo
  <1>4. task[nextId].at = "none" /\ task[nextId].kind = "none"
    BY <1>0, <1>2 DEF Fresh, TypeOK
  <1>5. LoginInOrder'
    <2>1. /\ AuthHook /\ authenticated' => bound' # Anonymous /\ req' = bound'
          /\ adapter'.at \in {"context", "flag"} => adapter'.as = bound' /\ bound' # Anonymous
          /\ adapter'.at = "flag" => req' = bound'
      BY <1>0, <1>2 DEF LoginInOrder
    <2>2. ASSUME NEW i \in Id, task'[i].kind = "auth"
          PROVE  /\ task'[i].at \in {"context", "flag"} =>
                       task'[i].as = bound' /\ bound' # Anonymous
                 /\ task'[i].at = "flag" => req' = bound'
      BY <1>0, <1>2, <1>3, <2>2 DEF LoginInOrder
    <2>3. ASSUME AuthHook, NEW i \in Id, task'[i].at \notin {"none", "done"},
                 task'[i].kind # "auth"
          PROVE  authenticated'
      BY <1>0, <1>2, <1>3, <2>3 DEF LoginInOrder, Running
    <2> QED
      BY <2>1, <2>2, <2>3 DEF LoginInOrder, Running
  <1>6. OneClaim'
    <2> SUFFICES ASSUME NEW i \in Id, NEW j \in Id,
                        task'[i].kind = "auth", task'[i].at \in Claiming,
                        task'[j].kind = "auth", task'[j].at \in Claiming, i # j
                 PROVE  FALSE
      BY DEF OneClaim
    <2>1. CASE i # nextId /\ j # nextId
      BY <1>0, <1>2, <2>1 DEF OneClaim
    <2>2. CASE i = nextId \/ j = nextId
      <3>1. ~ authenticating
        BY <1>3, <2>2
      <3> QED
        BY <1>0, <1>2, <2>2, <3>1 DEF ClaimHeld
    <2> QED
      BY <2>1, <2>2
  <1>7. ServedAsBound'
    <2> SUFFICES ASSUME AuthHook, NEW i \in Id, task'[i].at \notin {"none", "done"}
                 PROVE  \/ task'[i].kind = "auth"
                        \/ task'[i].kind = "subscribe" /\ task'[i].at = "start"
                        \/ task'[i].as = bound' /\ bound' # Anonymous
      BY DEF ServedAsBound, Running
    <2>1. CASE i # nextId
      BY <1>0, <1>2, <2>1 DEF ServedAsBound, Running
    <2>2. CASE i = nextId
      BY <1>0, <1>2, <1>3, <2>2 DEF LoginInOrder
    <2> QED
      BY <2>1, <2>2
  <1>8. ClaimHeld'
    <2>1. CASE task'[nextId].kind = "auth"
      BY <1>2, <1>3, <2>1 DEF ClaimHeld, Claiming
    <2>2. CASE task'[nextId].kind # "auth"
      <3>1. authenticating' = authenticating
        BY <1>3, <2>2
      <3>2. ASSUME NEW i \in Id
            PROVE  (task'[i].kind = "auth" /\ task'[i].at \in Claiming)
                      <=> (task[i].kind = "auth" /\ task[i].at \in Claiming)
        BY <1>2, <1>4, <2>2
      <3> QED
        BY <1>0, <3>1, <3>2 DEF ClaimHeld
    <2> QED
      BY <2>1, <2>2
  <1> QED
    BY <1>5, <1>6, <1>7, <1>8 DEF LoginExact

\* The adapter's login: the hub binds an identity only where there is none, and
\* then nothing is served yet.
LEMMA AdapterLogin ==
  ASSUME LoginInv, AdapterAuthenticates
  PROVE  LoginInOrder' /\ OneClaim' /\ LoginExact'
  <1>0. TypeOK /\ Fresh /\ LoginInOrder /\ OneClaim /\ ServedAsBound /\ ClaimHeld
    BY DEF LoginInv, LoginExact
  <1>1. AdapterEffect /\ TypeOK'
    BY <1>0, AdapterFacts
  <1>2. task' = task /\ authenticating' = authenticating
    BY <1>1 DEF AdapterEffect
  <1>3. OneClaim' /\ ClaimHeld'
    BY <1>0, <1>2 DEF OneClaim, ClaimHeld
  <1>4. CASE /\ bound = Anonymous /\ bound' \in User
             /\ adapter'.at = "context" /\ adapter'.as = bound'
             /\ UNCHANGED <<req, authenticated>>
    <2>1. bound' # Anonymous /\ (AuthHook => ~ authenticated)
      BY <1>0, <1>4, ConstantTypes DEF LoginInOrder
    <2>2. LoginInOrder'
      BY <1>0, <1>2, <1>4, <2>1 DEF LoginInOrder, Running
    <2>3. ServedAsBound'
      BY <1>0, <1>2, <2>1 DEF ServedAsBound, LoginInOrder, Running
    <2> QED
      BY <1>3, <2>2, <2>3 DEF LoginExact
  <1>5. CASE \/ /\ adapter.at = "context" /\ adapter'.at = "flag" /\ adapter'.as = adapter.as
                /\ req' = adapter.as /\ UNCHANGED <<bound, authenticated>>
             \/ /\ adapter.at = "flag" /\ adapter'.at = "done"
                /\ authenticated' = TRUE /\ UNCHANGED <<bound, req>>
    <2>1. req' \in {req, bound} /\ bound' = bound
      BY <1>0, <1>5 DEF LoginInOrder
    <2>2. LoginInOrder'
      BY <1>0, <1>2, <1>5, <2>1 DEF LoginInOrder, Running
    <2>3. ServedAsBound'
      BY <1>0, <1>2, <2>1 DEF ServedAsBound, Running
    <2> QED
      BY <1>3, <2>2, <2>3 DEF LoginExact
  <1> QED
    BY <1>1, <1>4, <1>5 DEF AdapterEffect

\* A step of a task that serves a request: it has the context of its moment.
LEMMA ServedLogin ==
  ASSUME LoginInv, NEW i \in Id, Step(i), Served(i)
  PROVE  LoginInOrder' /\ OneClaim' /\ LoginExact'
  <1>0. TypeOK /\ LoginInOrder /\ OneClaim /\ ServedAsBound /\ ClaimHeld
    BY DEF LoginInv, LoginExact
  <1>1. TaskEffect(i)
    BY <1>0, TaskFacts
  <1>2. /\ i \in Running /\ task'[i].kind = task[i].kind /\ task[i].kind # "auth"
        /\ \A j \in Id : j # i => task'[j] = task[j]
        /\ UNCHANGED <<bound, req, authenticated, authenticating, adapter>>
    BY <1>1 DEF TaskEffect, Served, SameLogin
  <1>3. AuthHook => authenticated
    BY <1>0, <1>2 DEF LoginInOrder
  <1>4. ASSUME NEW j \in Id, task'[j].kind = "auth"
        PROVE  task'[j] = task[j]
    BY <1>2, <1>4
  <1>5. LoginInOrder'
    <2>1. ASSUME NEW j \in Id, task'[j].kind = "auth"
          PROVE  /\ task'[j].at \in {"context", "flag"} =>
                       task'[j].as = bound' /\ bound' # Anonymous
                 /\ task'[j].at = "flag" => req' = bound'
      BY <1>0, <1>2, <1>4, <2>1 DEF LoginInOrder
    <2> QED
      BY <1>0, <1>2, <1>3, <2>1 DEF LoginInOrder
  <1>6. ASSUME NEW j \in Id
        PROVE  (task'[j].kind = "auth" /\ task'[j].at \in Claiming)
                  <=> (task[j].kind = "auth" /\ task[j].at \in Claiming)
    BY <1>2
  <1>7. OneClaim' /\ ClaimHeld'
    BY <1>0, <1>2, <1>6 DEF OneClaim, ClaimHeld
  <1>8. ServedAsBound'
    <2> SUFFICES ASSUME AuthHook, NEW j \in Id, task'[j].at \notin {"none", "done"}
                 PROVE  \/ task'[j].kind = "auth"
                        \/ task'[j].kind = "subscribe" /\ task'[j].at = "start"
                        \/ task'[j].as = bound' /\ bound' # Anonymous
      BY DEF ServedAsBound, Running
    <2>1. CASE j # i
      BY <1>0, <1>2, <2>1 DEF ServedAsBound, Running
    <2>2. CASE j = i
      <3>1. task'[i].as = req => task'[i].as = bound' /\ bound' # Anonymous
        BY <1>0, <1>2, <1>3 DEF LoginInOrder
      <3>2. \/ task'[i].as = req
            \/ /\ task'[i].as = task[i].as
               /\ ~ (task[i].kind = "subscribe" /\ task[i].at = "start")
        BY DEF Served
      <3> QED
        BY <1>0, <1>2, <2>2, <3>1, <3>2 DEF ServedAsBound
    <2> QED
      BY <2>1, <2>2
  <1> QED
    BY <1>5, <1>7, <1>8 DEF LoginExact

\* A step of an auth task, which holds the one claim until it gives it back.
LEMMA AuthLogin ==
  ASSUME LoginInv, NEW i \in Id, Step(i), AuthStep(i)
  PROVE  LoginInOrder' /\ OneClaim' /\ LoginExact'
  <1>0. /\ TypeOK /\ LoginInOrder /\ OneClaim /\ ServedAsBound /\ ClaimHeld
        /\ authenticating \in BOOLEAN
    BY DEF LoginInv, LoginExact, TypeOK
  <1>1. TaskEffect(i)
    BY <1>0, TaskFacts
  <1>2. /\ task[i].kind = "auth" /\ task'[i].kind = "auth" /\ adapter' = adapter
        /\ \A j \in Id : j # i => task'[j] = task[j]
    BY <1>1 DEF TaskEffect, AuthStep
  <1>3. ASSUME NEW j \in Id, j # i, task[i].at \in Claiming
        PROVE  ~ (task'[j].kind = "auth" /\ task'[j].at \in Claiming)
    BY <1>0, <1>2, <1>3 DEF OneClaim
  <1>4. /\ task'[i].at \in Claiming => task[i].at \in Claiming
        /\ task'[i].at \in Claiming => authenticating' = authenticating
        /\ (task[i].at \in Claiming /\ task'[i].at \notin Claiming)
              => authenticating' = FALSE
        /\ task[i].at \notin Claiming => authenticating' = authenticating
    BY DEF AuthStep, Claiming
  <1>5. OneClaim'
    BY <1>0, <1>2, <1>3, <1>4 DEF OneClaim
  <1>6. ClaimHeld'
    <2>1. CASE task[i].at \in Claiming
      <3>1. authenticating
        BY <1>0, <1>2, <2>1 DEF ClaimHeld
      <3>2. (\E j \in Id : task'[j].kind = "auth" /\ task'[j].at \in Claiming)
               <=> task'[i].at \in Claiming
        BY <1>2, <1>3, <2>1
      <3> QED
        BY <1>4, <2>1, <3>1, <3>2 DEF ClaimHeld
    <2>2. CASE task[i].at \notin Claiming
      <3>1. ASSUME NEW j \in Id
            PROVE  (task'[j].kind = "auth" /\ task'[j].at \in Claiming)
                      <=> (task[j].kind = "auth" /\ task[j].at \in Claiming)
        BY <1>2, <1>4, <2>2
      <3> QED
        BY <1>0, <1>4, <2>2, <3>1 DEF ClaimHeld
    <2> QED
      BY <2>1, <2>2
  <1>7. CASE /\ bound = Anonymous /\ bound' \in User
             /\ task[i].at = "hook" /\ task'[i].at = "context" /\ task'[i].as = bound'
             /\ UNCHANGED <<req, authenticated, authenticating>>
    <2>1. bound' # Anonymous /\ (AuthHook => ~ authenticated)
      BY <1>0, <1>7, ConstantTypes DEF LoginInOrder
    <2>2. ASSUME NEW j \in Id, task'[j].kind = "auth"
          PROVE  /\ task'[j].at \in {"context", "flag"} =>
                       task'[j].as = bound' /\ bound' # Anonymous
                 /\ task'[j].at = "flag" => req' = bound'
      BY <1>0, <1>2, <1>7, <2>1, <2>2 DEF LoginInOrder
    <2>3. AuthHook => \A j \in Id : task'[j].at \notin {"none", "done"}
                                       => task'[j].kind = "auth"
      BY <1>0, <1>2, <2>1 DEF LoginInOrder, Running
    <2>4. LoginInOrder'
      BY <1>0, <1>2, <1>7, <2>1, <2>2, <2>3 DEF LoginInOrder, Running
    <2>5. ServedAsBound'
      BY <2>3 DEF ServedAsBound, Running
    <2> QED
      BY <1>5, <1>6, <2>4, <2>5 DEF LoginExact
  <1>8. CASE ~ (bound = Anonymous /\ bound' \in User)
    <2>1. /\ bound' = bound /\ req' \in {req, bound}
          /\ authenticated' = authenticated \/ (authenticated' = TRUE /\ task[i].at = "flag"
                                                /\ req' = req)
          /\ task'[i].at \in {"context", "flag"} =>
                task[i].at = "context" /\ task'[i].at = "flag"
                /\ task'[i].as = task[i].as /\ req' = task[i].as
      BY <1>0, <1>2, <1>8 DEF AuthStep, LoginInOrder
    <2>2. AuthHook /\ authenticated' => bound' # Anonymous /\ req' = bound'
      BY <1>0, <1>2, <2>1 DEF LoginInOrder
    <2>3. ASSUME NEW j \in Id, task'[j].kind = "auth"
          PROVE  /\ task'[j].at \in {"context", "flag"} =>
                       task'[j].as = bound' /\ bound' # Anonymous
                 /\ task'[j].at = "flag" => req' = bound'
      BY <1>0, <1>2, <2>1, <2>3 DEF LoginInOrder
    <2>4. ASSUME AuthHook, NEW j \in Id, task'[j].at \notin {"none", "done"},
                 task'[j].kind # "auth"
          PROVE  authenticated' /\ task'[j] = task[j]
      BY <1>0, <1>2, <2>1, <2>4 DEF LoginInOrder, Running
    <2>5. LoginInOrder'
      <3>1. /\ adapter'.at \in {"context", "flag"} => adapter'.as = bound' /\ bound' # Anonymous
            /\ adapter'.at = "flag" => req' = bound'
        BY <1>0, <1>2, <2>1 DEF LoginInOrder
      <3> QED
        BY <2>2, <2>3, <2>4, <3>1 DEF LoginInOrder, Running
    <2>6. ServedAsBound'
      BY <1>0, <2>1, <2>4 DEF ServedAsBound, Running
    <2> QED
      BY <1>5, <1>6, <2>5, <2>6 DEF LoginExact
  <1>9. (bound = Anonymous /\ bound' \in User) =>
             /\ task[i].at = "hook" /\ task'[i].at = "context" /\ task'[i].as = bound'
             /\ UNCHANGED <<req, authenticated, authenticating>>
    BY ConstantTypes DEF AuthStep
  <1> QED
    BY <1>7, <1>8, <1>9

LEMMA InitLogin == Init => LoginInv
  <1> SUFFICES ASSUME Init PROVE LoginInv
    OBVIOUS
  <1>1. TypeOK
    BY InitType
  <1>2. \A i \in Id : task[i].at = "none" /\ task[i].kind = "none"
    BY NoTasks DEF Init
  <1>3. /\ ~ authenticating /\ adapter.at = "new" /\ (AuthHook => ~ authenticated)
    BY ConstantTypes DEF Init
  <1>4. Fresh /\ OneClaim /\ LoginInOrder /\ ServedAsBound /\ ClaimHeld
    BY <1>2, <1>3 DEF Fresh, OneClaim, LoginInOrder, ServedAsBound, ClaimHeld, Running
  <1> QED
    BY <1>1, <1>4 DEF LoginInv, LoginExact

LEMMA StepLogin == LoginInv /\ [Next]_vars => LoginInv'
  <1> SUFFICES ASSUME LoginInv, [Next]_vars PROVE LoginInv'
    OBVIOUS
  <1>1. TypeOK /\ Fresh
    BY DEF LoginInv
  <1>2. TypeOK' /\ Fresh'
    BY <1>1, StepType, StepFresh
  <1>3. LoginInOrder' /\ OneClaim' /\ LoginExact'
    <2>1. CASE AnyRequest
      BY <2>1, RequestLogin
    <2>2. CASE Quiet \/ UNCHANGED vars
      <3>1. UNCHANGED <<task, nextId>> /\ SameLogin
        BY <1>1, <2>2, QuietFacts DEF QuietEffect, SameLogin, vars, authVars
      <3> QED
        BY <3>1, SameLoginKept
    <2>3. CASE AdapterAuthenticates
      BY <2>3, AdapterLogin
    <2>4. CASE \E i \in Id : Step(i)
      BY <1>1, <2>4, LoginEffect, ServedLogin, AuthLogin
    <2> QED
      BY <2>1, <2>2, <2>3, <2>4, Steps
  <1> QED
    BY <1>2, <1>3 DEF LoginInv

\* Whenever an auth hook is installed, every call and subscription that runs
\* runs under the identity the hub has bound, whatever step of a login its frame
\* came in and however many logins race; and `authenticating` is set exactly
\* while one auth task will give the claim back.  LoginInv adds the order of the
\* three steps of Shared::authenticate, and that one task holds the claim.
THEOREM LoginAlwaysExact == Spec => []LoginExact
  <1>1. LoginInv => LoginExact
    BY DEF LoginInv
  <1> QED
    BY <1>1, InitLogin, StepLogin, PTL DEF Spec

-----------------------------------------------------------------------------
(* The answers                                                             *)

OnlyItems(s) == \A n \in DOMAIN s : s[n] = "item"
FinalIsLast(s) == \A k \in DOMAIN s : s[k] # "item" => k = Len(s)
HasFinal(s) == s # <<>> /\ Last(s) # "item"

\* What one more frame makes of the frames that a request has had.
LEMMA AppendFacts ==
  ASSUME NEW s \in Seq(Answer), NEW what \in Answer, OnlyItems(s)
  PROVE  /\ FinalIsLast(Append(s, what))
         /\ what # "item" => HasFinal(Append(s, what))
         /\ what = "item" => OnlyItems(Append(s, what))
  <1> DEFINE t == Append(s, what)
  <1>1. /\ t \in Seq(Answer) /\ Len(t) = Len(s) + 1 /\ Len(s) \in Nat
        /\ t[Len(t)] = what
        /\ \A k \in 1 .. Len(s) : t[k] = s[k]
        /\ DOMAIN t = 1 .. Len(s) + 1 /\ DOMAIN s = 1 .. Len(s)
    OBVIOUS
  <1> HIDE DEF t
  <1>2. \A k \in DOMAIN t : k = Len(t) \/ (k \in DOMAIN s /\ t[k] = "item")
    BY <1>1 DEF OnlyItems
  <1>3. t # <<>>
    BY <1>1
  <1> QED
    BY <1>1, <1>2, <1>3 DEF FinalIsLast, HasFinal, OnlyItems, Last, t

\* What AnswerInv says of one request.
AnswersOf(j) ==
  /\ j \in Running \/ j >= nextId => OnlyItems(told[j])
  /\ FinalIsLast(told[j])
  /\ (j < nextId /\ j \notin Running /\ ~ IsClosed /\ ~ dropped) => HasFinal(told[j])

LEMMA AnswerInvIs ==
  AnswerInv <=> /\ TypeOK /\ Fresh /\ (receiver \/ dropped)
                /\ \A j \in Id : AnswersOf(j)
  BY DEF AnswerInv, NoAnswerYet, AnsweredOnce, AnswersOf, OnlyItems, FinalIsLast,
     HasFinal

\* A request that nobody touches keeps its answers.
LEMMA Untouched ==
  ASSUME TypeOK, NEW j \in Id, AnswersOf(j), told'[j] = told[j],
         task'[j] = task[j], j < nextId' <=> j < nextId, nextId' \in Nat,
         IsClosed => IsClosed', dropped => dropped'
  PROVE  AnswersOf(j)'
  <1>1. j \in Running' <=> j \in Running
    BY DEF Running
  <1>2. (j >= nextId') <=> (j >= nextId)
    BY IdTypes DEF TypeOK
  <1>3. OnlyItems(told[j])' <=> OnlyItems(told[j])
    BY DEF OnlyItems
  <1>4. FinalIsLast(told[j])' <=> FinalIsLast(told[j])
    BY DEF FinalIsLast
  <1>5. HasFinal(told[j])' <=> HasFinal(told[j])
    BY DEF HasFinal
  <1> QED
    BY <1>1, <1>2, <1>3, <1>4, <1>5 DEF AnswersOf

\* A request that had no final answer is told something, or its task ends where
\* the session does.
LEMMA WorkedOn ==
  ASSUME TypeOK, TypeOK', NEW j \in Id, OnlyItems(told[j]), receiver \/ dropped,
         j < nextId', dropped => dropped',
         \/ told'[j] = told[j] /\ j \in Running'
         \/ told'[j] = Append(told[j], "item") /\ j \in Running'
         \/ /\ j \notin Running'
            /\ \/ \E what \in Answer \ {"item"} : told'[j] = Append(told[j], what)
               \/ told'[j] = told[j] /\ (~ receiver \/ IsClosed')
  PROVE  AnswersOf(j)'
  <1>0. /\ told[j] \in Seq(Answer) /\ "item" \in Answer /\ ~ (j >= nextId')
    BY IdTypes DEF TypeOK, Answer
  <1>1. FinalIsLast(told[j])
    BY DEF OnlyItems, FinalIsLast
  <1>2. CASE told'[j] = told[j] /\ j \in Running'
    BY <1>0, <1>1, <1>2 DEF AnswersOf, OnlyItems, FinalIsLast
  <1>3. CASE told'[j] = Append(told[j], "item") /\ j \in Running'
    <2>1. FinalIsLast(Append(told[j], "item")) /\ OnlyItems(Append(told[j], "item"))
      BY <1>0, AppendFacts
    <2>2. FinalIsLast(told[j])' /\ OnlyItems(told[j])'
      BY <1>3, <2>1 DEF FinalIsLast, OnlyItems
    <2> QED
      BY <1>3, <2>2 DEF AnswersOf
  <1>4. ASSUME NEW what \in Answer \ {"item"}, told'[j] = Append(told[j], what),
               j \notin Running'
        PROVE  AnswersOf(j)'
    <2>1. FinalIsLast(Append(told[j], what)) /\ HasFinal(Append(told[j], what))
      BY <1>0, AppendFacts
    <2>2. FinalIsLast(told[j])' /\ HasFinal(told[j])'
      BY <1>4, <2>1 DEF FinalIsLast, HasFinal
    <2> QED
      BY <1>0, <1>4, <2>2 DEF AnswersOf
  <1>5. CASE j \notin Running' /\ told'[j] = told[j] /\ (~ receiver \/ IsClosed')
    <2>1. IsClosed' \/ dropped'
      BY <1>5
    <2>2. FinalIsLast(told[j])'
      BY <1>1, <1>5 DEF FinalIsLast
    <2> QED
      BY <1>0, <1>5, <2>1, <2>2 DEF AnswersOf
  <1> QED
    BY <1>2, <1>3, <1>4, <1>5

LEMMA InitAnswer == Init => AnswerInv
  <1> SUFFICES ASSUME Init PROVE AnswerInv
    OBVIOUS
  <1>1. TypeOK /\ Fresh
    BY InitType, InitLogin DEF LoginInv
  <1>2. \A j \in Id : told[j] = <<>> /\ j >= nextId /\ receiver
    BY IdTypes DEF Init
  <1>3. ASSUME NEW j \in Id PROVE AnswersOf(j)
    <2>1. DOMAIN told[j] = {} /\ ~ (j < nextId)
      BY <1>1, <1>2, IdTypes DEF TypeOK
    <2> QED
      BY <2>1 DEF AnswersOf, OnlyItems, FinalIsLast
  <1>4. receiver
    BY DEF Init
  <1> QED
    BY <1>1, <1>3, <1>4, AnswerInvIs

LEMMA StepAnswer == AnswerInv /\ [Next]_vars => AnswerInv'
  <1> SUFFICES ASSUME AnswerInv, [Next]_vars PROVE AnswerInv'
    OBVIOUS
  <1>1. /\ TypeOK /\ Fresh /\ (receiver \/ dropped)
        /\ \A j \in Id : AnswersOf(j)
    BY AnswerInvIs
  <1>2. TypeOK' /\ Fresh'
    BY <1>1, StepType, StepFresh
  <1>n. nextId \in Nat /\ nextId' \in Nat /\ \A j \in Id : j \in Nat
    BY <1>1, <1>2, IdTypes DEF TypeOK
  <1>3. ASSUME UNCHANGED <<task, told, nextId>>, IsClosed => IsClosed',
               dropped => dropped', receiver' = receiver \/ dropped'
        PROVE  (receiver' \/ dropped') /\ \A j \in Id : AnswersOf(j)'
    <2>1. ASSUME NEW j \in Id PROVE AnswersOf(j)'
      BY <1>1, <1>3, <1>n, Untouched
    <2> QED
      BY <1>1, <1>3, <2>1
  <1>4. ASSUME AnyRequest
        PROVE  (receiver' \/ dropped') /\ \A j \in Id : AnswersOf(j)'
    <2>1. RequestEffect
      BY <1>1, <1>4, RequestFacts
    <2>2. /\ nextId \in Id /\ nextId' = nextId + 1
          /\ dropped' = dropped /\ receiver' = receiver /\ (IsClosed => IsClosed')
          /\ \A j \in Id : j # nextId => task'[j] = task[j]
      BY <2>1 DEF RequestEffect
    <2>3. \/ /\ task'[nextId].at = "done"
             /\ \/ \E what \in {"ok", "error", "conflict"} : Said(nextId, what)
                \/ UNCHANGED told /\ (~ receiver \/ IsClosed')
          \/ task'[nextId].at \in {"run", "start", "hook"} /\ UNCHANGED told
      BY <2>1 DEF RequestEffect, AnsweredNow, GivenTo
    <2>4. ASSUME NEW j \in Id, j # nextId PROVE AnswersOf(j)'
      <3>1. told'[j] = told[j]
        BY <2>3, <2>4 DEF Said
      <3>2. j < nextId' <=> j < nextId
        BY <1>n, <2>2, <2>4
      <3> QED
        BY <1>1, <1>n, <2>2, <2>4, <3>1, <3>2, Untouched
    <2>5. ASSUME NEW i \in Id, i = nextId PROVE AnswersOf(i)'
      <3>1. OnlyItems(told[nextId]) /\ nextId < nextId'
        BY <1>1, <1>n, <2>2 DEF AnswersOf
      <3>2. \/ /\ nextId \notin Running'
               /\ \/ \E what \in {"ok", "error", "conflict"} : Said(nextId, what)
                  \/ UNCHANGED told /\ (~ receiver \/ IsClosed')
            \/ nextId \in Running' /\ UNCHANGED told
        BY <2>2, <2>3 DEF Running
      <3>3. \/ told'[i] = told[i] /\ i \in Running'
            \/ /\ i \notin Running'
               /\ \/ \E what \in Answer \ {"item"} : told'[i] = Append(told[i], what)
                  \/ told'[i] = told[i] /\ (~ receiver \/ IsClosed')
        BY <2>5, <3>2 DEF Said, Answer
      <3>4. OnlyItems(told[i]) /\ i < nextId' /\ (dropped => dropped')
        BY <2>2, <2>5, <3>1
      <3> QED
        BY <1>1, <1>2, <3>3, <3>4, WorkedOn
    <2> QED
      BY <1>1, <2>2, <2>4, <2>5
  <1>5. ASSUME NEW i \in Id, Step(i)
        PROVE  (receiver' \/ dropped') /\ \A j \in Id : AnswersOf(j)'
    <2>1. TaskEffect(i)
      BY <1>1, <1>5, TaskFacts
    <2>2. /\ nextId' = nextId /\ dropped' = dropped /\ receiver' = receiver
          /\ (IsClosed => IsClosed') /\ i \in Running
          /\ \A j \in Id : j # i => task'[j] = task[j]
      BY <2>1 DEF TaskEffect
    <2>3. \/ UNCHANGED told /\ i \in Running'
          \/ Said(i, "item") /\ i \in Running'
          \/ /\ i \notin Running'
             /\ \/ \E what \in {"ok", "error"} : Said(i, what)
                \/ UNCHANGED told /\ (~ receiver \/ IsClosed')
      BY <2>1 DEF TaskEffect, Running
    <2>4. ASSUME NEW j \in Id, j # i PROVE AnswersOf(j)'
      <3>1. told'[j] = told[j]
        BY <2>3, <2>4 DEF Said
      <3> QED
        BY <1>1, <1>n, <2>2, <2>4, <3>1, Untouched
    <2>5. AnswersOf(i)'
      <3>1. OnlyItems(told[i])
        BY <1>1, <2>2 DEF AnswersOf
      <3>2. i < nextId'
        BY <1>1, <1>n, <2>2 DEF Fresh, Running
      <3>3. \/ told'[i] = told[i] /\ i \in Running'
            \/ told'[i] = Append(told[i], "item") /\ i \in Running'
            \/ /\ i \notin Running'
               /\ \/ \E what \in Answer \ {"item"} : told'[i] = Append(told[i], what)
                  \/ told'[i] = told[i] /\ (~ receiver \/ IsClosed')
        BY <2>3 DEF Said, Answer
      <3> QED
        BY <1>1, <1>2, <2>2, <3>1, <3>2, <3>3, WorkedOn
    <2> QED
      BY <1>1, <2>2, <2>4, <2>5
  <1>6. (receiver' \/ dropped') /\ \A j \in Id : AnswersOf(j)'
    <2>1. CASE Quiet
      BY <1>1, <1>3, <2>1, QuietFacts DEF QuietEffect
    <2>2. CASE AdapterAuthenticates
      BY <1>1, <1>3, <2>2, AdapterFacts DEF AdapterEffect, IsClosed
    <2>3. CASE UNCHANGED vars
      BY <1>3, <2>3 DEF vars, endVars, wireVars, IsClosed
    <2> QED
      BY <1>4, <1>5, <2>1, <2>2, <2>3, Steps
  <1> QED
    BY <1>2, <1>6 DEF AnswerInv, NoAnswerYet, AnsweredOnce, AnswersOf, OnlyItems,
       FinalIsLast, HasFinal

\* A request of the client gets at most one final answer and nothing after it,
\* and a request of an open session whose task has ended has got it: at the
\* permit limit, after a panic, when the queue was full and when a login failed.
\* AnswerInv adds that a request still worked on has had items only, and that
\* the queue's receiver is lost only with the session.
THEOREM AnsweredExactlyOnce == Spec => []AnsweredOnce
  <1>1. AnswerInv => AnsweredOnce
    BY DEF AnswerInv
  <1> QED
    BY <1>1, InitAnswer, StepAnswer, PTL DEF Spec

=============================================================================

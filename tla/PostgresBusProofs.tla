--------------------------- MODULE PostgresBusProofs ---------------------------
(***************************************************************************)
(* Proofs about PostgresBus, for any number of nodes, any outbox, batch    *)
(* and permit limits, and any number of publishes, calls, losses and       *)
(* repeated envelopes.                                                     *)
(***************************************************************************)
EXTENDS PostgresBus, FiniteSetTheorems, SequenceTheorems, TLAPS

LEMMA ConstantFacts ==
  /\ IsFiniteSet(Node) /\ Holder \subseteq Node
  /\ Outbox \in Nat /\ Batch \in Nat \ {0} /\ MaxInbound \in Nat
  /\ MaxCalls \in [Node -> Nat]
  BY BusAssumption

-----------------------------------------------------------------------------
(* The elements of a sequence                                              *)

LEMMA EmptySet == ToSet(<<>>) = {}
  BY DEF ToSet

LEMMA AppendSet ==
  ASSUME NEW S, NEW s \in Seq(S), NEW e \in S
  PROVE  Append(s, e) \in Seq(S) /\ ToSet(Append(s, e)) = ToSet(s) \cup {e}
  <1>1. /\ Append(s, e) \in Seq(S)
        /\ DOMAIN Append(s, e) = 1..(Len(s) + 1) /\ DOMAIN s = 1..Len(s)
        /\ \A i \in 1..Len(s) : Append(s, e)[i] = s[i]
        /\ Append(s, e)[Len(s) + 1] = e
        /\ Len(s) \in Nat
    OBVIOUS
  <1>2. 1..(Len(s) + 1) = 1..Len(s) \cup {Len(s) + 1}
    BY <1>1
  <1> QED
    BY <1>1, <1>2 DEF ToSet

LEMMA ConcatSet ==
  ASSUME NEW S, NEW s \in Seq(S), NEW t \in Seq(S)
  PROVE  s \o t \in Seq(S) /\ ToSet(s \o t) \subseteq ToSet(s) \cup ToSet(t)
  <1>1. /\ s \o t \in Seq(S) /\ Len(s) \in Nat /\ Len(t) \in Nat
        /\ DOMAIN (s \o t) = 1..(Len(s) + Len(t))
        /\ DOMAIN s = 1..Len(s) /\ DOMAIN t = 1..Len(t)
        /\ \A i \in 1..(Len(s) + Len(t)) : (s \o t)[i] =
              IF i <= Len(s) THEN s[i] ELSE t[i - Len(s)]
    BY ConcatProperties, LenProperties
  <1> SUFFICES ASSUME NEW i \in 1..(Len(s) + Len(t))
               PROVE  (s \o t)[i] \in ToSet(s) \cup ToSet(t)
    BY <1>1 DEF ToSet
  <1>2. CASE i <= Len(s)
    BY <1>1, <1>2 DEF ToSet
  <1>3. CASE ~ i <= Len(s)
    <2>1. i - Len(s) \in 1..Len(t)
      BY <1>1, <1>3
    <2> QED
      BY <1>1, <1>3, <2>1 DEF ToSet
  <1> QED
    BY <1>2, <1>3

LEMMA HeadTailSet ==
  ASSUME NEW S, NEW s \in Seq(S), s # <<>>
  PROVE  /\ Head(s) \in S /\ Head(s) \in ToSet(s)
         /\ Tail(s) \in Seq(S) /\ ToSet(Tail(s)) \subseteq ToSet(s)
  <1>1. /\ Len(s) \in Nat \ {0} /\ DOMAIN s = 1..Len(s)
        /\ Head(s) = s[1] /\ Head(s) \in S
        /\ Tail(s) \in Seq(S) /\ Len(Tail(s)) = Len(s) - 1
        /\ DOMAIN Tail(s) = 1..(Len(s) - 1)
        /\ \A i \in 1..(Len(s) - 1) : Tail(s)[i] = s[i + 1]
    BY EmptySeq, LenProperties, HeadTailProperties
  <1>2. \A i \in 1..(Len(s) - 1) : i + 1 \in 1..Len(s)
    BY <1>1
  <1> QED
    BY <1>1, <1>2 DEF ToSet

LEMMA SubSeqSet ==
  ASSUME NEW S, NEW s \in Seq(S), NEW m \in Nat \ {0}, NEW n \in 0..Len(s)
  PROVE  SubSeq(s, m, n) \in Seq(S) /\ ToSet(SubSeq(s, m, n)) \subseteq ToSet(s)
  <1>1. Len(s) \in Nat /\ DOMAIN s = 1..Len(s) /\ \A i \in 1..Len(s) : s[i] \in S
    BY LenProperties, ElementOfSeq
  <1>2. \A i \in m..n : i \in 1..Len(s)
    BY <1>1
  <1>3. /\ SubSeq(s, m, n) \in Seq(S)
        /\ Len(SubSeq(s, m, n)) = IF m <= n THEN n - m + 1 ELSE 0
        /\ \A i \in 1..(n - m + 1) : SubSeq(s, m, n)[i] = s[m + i - 1]
    <2>1. \A i \in m..n : s[i] \in S
      BY <1>1, <1>2
    <2>2. m \in Int /\ n \in Int
      BY <1>1
    <2> QED
      BY <2>1, <2>2, SubSeqProperties
  <1>4. DOMAIN SubSeq(s, m, n) = 1..Len(SubSeq(s, m, n))
    BY <1>3, LenProperties
  <1>5. \A i \in 1..Len(SubSeq(s, m, n)) :
           i \in 1..(n - m + 1) /\ m + i - 1 \in 1..Len(s)
    BY <1>1, <1>3
  <1> QED
    BY <1>1, <1>3, <1>4, <1>5 DEF ToSet

-----------------------------------------------------------------------------
(* Types                                                                   *)

LEMMA InitType == Init => TypeOK
  BY DEF Init, TypeOK

\* The envelope a send puts together.
LEMMA TakeCounterType ==
  ASSUME TypeOK, NEW n \in Node, NEW b \in Body, TakeCounter(n, b)
  PROVE  /\ counter' \in [Node -> Nat]
         /\ sending' \in [Node -> SUBSET Envelope]
         /\ [from |-> n, count |-> counter[n], body |-> b] \in Envelope
  <1>1. counter[n] \in Nat
    BY DEF TypeOK
  <1>2. [from |-> n, count |-> counter[n], body |-> b] \in Envelope
    BY <1>1 DEF Envelope
  <1> QED
    BY <1>1, <1>2 DEF TakeCounter, TypeOK

\* The bodies that the code sends.
LEMMA BodyTypes ==
  ASSUME NEW n \in Node, NEW i \in Nat, NEW ok \in BOOLEAN
  PROVE  /\ [kind |-> "publish", to |-> n, id |-> i, ok |-> ok] \in Body
         /\ [kind |-> "call", to |-> n, id |-> i, ok |-> ok] \in Body
         /\ [kind |-> "reply", to |-> n, id |-> i, ok |-> ok] \in Body
  BY DEF Body

\* What SendFails makes of an answer that could not be sent.
LEMMA ErrorAnswerType ==
  ASSUME NEW e \in Envelope
  PROVE  /\ [e.body EXCEPT !.ok = FALSE] \in Body
         /\ [e.body EXCEPT !.ok = FALSE].kind = e.body.kind
  BY DEF Envelope, Body

LEMMA StepType == TypeOK /\ [Next]_vars => TypeOK'
  <1> SUFFICES ASSUME TypeOK, [Next]_vars PROVE TypeOK'
    OBVIOUS
  <1>1. ASSUME NEW n \in Node, Publish(n) PROVE TypeOK'
    <2>1. PICK b \in Body : TakeCounter(n, b)
      BY <1>1, BodyTypes DEF Publish
    <2> QED
      BY <1>1, <2>1, TakeCounterType
      DEF Publish, TypeOK, listenVars, guardVars, callVars
  <1>2. ASSUME NEW n \in Node, StartCall(n) PROVE TypeOK'
    <2>1. nextCall[n] \in Nat
      BY DEF TypeOK
    <2>2. PICK b \in Body : TakeCounter(n, b)
      BY <1>2, <2>1, BodyTypes DEF StartCall
    <2>3. nextCall' \in [Node -> Nat \ {0}]
      BY <1>2 DEF StartCall, TypeOK
    <2> QED
      BY <1>2, <2>2, <2>3, TakeCounterType
      DEF StartCall, TypeOK, listenVars, guardVars
  <1>3. ASSUME NEW n \in Node, NEW e \in sending[n], Enqueue(n, e)
        PROVE  TypeOK'
    <2>1. e \in Envelope /\ outbox[n] \in Seq(Envelope)
      BY DEF TypeOK
    <2>2. Append(outbox[n], e) \in Seq(Envelope)
      BY <2>1, AppendSet
    <2> QED
      BY <1>3, <2>2 DEF Enqueue, TypeOK, listenVars, guardVars, callVars
  <1>4. ASSUME NEW n \in Node, NEW e \in sending[n], SendFails(n, e)
        PROVE  TypeOK'
    <2>1. e \in Envelope /\ counter[n] \in Nat
      BY DEF TypeOK
    <2>2. [from |-> n, count |-> counter[n],
           body |-> [e.body EXCEPT !.ok = FALSE]] \in Envelope
      BY <2>1, ErrorAnswerType DEF Envelope
    <2>3. counter' \in [Node -> Nat] /\ sending' \in [Node -> SUBSET Envelope]
      <3>1. CASE e.body.kind = "reply" /\ e.body.ok
        <4>1. PICK f \in Envelope :
                /\ counter' = [counter EXCEPT ![n] = @ + 1]
                /\ sending' = [sending EXCEPT ![n] = (@ \ {e}) \cup {f}]
          BY <1>4, <2>2, <3>1 DEF SendFails
        <4> QED
          BY <2>1, <2>2, <4>1 DEF TypeOK
      <3>2. CASE ~ (e.body.kind = "reply" /\ e.body.ok)
        <4>1. /\ counter' = [counter EXCEPT ![n] = @]
              /\ sending' = [sending EXCEPT ![n] = (@ \ {e}) \cup {}]
          BY <1>4, <3>2 DEF SendFails
        <4> QED
          BY <2>1, <4>1 DEF TypeOK
      <3> QED
        BY <3>1, <3>2
    <2> QED
      BY <1>4, <2>3 DEF SendFails, TypeOK, listenVars, guardVars
  <1>5. ASSUME NEW n \in Node, TakeBatch(n) PROVE TypeOK'
    <2> DEFINE size == IF Len(outbox[n]) < Batch THEN Len(outbox[n]) ELSE Batch
    <2>1. outbox[n] \in Seq(Envelope) /\ Len(outbox[n]) \in Nat
      BY DEF TypeOK
    <2>2. size \in 0..Len(outbox[n]) /\ size + 1 \in Nat \ {0}
          /\ Len(outbox[n]) \in 0..Len(outbox[n])
      BY <2>1, ConstantFacts
    <2>3. SubSeq(outbox[n], 1, size) \in Seq(Envelope)
      BY <2>1, <2>2, SubSeqSet
    <2>4. SubSeq(outbox[n], size + 1, Len(outbox[n])) \in Seq(Envelope)
      BY <2>1, <2>2, SubSeqSet
    <2>5. /\ batch' = [batch EXCEPT ![n] = SubSeq(outbox[n], 1, size)]
          /\ outbox' = [outbox EXCEPT ![n] =
                          SubSeq(outbox[n], size + 1, Len(outbox[n]))]
      BY <1>5 DEF TakeBatch
    <2>6. UNCHANGED <<counter, sending, listenVars, guardVars, callVars>>
      BY <1>5 DEF TakeBatch
    <2> HIDE DEF size
    <2> QED
      BY <2>3, <2>4, <2>5, <2>6 DEF TypeOK, listenVars, guardVars, callVars
  <1>6. ASSUME NEW n \in Node, Notify(n) PROVE TypeOK'
    <2>1. batch[n] \in Seq(Envelope) /\ \A m \in Node : line[m] \in Seq(Envelope)
      BY DEF TypeOK
    <2>2. \A m \in Node : line[m] \o batch[n] \in Seq(Envelope)
      BY <2>1, ConcatSet
    <2>3. ToSet(batch[n]) \subseteq Envelope
      BY <2>1 DEF ToSet
    <2>4. line' \in [Node -> Seq(Envelope)]
      BY <1>6, <2>1, <2>2 DEF Notify, Carry
    <2>5. missed' \in [Node -> SUBSET Envelope]
      BY <1>6, <2>3 DEF Notify, Carry, TypeOK
    <2>6. /\ batch' = [batch EXCEPT ![n] = <<>>]
          /\ UNCHANGED <<counter, sending, outbox, alive, loop, guardVars,
                         callVars>>
      BY <1>6 DEF Notify
    <2>7. batch' \in [Node -> Seq(Envelope)]
      BY <2>6 DEF TypeOK
    <2> QED
      BY <2>4, <2>5, <2>6, <2>7, Zenon DEF TypeOK, guardVars, callVars
  <1>7. ASSUME NEW n \in Node, NotifyFails(n) PROVE TypeOK'
    <2>1. batch' \in [Node -> Seq(Envelope)]
      BY <1>7 DEF NotifyFails, TypeOK
    <2>2. UNCHANGED <<counter, sending, outbox, listenVars, guardVars, callVars>>
      BY <1>7 DEF NotifyFails
    <2> QED
      BY <2>1, <2>2, Zenon DEF TypeOK, listenVars, guardVars, callVars
  <1>8. ASSUME NEW m \in Node, NEW kept \in 0..Len(line[m]), Lose(m, kept)
        PROVE  TypeOK'
    <2>1. line[m] \in Seq(Envelope) /\ Len(line[m]) \in Nat
      BY DEF TypeOK
    <2>2. /\ SubSeq(line[m], 1, kept) \in Seq(Envelope)
          /\ SubSeq(line[m], kept + 1, Len(line[m])) \in Seq(Envelope)
      <3>1. kept \in 0..Len(line[m]) /\ kept + 1 \in Nat \ {0}
            /\ Len(line[m]) \in 0..Len(line[m]) /\ 1 \in Nat \ {0}
        BY <2>1
      <3> QED
        BY <2>1, <3>1, SubSeqSet
    <2>3. ToSet(SubSeq(line[m], kept + 1, Len(line[m]))) \subseteq Envelope
      BY <2>2 DEF ToSet
    <2>4. line' \in [Node -> Seq(Envelope)] /\ alive' \in [Node -> BOOLEAN]
      BY <1>8, <2>2 DEF Lose, TypeOK
    <2>5. missed' \in [Node -> SUBSET Envelope]
      BY <1>8, <2>3 DEF Lose, TypeOK
    <2> QED
      BY <1>8, <2>4, <2>5 DEF Lose, TypeOK, sendVars, guardVars, callVars
  <1>9. ASSUME NEW m \in Node, NoticeLoss(m) PROVE TypeOK'
    BY <1>9 DEF NoticeLoss, ResetOnce, TypeOK, sendVars, guardVars, callVars
  <1>10. ASSUME NEW m \in Node, Reconnect(m) PROVE TypeOK'
    <2>1. line' \in [Node -> Seq(Envelope)] /\ alive' \in [Node -> BOOLEAN]
      BY <1>10 DEF Reconnect, TypeOK
    <2> QED
      BY <1>10, <2>1 DEF Reconnect, TypeOK, sendVars, guardVars, callVars
  <1>11. ASSUME NEW m \in Node, Resume(m) PROVE TypeOK'
    BY <1>11 DEF Resume, ResetOnce, TypeOK, sendVars, guardVars, callVars
  <1>12. ASSUME NEW m \in Node, Handle(m) PROVE TypeOK'
    <2> DEFINE e == Head(line[m])
    <2>1. e \in Envelope /\ Tail(line[m]) \in Seq(Envelope)
      BY <1>12, HeadTailSet DEF Handle, TypeOK
    <2>2. e.from \in Node /\ e.count \in Nat /\ e.body \in Body
      BY <2>1 DEF Envelope
    <2>3. line' \in [Node -> Seq(Envelope)]
      BY <1>12, <2>1 DEF Handle, TypeOK
    <2>4. UNCHANGED <<sendVars, alive, loop, missed, nextCall, ran>>
      BY <1>12 DEF Handle
    <2>5. CASE e.from = m \/ ~ Fresh(m, e)
      <3>1. UNCHANGED <<seen, accepted, running>>
        BY <1>12, <2>5 DEF Handle, guardVars
      <3> QED
        BY <2>3, <2>4, <3>1 DEF TypeOK, sendVars
    <2>6. CASE e.from # m /\ Fresh(m, e)
      <3>1. /\ seen' = [seen EXCEPT ![m][e.from] = e.count + 1]
            /\ accepted' = [accepted EXCEPT ![m] = Append(@, e)]
            /\ Dispatch(m, e)
        BY <1>12, <2>6 DEF Handle
      <3>2. Append(accepted[m], e) \in Seq(Envelope)
        BY <2>1, AppendSet DEF TypeOK
      <3>3. running' \in [Node -> SUBSET (Node \X Nat)]
        <4>1. <<e.from, e.body.id>> \in Node \X Nat
          BY <2>2 DEF Body
        <4>2. \/ running' = running
              \/ \E c \in Node \X Nat : running' = [running EXCEPT ![m] = @ \cup {c}]
          BY <3>1, <4>1, Zenon DEF Dispatch
        <4> DEFINE P == Node \X Nat
        <4>3. running \in [Node -> SUBSET P]
          BY DEF TypeOK
        <4> HIDE DEF P
        <4>4. running' \in [Node -> SUBSET P]
          <5>1. \/ running' = running
                \/ \E c \in P : running' = [running EXCEPT ![m] = @ \cup {c}]
            BY <4>2 DEF P
          <5> QED
            BY <4>3, <5>1
        <4> QED
          BY <4>4 DEF P
      <3>4. seen' \in [Node -> [Node -> Nat]]
        <4> DEFINE k == e.count + 1
                   o == e.from
        <4>1. k \in Nat /\ o \in Node /\ seen' = [seen EXCEPT ![m][o] = k]
          BY <2>2, <3>1
        <4> HIDE DEF k, o
        <4> QED
          BY <4>1 DEF TypeOK
      <3> QED
        BY <2>3, <2>4, <3>1, <3>2, <3>3, <3>4 DEF TypeOK, sendVars
    <2> QED
      BY <2>5, <2>6
  <1>13. ASSUME NEW m \in Node, HandleStale(m) PROVE TypeOK'
    <2>1. Tail(line[m]) \in Seq(Envelope)
      BY <1>13, HeadTailSet DEF HandleStale, TypeOK
    <2> QED
      BY <1>13, <2>1 DEF HandleStale, TypeOK, sendVars, guardVars, callVars
  <1>14. ASSUME NEW m \in Node, NEW c \in running[m], RunCall(m, c)
         PROVE  TypeOK'
    <2>1. c \in Node \X Nat /\ c[1] \in Node /\ c[2] \in Nat
      BY DEF TypeOK
    <2>2. running' \in [Node -> SUBSET (Node \X Nat)]
      BY <1>14 DEF RunCall, TypeOK
    <2>3. /\ counter' \in [Node -> Nat] /\ sending' \in [Node -> SUBSET Envelope]
          /\ ran' \in SUBSET (Node \X Nat)
      <3>1. CASE m \in Holder
        <4>1. PICK b \in Body : TakeCounter(m, b)
          BY <1>14, <2>1, <3>1, BodyTypes DEF RunCall
        <4> QED
          BY <1>14, <2>1, <3>1, <4>1, TakeCounterType DEF RunCall, TypeOK
      <3>2. CASE m \notin Holder
        BY <1>14, <3>2 DEF RunCall, TypeOK
      <3> QED
        BY <3>1, <3>2
    <2> QED
      BY <1>14, <2>2, <2>3 DEF RunCall, TypeOK, listenVars, guardVars
  <1>15. ASSUME NEW m \in Node, NEW e \in ToSet(accepted[m]), Repeat(e)
         PROVE  TypeOK'
    <2>1. e \in Envelope /\ \A x \in Node : line[x] \in Seq(Envelope)
      BY DEF TypeOK, ToSet
    <2>2. \A x \in Node : Append(line[x], e) \in Seq(Envelope)
      BY <2>1, AppendSet
    <2>3. line' \in [Node -> Seq(Envelope)]
      BY <1>15, <2>1, <2>2 DEF Repeat
    <2> QED
      BY <1>15, <2>3 DEF Repeat, TypeOK, sendVars, guardVars, callVars
  <1>16. ASSUME NEW m \in Node, NEW i \in Ids(m), CallTimeOut(m, i)
         PROVE  TypeOK'
    BY <1>16 DEF CallTimeOut, TypeOK, sendVars, listenVars, guardVars
  <1>17. CASE UNCHANGED vars
    BY <1>17 DEF vars, TypeOK
  <1> QED
    BY <1>1, <1>2, <1>3, <1>4, <1>5, <1>6, <1>7, <1>8, <1>9, <1>10, <1>11,
       <1>12, <1>13, <1>14, <1>15, <1>16, <1>17
    DEF Next, SendNext, ListenNext

\* Every variable of the bus has its type, whatever the nodes send and lose.
THEOREM TypeCorrect == Spec => []TypeOK
  BY InitType, StepType, PTL DEF Spec

-----------------------------------------------------------------------------
(* Losses are announced                                                    *)

LEMMA InitLoss == Init => LossInv
  <1>1. Init => ResetToCome
    BY DEF Init, ResetToCome
  <1> QED
    BY <1>1, InitType DEF LossInv

LEMMA StepLoss == LossInv /\ [Next]_vars => LossInv'
  <1> SUFFICES ASSUME LossInv, [Next]_vars PROVE ResetToCome'
    BY StepType DEF LossInv
  <1> USE DEF LossInv
  <1>q. ASSUME UNCHANGED <<alive, loop, missed>> PROVE ResetToCome'
    BY <1>q DEF ResetToCome
  <1>1. ASSUME NEW n \in Node, Notify(n) PROVE ResetToCome'
    BY <1>1 DEF Notify, Carry, ResetToCome
  <1>2. ASSUME NEW m \in Node, NEW kept \in 0..Len(line[m]), Lose(m, kept)
        PROVE  ResetToCome'
    <2>1. /\ alive' = [alive EXCEPT ![m] = FALSE] /\ loop' = loop
          /\ \A x \in Node : x # m => missed'[x] = missed[x]
      BY <1>2 DEF Lose, TypeOK
    <2> QED
      BY <2>1 DEF ResetToCome, TypeOK
  <1>3. ASSUME NEW m \in Node, NoticeLoss(m) PROVE ResetToCome'
    BY <1>3 DEF NoticeLoss, ResetOnce, ResetToCome, TypeOK
  <1>4. ASSUME NEW m \in Node, Reconnect(m) PROVE ResetToCome'
    <2>1. /\ alive' = [alive EXCEPT ![m] = TRUE] /\ UNCHANGED missed
          /\ loop' = [loop EXCEPT ![m] = "resuming"]
      BY <1>4 DEF Reconnect
    <2> QED
      BY <2>1 DEF ResetToCome, TypeOK
  <1>5. ASSUME NEW m \in Node, Resume(m) PROVE ResetToCome'
    BY <1>5 DEF Resume, ResetOnce, ResetToCome, TypeOK
  <1>6. CASE \E n \in Node : SendNext(n)
    <2>1. ASSUME NEW n \in Node,
                 \/ Publish(n) \/ StartCall(n) \/ TakeBatch(n) \/ NotifyFails(n)
                 \/ \E e \in sending[n] : Enqueue(n, e) \/ SendFails(n, e)
          PROVE  UNCHANGED <<alive, loop, missed>>
      BY <2>1 DEF Publish, StartCall, TakeBatch, NotifyFails, Enqueue,
                  SendFails, listenVars
    <2> QED
      BY <1>1, <1>6, <1>q, <2>1 DEF SendNext
  <1>7. CASE \E m \in Node : ListenNext(m)
    <2>1. ASSUME NEW m \in Node,
                 \/ Handle(m) \/ HandleStale(m)
                 \/ \E c \in running[m] : RunCall(m, c)
                 \/ \E e \in ToSet(accepted[m]) : Repeat(e)
                 \/ \E i \in Ids(m) : CallTimeOut(m, i)
          PROVE  UNCHANGED <<alive, loop, missed>>
      BY <2>1 DEF Handle, HandleStale, RunCall, Repeat, CallTimeOut, listenVars
    <2> QED
      BY <1>2, <1>3, <1>4, <1>5, <1>7, <1>q, <2>1 DEF ListenNext
  <1>8. CASE UNCHANGED vars
    BY <1>8, <1>q DEF vars
  <1> QED
    BY <1>6, <1>7, <1>8 DEF Next

\* A node that reads its listener again has told its hub of everything that
\* went by while it did not listen, however often and wherever in listen_loop
\* the connection broke.
THEOREM LossAlwaysAnnounced == Spec => []LossAnnounced
  <1>1. LossInv => LossAnnounced
    BY DEF LossInv, ResetToCome, LossAnnounced
  <1> QED
    BY <1>1, InitLoss, StepLoss, PTL DEF Spec

-----------------------------------------------------------------------------
(* The replay guard                                                        *)

LEMMA InitGuard == Init => GuardInv
  <1>1. Init => GuardPast /\ AcceptedInOrder
    BY EmptySet DEF Init, GuardPast, AcceptedInOrder
  <1> QED
    BY <1>1, InitType DEF GuardInv

\* What Handle does when the guard lets an envelope through.
LEMMA HandleFresh ==
  ASSUME TypeOK, NEW m \in Node, Handle(m), seen' # seen \/ accepted' # accepted
            \/ running' # running
  PROVE  \E e \in ToSet(line[m]) :
            /\ e \in Envelope /\ e.from # m /\ e.count >= seen[m][e.from]
            /\ \A x, o \in Node : seen'[x][o] =
                  IF x = m /\ o = e.from THEN e.count + 1 ELSE seen[x][o]
            /\ accepted' = [accepted EXCEPT ![m] = Append(@, e)]
            /\ Dispatch(m, e)
  <1> DEFINE e == Head(line[m])
  <1>1. e \in Envelope /\ e \in ToSet(line[m])
    BY HeadTailSet DEF Handle, TypeOK
  <1>2. e.from \in Node /\ e.count \in Nat
    BY <1>1 DEF Envelope
  <1>3. e.from # m /\ Fresh(m, e)
    BY DEF Handle, guardVars
  <1>4. /\ seen' = [seen EXCEPT ![m][e.from] = e.count + 1]
        /\ accepted' = [accepted EXCEPT ![m] = Append(@, e)]
        /\ Dispatch(m, e)
    BY <1>3 DEF Handle
  <1>5. \A x, o \in Node : seen'[x][o] =
                  IF x = m /\ o = e.from THEN e.count + 1 ELSE seen[x][o]
    <2> DEFINE k == e.count + 1
               f == e.from
    <2>1. f \in Node /\ seen' = [seen EXCEPT ![m][f] = k]
      BY <1>2, <1>4
    <2> HIDE DEF k, f
    <2>2. \A x, o \in Node : seen'[x][o] =
                  IF x = m /\ o = f THEN k ELSE seen[x][o]
      BY <2>1 DEF TypeOK
    <2> QED
      BY <2>2 DEF k, f
  <1> QED
    BY <1>1, <1>3, <1>4, <1>5, Zenon DEF Fresh

LEMMA StepGuard == GuardInv /\ [Next]_vars => GuardInv'
  <1> SUFFICES ASSUME GuardInv, [Next]_vars PROVE (GuardPast /\ AcceptedInOrder)'
    BY StepType DEF GuardInv
  <1> USE DEF GuardInv
  <1>t. TypeOK'
    BY StepType
  <1>q. ASSUME UNCHANGED <<seen, accepted>> PROVE (GuardPast /\ AcceptedInOrder)'
    BY <1>q DEF GuardPast, AcceptedInOrder
  <1>1. ASSUME NEW m \in Node, Handle(m), ~ UNCHANGED <<seen, accepted>>
        PROVE  (GuardPast /\ AcceptedInOrder)'
    <2>1. PICK e \in ToSet(line[m]) :
            /\ e \in Envelope /\ e.from # m /\ e.count >= seen[m][e.from]
            /\ \A x, o \in Node : seen'[x][o] =
                  IF x = m /\ o = e.from THEN e.count + 1 ELSE seen[x][o]
            /\ accepted' = [accepted EXCEPT ![m] = Append(@, e)]
            /\ Dispatch(m, e)
      BY <1>1, HandleFresh
    <2>2. e.from \in Node /\ e.count \in Nat
      BY <2>1 DEF Envelope
    <2>3. /\ accepted[m] \in Seq(Envelope) /\ Len(accepted[m]) \in Nat
          /\ accepted'[m] = Append(accepted[m], e)
          /\ \A x \in Node : x # m => accepted'[x] = accepted[x]
      BY <2>1 DEF TypeOK
    <2>4. ToSet(accepted'[m]) = ToSet(accepted[m]) \cup {e}
      BY <2>1, <2>3, AppendSet
    <2>5. \A f \in Envelope : f.from \in Node /\ f.count \in Nat
      BY DEF Envelope
    <2>6. ASSUME NEW x \in Node, NEW f \in ToSet(accepted[x])
          PROVE  f \in Envelope /\ f.count < seen[x][f.from]
      <3>1. ToSet(accepted[x]) \subseteq Envelope
        BY DEF TypeOK, ToSet
      <3> QED
        BY <3>1 DEF GuardPast
    <2>7. ASSUME NEW x \in Node, NEW f \in ToSet(accepted'[x])
          PROVE  f.count < seen'[x][f.from]
      <3>1. seen[m][e.from] \in Nat
        BY <2>2 DEF TypeOK
      <3>2. CASE x = m /\ f = e
        BY <2>1, <2>2, <3>2
      <3>3. CASE ~ (x = m /\ f = e)
        <4>1. f \in ToSet(accepted[x])
          BY <2>3, <2>4, <2>7, <3>3
        <4>2. f.from \in Node /\ f.count \in Nat /\ f.count < seen[x][f.from]
          BY <2>5, <2>6, <4>1
        <4> QED
          BY <2>1, <2>2, <3>1, <4>2
      <3> QED
        BY <3>2, <3>3
    <2>8. ASSUME NEW x \in Node, NEW i \in DOMAIN accepted'[x],
                 NEW j \in DOMAIN accepted'[x], i < j,
                 accepted'[x][i].from = accepted'[x][j].from
          PROVE  accepted'[x][i].count < accepted'[x][j].count
      <3>1. CASE x # m
        BY <2>3, <2>8, <3>1 DEF AcceptedInOrder
      <3>2. CASE x = m
        <4>1. /\ DOMAIN accepted'[m] = 1..(Len(accepted[m]) + 1)
              /\ DOMAIN accepted[m] = 1..Len(accepted[m])
              /\ \A k \in 1..Len(accepted[m]) : accepted'[m][k] = accepted[m][k]
              /\ accepted'[m][Len(accepted[m]) + 1] = e
          BY <2>1, <2>3
        <4>2. i \in DOMAIN accepted[m] /\ accepted'[m][i] = accepted[m][i]
          BY <2>3, <2>8, <3>2, <4>1
        <4>3. CASE j \in DOMAIN accepted[m]
          BY <2>8, <3>2, <4>1, <4>2, <4>3 DEF AcceptedInOrder
        <4>4. CASE j \notin DOMAIN accepted[m]
          <5>1. accepted'[m][j] = e
            BY <2>3, <3>2, <4>1, <4>4
          <5>2. accepted[m][i] \in ToSet(accepted[m])
            BY <4>2 DEF ToSet
          <5>3. /\ accepted[m][i].count \in Nat
                /\ accepted[m][i].count < seen[m][e.from]
            BY <2>5, <2>6, <2>8, <3>2, <4>2, <5>1, <5>2
          <5>4. seen[m][e.from] \in Nat
            BY <2>2 DEF TypeOK
          <5> QED
            BY <2>1, <2>2, <3>2, <4>2, <5>1, <5>3, <5>4
        <4> QED
          BY <4>3, <4>4
      <3> QED
        BY <3>1, <3>2
    <2> QED
      BY <2>7, <2>8 DEF GuardPast, AcceptedInOrder
  <1>2. CASE \E n \in Node : SendNext(n)
    <2>1. ASSUME NEW n \in Node, SendNext(n) PROVE UNCHANGED <<seen, accepted>>
      BY <2>1 DEF SendNext, Publish, StartCall, TakeBatch, Notify, NotifyFails,
                  Enqueue, SendFails, guardVars
    <2> QED
      BY <1>2, <1>q, <2>1
  <1>3. CASE \E m \in Node : ListenNext(m)
    <2>1. ASSUME NEW m \in Node,
                 \/ \E kept \in 0..Len(line[m]) : Lose(m, kept)
                 \/ NoticeLoss(m) \/ Reconnect(m) \/ Resume(m) \/ HandleStale(m)
                 \/ \E c \in running[m] : RunCall(m, c)
                 \/ \E e \in ToSet(accepted[m]) : Repeat(e)
                 \/ \E i \in Ids(m) : CallTimeOut(m, i)
          PROVE  UNCHANGED <<seen, accepted>>
      BY <2>1 DEF Lose, NoticeLoss, Reconnect, Resume, HandleStale, RunCall,
                  Repeat, CallTimeOut, guardVars
    <2> QED
      BY <1>1, <1>3, <1>q, <2>1 DEF ListenNext
  <1>4. CASE UNCHANGED vars
    BY <1>4, <1>q DEF vars
  <1> QED
    BY <1>2, <1>3, <1>4 DEF Next

-----------------------------------------------------------------------------
(* A call runs once                                                        *)

\* Of at most one holder there is one.
LEMMA OneHolder ==
  ASSUME Cardinality(Holder) <= 1, NEW a \in Holder, NEW b \in Holder
  PROVE  a = b
  <1>1. IsFiniteSet(Holder)
    BY ConstantFacts, FS_Subset
  <1>2. /\ IsFiniteSet(Holder \ {a})
        /\ Cardinality(Holder \ {a}) = Cardinality(Holder) - 1
        /\ Cardinality(Holder) \in Nat /\ Cardinality(Holder \ {a}) \in Nat
    BY <1>1, FS_RemoveElement, FS_CardinalityType
  <1>3. Cardinality(Holder \ {a}) = 0
    BY <1>2
  <1>4. Holder \ {a} = {}
    BY <1>2, <1>3, FS_EmptySet
  <1> QED
    BY <1>4

LEMMA InitCalls == Init => CallInv
  <1> SUFFICES ASSUME Init PROVE CallInv
    OBVIOUS
  <1>1. Known = {}
    BY EmptySet DEF Init, Known
  <1>2. OneEnvelope
    BY <1>1 DEF Init, OneEnvelope
  <1>3. CallsAccepted
    BY FS_EmptySet DEF Init, CallsAccepted
  <1>4. RunOnce
    BY FS_EmptySet, ConstantFacts DEF Init, RunOnce
  <1> QED
    BY <1>2, <1>3, <1>4, InitGuard DEF CallInv

\* Envelopes that are not calls, or were known, keep a call's envelope unique.
LEMMA OneEnvelopeKept ==
  ASSUME OneEnvelope, UNCHANGED nextCall,
         \A n \in Node : \A e \in sending'[n] : e.from = n,
         \A e \in Known' : e \in Known \/ e.body.kind # "call"
  PROVE  OneEnvelope'
  BY DEF OneEnvelope

\* Where the known envelopes are.
LEMMA KnownParts ==
  ASSUME NEW n \in Node
  PROVE  /\ sending[n] \subseteq Known
         /\ ToSet(outbox[n]) \subseteq Known /\ ToSet(batch[n]) \subseteq Known
         /\ ToSet(line[n]) \subseteq Known /\ ToSet(accepted[n]) \subseteq Known
  BY DEF Known

\* A step makes no envelope known that was not, but for the ones it sends.
LEMMA KnownStep ==
  ASSUME TypeOK, [Next]_vars, NEW n \in Node
  PROVE  /\ ToSet(outbox'[n]) \subseteq Known /\ ToSet(batch'[n]) \subseteq Known
         /\ ToSet(line'[n]) \subseteq Known /\ ToSet(accepted'[n]) \subseteq Known
  <1> DEFINE Goal ==
         /\ ToSet(outbox'[n]) \subseteq Known /\ ToSet(batch'[n]) \subseteq Known
         /\ ToSet(line'[n]) \subseteq Known /\ ToSet(accepted'[n]) \subseteq Known
  <1>q. ASSUME UNCHANGED <<outbox, batch, line, accepted>> PROVE Goal
    BY <1>q, KnownParts
  <1>1. ASSUME NEW m \in Node, NEW e \in sending[m], Enqueue(m, e) PROVE Goal
    <2>1. UNCHANGED <<batch, line, accepted>>
      BY <1>1 DEF Enqueue, listenVars, guardVars
    <2>2. e \in Envelope /\ e \in Known /\ outbox[m] \in Seq(Envelope)
      BY KnownParts DEF TypeOK
    <2>3. ToSet(Append(outbox[m], e)) \subseteq Known
      BY <2>2, AppendSet, KnownParts
    <2>4. outbox'[n] = IF n = m THEN Append(outbox[m], e) ELSE outbox[n]
      BY <1>1 DEF Enqueue, TypeOK
    <2> QED
      BY <2>1, <2>3, <2>4, KnownParts
  <1>2. ASSUME NEW m \in Node, TakeBatch(m) PROVE Goal
    <2> DEFINE size == IF Len(outbox[m]) < Batch THEN Len(outbox[m]) ELSE Batch
    <2>1. UNCHANGED <<line, accepted>>
      BY <1>2 DEF TakeBatch, listenVars, guardVars
    <2>2. outbox[m] \in Seq(Envelope) /\ Len(outbox[m]) \in Nat
      BY DEF TypeOK
    <2>3. /\ size \in 0..Len(outbox[m]) /\ size + 1 \in Nat \ {0}
          /\ Len(outbox[m]) \in 0..Len(outbox[m]) /\ 1 \in Nat \ {0}
      BY <2>2, ConstantFacts
    <2>4. /\ batch' = [batch EXCEPT ![m] = SubSeq(outbox[m], 1, size)]
          /\ outbox' = [outbox EXCEPT ![m] =
                          SubSeq(outbox[m], size + 1, Len(outbox[m]))]
      BY <1>2 DEF TakeBatch
    <2> HIDE DEF size
    <2>5. /\ ToSet(SubSeq(outbox[m], 1, size)) \subseteq ToSet(outbox[m])
          /\ ToSet(SubSeq(outbox[m], size + 1, Len(outbox[m])))
               \subseteq ToSet(outbox[m])
      BY <2>2, <2>3, SubSeqSet
    <2>6. /\ batch'[n] = IF n = m THEN SubSeq(outbox[m], 1, size) ELSE batch[n]
          /\ outbox'[n] = IF n = m THEN SubSeq(outbox[m], size + 1, Len(outbox[m]))
                          ELSE outbox[n]
      BY <2>4 DEF TypeOK
    <2> QED
      BY <2>1, <2>5, <2>6, KnownParts
  <1>3. ASSUME NEW m \in Node, Notify(m) PROVE Goal
    <2>1. UNCHANGED <<outbox, accepted>> /\ batch' = [batch EXCEPT ![m] = <<>>]
      BY <1>3 DEF Notify, guardVars
    <2>2. line'[n] = IF alive[n] THEN line[n] \o batch[m] ELSE line[n]
      BY <1>3 DEF Notify, Carry
    <2>3. ToSet(line[n] \o batch[m]) \subseteq Known
      BY ConcatSet, KnownParts DEF TypeOK
    <2>4. batch'[n] = IF n = m THEN <<>> ELSE batch[n]
      BY <2>1 DEF TypeOK
    <2> QED
      BY <2>1, <2>2, <2>3, <2>4, KnownParts, EmptySet
  <1>4. ASSUME NEW m \in Node, NotifyFails(m) PROVE Goal
    <2>1. UNCHANGED <<outbox, line, accepted>>
      BY <1>4 DEF NotifyFails, listenVars, guardVars
    <2>2. batch'[n] = IF n = m THEN <<>> ELSE batch[n]
      BY <1>4 DEF NotifyFails, TypeOK
    <2> QED
      BY <2>1, <2>2, KnownParts, EmptySet
  <1>5. ASSUME NEW m \in Node, NEW kept \in 0..Len(line[m]), Lose(m, kept)
        PROVE  Goal
    <2>1. UNCHANGED <<outbox, batch, accepted>>
      BY <1>5 DEF Lose, sendVars, guardVars
    <2>2. line'[n] = IF n = m THEN SubSeq(line[m], 1, kept) ELSE line[n]
      BY <1>5 DEF Lose, TypeOK
    <2>3. ToSet(SubSeq(line[m], 1, kept)) \subseteq ToSet(line[m])
      <3>1. line[m] \in Seq(Envelope) /\ 1 \in Nat \ {0}
        BY DEF TypeOK
      <3> QED
        BY <3>1, SubSeqSet
    <2> QED
      BY <2>1, <2>2, <2>3, KnownParts
  <1>6. ASSUME NEW m \in Node, Reconnect(m) PROVE Goal
    <2>1. UNCHANGED <<outbox, batch, accepted>>
      BY <1>6 DEF Reconnect, sendVars, guardVars
    <2>2. line'[n] = IF n = m THEN <<>> ELSE line[n]
      BY <1>6 DEF Reconnect, TypeOK
    <2> QED
      BY <2>1, <2>2, KnownParts, EmptySet
  <1>7. ASSUME NEW m \in Node, Handle(m) PROVE Goal
    <2>1. UNCHANGED <<outbox, batch>>
      BY <1>7 DEF Handle, sendVars
    <2>2. line'[n] = IF n = m THEN Tail(line[m]) ELSE line[n]
      BY <1>7 DEF Handle, TypeOK
    <2>3. ToSet(Tail(line[m])) \subseteq ToSet(line[m])
      BY <1>7, HeadTailSet DEF Handle, TypeOK
    <2>4. ToSet(accepted'[n]) \subseteq Known
      <3>1. CASE accepted' = accepted
        BY <3>1, KnownParts
      <3>2. CASE accepted' # accepted
        <4>1. PICK e \in ToSet(line[m]) :
                /\ e \in Envelope
                /\ accepted' = [accepted EXCEPT ![m] = Append(@, e)]
          BY <1>7, <3>2, HandleFresh
        <4>2. ToSet(Append(accepted[m], e)) = ToSet(accepted[m]) \cup {e}
          BY <4>1, AppendSet DEF TypeOK
        <4>3. accepted'[n] = IF n = m THEN Append(accepted[m], e) ELSE accepted[n]
          BY <4>1 DEF TypeOK
        <4> QED
          BY <4>1, <4>2, <4>3, KnownParts
      <3> QED
        BY <3>1, <3>2
    <2> QED
      BY <2>1, <2>2, <2>3, <2>4, KnownParts
  <1>8. ASSUME NEW m \in Node, HandleStale(m) PROVE Goal
    <2>1. UNCHANGED <<outbox, batch, accepted>>
      BY <1>8 DEF HandleStale, sendVars, guardVars
    <2>2. line'[n] = IF n = m THEN Tail(line[m]) ELSE line[n]
      BY <1>8 DEF HandleStale, TypeOK
    <2>3. ToSet(Tail(line[m])) \subseteq ToSet(line[m])
      BY <1>8, HeadTailSet DEF HandleStale, TypeOK
    <2> QED
      BY <2>1, <2>2, <2>3, KnownParts
  <1>9. ASSUME NEW m \in Node, NEW e \in ToSet(accepted[m]), Repeat(e) PROVE Goal
    <2>1. UNCHANGED <<outbox, batch, accepted>>
      BY <1>9 DEF Repeat, sendVars, guardVars
    <2>2. line'[n] = IF alive[n] THEN Append(line[n], e) ELSE line[n]
      BY <1>9 DEF Repeat
    <2>3. ToSet(Append(line[n], e)) = ToSet(line[n]) \cup {e}
      <3>1. e \in Envelope /\ line[n] \in Seq(Envelope)
        BY DEF TypeOK, ToSet
      <3> QED
        BY <3>1, AppendSet
    <2> QED
      BY <2>1, <2>2, <2>3, KnownParts
  <1>10. ASSUME NEW m \in Node,
                \/ Publish(m) \/ StartCall(m)
                \/ \E e \in sending[m] : SendFails(m, e)
                \/ NoticeLoss(m) \/ Resume(m)
                \/ \E c \in running[m] : RunCall(m, c)
                \/ \E i \in Ids(m) : CallTimeOut(m, i)
         PROVE  UNCHANGED <<outbox, batch, line, accepted>>
    BY <1>10 DEF Publish, StartCall, SendFails, NoticeLoss, Resume, RunCall,
                 CallTimeOut, sendVars, listenVars, guardVars
  <1>11. ASSUME UNCHANGED vars PROVE Goal
    BY <1>11, <1>q DEF vars
  <1> HIDE DEF Goal
  <1>12. Goal
    BY <1>1, <1>2, <1>3, <1>4, <1>5, <1>6, <1>7, <1>8, <1>9, <1>10, <1>11, <1>q
    DEF Next, SendNext, ListenNext
  <1> QED
    BY <1>12 DEF Goal

\* What is known after a step was known, or is a send.
LEMMA KnownBound ==
  ASSUME TypeOK, [Next]_vars, NEW e \in Known'
  PROVE  e \in Known \/ \E n \in Node : e \in sending'[n]
  <1>1. PICK n \in Node : \/ e \in sending'[n]
                          \/ e \in ToSet(outbox'[n]) \/ e \in ToSet(batch'[n])
                          \/ e \in ToSet(line'[n]) \/ e \in ToSet(accepted'[n])
    BY DEF Known
  <1> QED
    BY <1>1, KnownStep

LEMMA StepOneEnvelope ==
  ASSUME TypeOK, OneEnvelope, [Next]_vars
  PROVE  OneEnvelope'
  <1>1. ASSUME UNCHANGED nextCall,
               \A n \in Node : \A e \in sending'[n] :
                  e \in sending[n] \/ (e.from = n /\ e.body.kind # "call")
        PROVE  OneEnvelope'
    <2>1. \A n \in Node : \A e \in sending'[n] : e.from = n
      BY <1>1 DEF OneEnvelope
    <2>2. ASSUME NEW e \in Known' PROVE e \in Known \/ e.body.kind # "call"
      BY <1>1, KnownBound, KnownParts
    <2> QED
      BY <1>1, <2>1, <2>2, OneEnvelopeKept
  <1>2. ASSUME NEW n \in Node, NEW b \in Body, TakeCounter(n, b),
               b.kind # "call", UNCHANGED nextCall
        PROVE  OneEnvelope'
    <2> DEFINE f == [from |-> n, count |-> counter[n], body |-> b]
    <2>1. f.from = n /\ f.body.kind # "call"
      BY <1>2
    <2>2. \A m \in Node : sending'[m] = IF m = n THEN sending[n] \cup {f}
                                        ELSE sending[m]
      BY <1>2 DEF TakeCounter, TypeOK
    <2> HIDE DEF f
    <2> QED
      BY <1>1, <1>2, <2>1, <2>2
  <1>3. ASSUME NEW n \in Node, Publish(n) PROVE OneEnvelope'
    <2>1. UNCHANGED nextCall
      BY <1>3 DEF Publish, callVars
    <2> QED
      BY <1>2, <1>3, <2>1, BodyTypes DEF Publish
  <1>4. ASSUME NEW n \in Node, StartCall(n) PROVE OneEnvelope'
    <2> DEFINE b == [kind |-> "call", to |-> n, id |-> nextCall[n], ok |-> TRUE]
               f == [from |-> n, count |-> counter[n], body |-> b]
    <2>1. f.from = n /\ f.body.id = nextCall[n]
      OBVIOUS
    <2>2. \A m \in Node : sending'[m] = IF m = n THEN sending[n] \cup {f}
                                        ELSE sending[m]
      BY <1>4 DEF StartCall, TakeCounter, TypeOK
    <2>3. nextCall[n] \in Nat
          /\ \A m \in Node : nextCall'[m] = IF m = n THEN nextCall[n] + 1
                                            ELSE nextCall[m]
      BY <1>4 DEF StartCall, TypeOK
    <2> HIDE DEF f
    <2>4. \A e \in Known' : e \in Known \/ e = f
      BY <2>2, KnownBound, KnownParts
    <2>5. \A e \in Known : e.from \in Node /\ e.body.id \in Nat
      <3>1. Known \subseteq Envelope
        BY DEF Known, TypeOK, ToSet
      <3> QED
        BY <3>1 DEF Envelope, Body
    <2>6. \A e \in Known : e.body.kind = "call" => e.body.id < nextCall[e.from]
      BY DEF OneEnvelope
    <2>7. \A m \in Node : nextCall[m] \in Nat
      BY DEF TypeOK
    <2>8. ASSUME NEW e \in Known', e.body.kind = "call"
          PROVE  e.body.id < nextCall'[e.from]
      <3>1. CASE e \in Known
        <4>1. e.from \in Node /\ e.body.id \in Nat /\ e.body.id < nextCall[e.from]
          BY <2>5, <2>6, <2>8, <3>1
        <4> QED
          BY <2>3, <2>7, <4>1
      <3>2. CASE e = f
        BY <2>1, <2>3, <3>2
      <3> QED
        BY <2>4, <3>1, <3>2
    <2>9. ASSUME NEW e \in Known, e.body.kind = "call", e.from = f.from
          PROVE  e.body.id # f.body.id
      BY <2>1, <2>3, <2>5, <2>6, <2>9
    <2>10. ASSUME NEW e \in Known', NEW g \in Known', e.body.kind = "call",
                  g.body.kind = "call", e.from = g.from, e.body.id = g.body.id
           PROVE  e.count = g.count
      <3>1. CASE e \in Known /\ g \in Known
        BY <2>10, <3>1 DEF OneEnvelope
      <3>2. CASE e = f /\ g = f
        BY <3>2
      <3> QED
        BY <2>4, <2>9, <2>10, <3>1, <3>2
    <2>11. \A m \in Node : \A e \in sending'[m] : e.from = m
      BY <2>1, <2>2 DEF OneEnvelope
    <2> QED
      BY <2>8, <2>10, <2>11 DEF OneEnvelope
  <1>5. ASSUME NEW n \in Node, NEW e \in sending[n], SendFails(n, e)
        PROVE  OneEnvelope'
    <2>1. UNCHANGED nextCall
      BY <1>5 DEF SendFails
    <2>2. CASE e.body.kind = "reply" /\ e.body.ok
      <3> DEFINE f == [from |-> n, count |-> counter[n],
                       body |-> [e.body EXCEPT !.ok = FALSE]]
      <3>1. e \in Envelope
        BY DEF TypeOK
      <3>2. f.from = n /\ f.body.kind # "call"
        BY <2>2, <3>1, ErrorAnswerType
      <3>3. \A m \in Node : sending'[m] = IF m = n THEN (sending[n] \ {e}) \cup {f}
                                          ELSE sending[m]
        BY <1>5, <2>2 DEF SendFails, TypeOK
      <3> HIDE DEF f
      <3> QED
        BY <1>1, <2>1, <3>2, <3>3
    <2>3. CASE ~ (e.body.kind = "reply" /\ e.body.ok)
      <3>1. \A m \in Node : sending'[m] \subseteq sending[m]
        BY <1>5, <2>3 DEF SendFails, TypeOK
      <3> QED
        BY <1>1, <2>1, <3>1
    <2> QED
      BY <2>2, <2>3
  <1>6. ASSUME NEW n \in Node, NEW e \in sending[n], Enqueue(n, e)
        PROVE  OneEnvelope'
    <2>1. UNCHANGED nextCall /\ \A m \in Node : sending'[m] \subseteq sending[m]
      BY <1>6 DEF Enqueue, TypeOK, callVars
    <2> QED
      BY <1>1, <2>1
  <1>7. ASSUME NEW m \in Node, NEW c \in running[m], RunCall(m, c)
        PROVE  OneEnvelope'
    <2>1. UNCHANGED nextCall
      BY <1>7 DEF RunCall
    <2>2. CASE m \in Holder
      <3>1. c[1] \in Node /\ c[2] \in Nat
        BY DEF TypeOK
      <3>2. PICK ok \in BOOLEAN :
              TakeCounter(m, [kind |-> "reply", to |-> c[1], id |-> c[2], ok |-> ok])
        BY <1>7, <2>2 DEF RunCall
      <3> QED
        BY <1>2, <2>1, <3>1, <3>2, BodyTypes
    <2>3. CASE m \notin Holder
      <3>1. UNCHANGED sending
        BY <1>7, <2>3 DEF RunCall
      <3> QED
        BY <1>1, <2>1, <3>1
    <2> QED
      BY <2>2, <2>3
  <1>8. ASSUME NEW n \in Node,
               \/ TakeBatch(n) \/ Notify(n) \/ NotifyFails(n)
               \/ \E kept \in 0..Len(line[n]) : Lose(n, kept)
               \/ NoticeLoss(n) \/ Reconnect(n) \/ Resume(n)
               \/ Handle(n) \/ HandleStale(n)
               \/ \E e \in ToSet(accepted[n]) : Repeat(e)
               \/ \E i \in Ids(n) : CallTimeOut(n, i)
        PROVE  UNCHANGED <<nextCall, sending>>
    BY <1>8 DEF TakeBatch, Notify, NotifyFails, Lose, NoticeLoss, Reconnect,
                Resume, Handle, HandleStale, Repeat, CallTimeOut, sendVars, callVars
  <1>9. CASE UNCHANGED vars
    BY <1>1, <1>9 DEF vars
  <1>10. ASSUME UNCHANGED <<nextCall, sending>> PROVE OneEnvelope'
    BY <1>1, <1>10
  <1> QED
    BY <1>3, <1>4, <1>5, <1>6, <1>7, <1>8, <1>9, <1>10
    DEF Next, SendNext, ListenNext

LEMMA StepCalls == CallInv /\ [Next]_vars => CallInv'
  <1> SUFFICES ASSUME CallInv, [Next]_vars PROVE (CallsAccepted /\ RunOnce)'
    BY StepGuard, StepOneEnvelope DEF CallInv, GuardInv
  <1> USE DEF CallInv, GuardInv
  <1>q. ASSUME UNCHANGED <<running, ran, accepted>>
        PROVE  (CallsAccepted /\ RunOnce)'
    BY <1>q DEF CallsAccepted, RunOnce
  <1>1. ASSUME NEW m \in Node, Handle(m), ~ UNCHANGED <<running, ran, accepted>>
        PROVE  (CallsAccepted /\ RunOnce)'
    <2>1. UNCHANGED ran
      BY <1>1 DEF Handle
    <2>2. PICK e \in ToSet(line[m]) :
            /\ e \in Envelope /\ e.from # m /\ e.count >= seen[m][e.from]
            /\ accepted' = [accepted EXCEPT ![m] = Append(@, e)]
            /\ Dispatch(m, e)
      BY <1>1, <2>1, HandleFresh
    <2>3. ToSet(Append(accepted[m], e)) = ToSet(accepted[m]) \cup {e}
      BY <2>2, AppendSet DEF TypeOK
    <2>4. \A x \in Node : ToSet(accepted'[x]) =
             IF x = m THEN ToSet(accepted[m]) \cup {e} ELSE ToSet(accepted[x])
      BY <2>2, <2>3 DEF TypeOK
    <2> DEFINE c == <<e.from, e.body.id>>
    <2>5. \/ UNCHANGED running
          \/ /\ e.body.kind = "call" /\ Cardinality(running[m]) < MaxInbound
             /\ running' = [running EXCEPT ![m] = @ \cup {c}]
      BY <2>2, Zenon DEF Dispatch
    <2>6. ASSUME NEW f \in ToSet(accepted[m]), IsCall(f, c), e.body.kind = "call"
          PROVE  FALSE
      <3>1. f \in Known /\ e \in Known
        BY <2>2, KnownParts
      <3>2. f.from = e.from /\ f.body.id = e.body.id /\ f.body.kind = "call"
        BY <2>6, Zenon DEF IsCall
      <3>3. f.count = e.count
        BY <2>6, <3>1, <3>2 DEF OneEnvelope
      <3>4. f.count < seen[m][f.from]
        BY DEF GuardPast
      <3>5. seen[m][e.from] \in Nat /\ e.count \in Nat
        BY <2>2 DEF Envelope, TypeOK
      <3> QED
        BY <2>2, <3>2, <3>3, <3>4, <3>5
    <2>7. e.body.kind = "call" => IsCall(e, c)
      BY Zenon DEF IsCall
    <2> HIDE DEF c
    <2>8. \A x \in Node : \/ running'[x] = running[x]
                          \/ /\ x = m /\ e.body.kind = "call"
                             /\ Cardinality(running[m]) < MaxInbound
                             /\ running'[x] = running[m] \cup {c}
      <3> DEFINE P == Node \X Nat
      <3>1. running \in [Node -> SUBSET P]
        BY DEF TypeOK
      <3> HIDE DEF P
      <3> QED
        BY <2>5, <3>1
    <2>9. ASSUME NEW x \in Node
          PROVE  /\ IsFiniteSet(running'[x])
                 /\ Cardinality(running'[x]) <= MaxInbound
                 /\ \A d \in running'[x] :
                      \E f \in ToSet(accepted'[x]) : IsCall(f, d)
      <3>1. IsFiniteSet(running[x]) /\ Cardinality(running[x]) <= MaxInbound
        BY DEF CallsAccepted, RunOnce
      <3>2. \A d \in running[x] : \E f \in ToSet(accepted[x]) : IsCall(f, d)
        BY DEF CallsAccepted
      <3>3. CASE running'[x] = running[x]
        BY <2>4, <3>1, <3>2, <3>3
      <3>4. CASE running'[x] # running[x]
        <4>1. /\ x = m /\ e.body.kind = "call" /\ Cardinality(running[m]) < MaxInbound
              /\ running'[x] = running[m] \cup {c}
          BY <2>8, <3>4
        <4>2. /\ IsFiniteSet(running[m] \cup {c}) /\ Cardinality(running[m]) \in Nat
              /\ Cardinality(running[m] \cup {c}) <= Cardinality(running[m]) + 1
          <5>1. Cardinality(running[m]) \in Nat
            BY <3>1, <4>1, FS_CardinalityType
          <5>2. /\ IsFiniteSet(running[m] \cup {c})
                /\ Cardinality(running[m] \cup {c}) =
                     IF c \in running[m] THEN Cardinality(running[m])
                     ELSE Cardinality(running[m]) + 1
            BY <3>1, <4>1, FS_AddElement
          <5> QED
            BY <5>1, <5>2
        <4>3. Cardinality(running[m] \cup {c}) \in Nat
          BY <4>2, FS_CardinalityType
        <4>4. Cardinality(running'[x]) <= MaxInbound
          BY <4>1, <4>2, <4>3, ConstantFacts
        <4> QED
          BY <2>4, <2>7, <3>2, <4>1, <4>2, <4>4
      <3> QED
        BY <3>3, <3>4
    <2>10. \A d \in ran : \E x \in Holder :
              \E f \in ToSet(accepted'[x]) : IsCall(f, d)
      <3>1. \A x \in Holder : ToSet(accepted[x]) \subseteq ToSet(accepted'[x])
        BY <2>4, ConstantFacts
      <3> QED
        BY <3>1 DEF CallsAccepted
    <2>11. ASSUME Cardinality(Holder) <= 1, NEW x \in Holder
           PROVE  running'[x] \cap ran = {}
      <3>1. running[x] \cap ran = {}
        BY <2>11 DEF RunOnce
      <3>2. SUFFICES ASSUME x = m, e.body.kind = "call", c \in ran PROVE FALSE
        BY <2>8, <3>1, ConstantFacts
      <3>3. PICK y \in Holder : \E f \in ToSet(accepted[y]) : IsCall(f, c)
        BY <3>2 DEF CallsAccepted
      <3>4. y = m
        BY <2>11, <3>2, OneHolder
      <3> QED
        BY <2>6, <3>2, <3>3, <3>4
    <2> QED
      BY <2>1, <2>9, <2>10, <2>11 DEF CallsAccepted, RunOnce
  <1>2. ASSUME NEW m \in Node, NEW c \in running[m], RunCall(m, c)
        PROVE  (CallsAccepted /\ RunOnce)'
    <2>1. UNCHANGED accepted
      BY <1>2 DEF RunCall, guardVars
    <2>2. \A x \in Node : running'[x] = IF x = m THEN running[m] \ {c} ELSE running[x]
      BY <1>2 DEF RunCall, TypeOK
    <2>3. (m \in Holder /\ ran' = ran \cup {c}) \/ UNCHANGED ran
      BY <1>2 DEF RunCall
    <2>4. ASSUME NEW x \in Node
          PROVE  /\ running'[x] \subseteq running[x] /\ IsFiniteSet(running'[x])
                 /\ Cardinality(running'[x]) <= MaxInbound
      <3>1. IsFiniteSet(running[x]) /\ Cardinality(running[x]) <= MaxInbound
        BY DEF CallsAccepted, RunOnce
      <3>2. running'[x] \subseteq running[x]
        BY <2>2
      <3>3. /\ IsFiniteSet(running'[x])
            /\ Cardinality(running'[x]) <= Cardinality(running[x])
        BY <3>1, <3>2, FS_Subset
      <3>4. Cardinality(running'[x]) \in Nat /\ Cardinality(running[x]) \in Nat
        BY <3>1, <3>3, FS_CardinalityType
      <3> QED
        BY <3>1, <3>2, <3>3, <3>4, ConstantFacts
    <2>5. CallsAccepted'
      <3>1. \E f \in ToSet(accepted[m]) : IsCall(f, c)
        BY DEF CallsAccepted
      <3> QED
        BY <2>1, <2>3, <2>4, <3>1 DEF CallsAccepted
    <2>6. ASSUME Cardinality(Holder) <= 1, NEW x \in Holder
          PROVE  running'[x] \cap ran' = {}
      <3>1. x \in Node /\ running[x] \cap ran = {}
        BY <2>6, ConstantFacts DEF RunOnce
      <3>2. m \in Holder => x = m
        BY <2>6, OneHolder
      <3> QED
        BY <2>2, <2>3, <3>1, <3>2
    <2> QED
      BY <2>4, <2>5, <2>6 DEF RunOnce
  <1>3. ASSUME NEW m \in Node,
               \/ SendNext(m)
               \/ \E kept \in 0..Len(line[m]) : Lose(m, kept)
               \/ NoticeLoss(m) \/ Reconnect(m) \/ Resume(m) \/ HandleStale(m)
               \/ \E e \in ToSet(accepted[m]) : Repeat(e)
               \/ \E i \in Ids(m) : CallTimeOut(m, i)
        PROVE  UNCHANGED <<running, ran, accepted>>
    BY <1>3 DEF SendNext, Publish, StartCall, TakeBatch, Notify, NotifyFails,
                Enqueue, SendFails, Lose, NoticeLoss, Reconnect, Resume,
                HandleStale, Repeat, CallTimeOut, guardVars, callVars
  <1>4. CASE UNCHANGED vars
    BY <1>4, <1>q DEF vars
  <1> QED
    BY <1>1, <1>2, <1>3, <1>4, <1>q DEF Next, ListenNext

\* Every node acts on another node's envelopes in the order they were numbered
\* and on none twice, its inbound calls stay within their permits, and a device
\* call is run by its one holder once.
THEOREM OnceAndInOrder == Spec => []OnceInOrder
  <1>1. CallInv => OnceInOrder
    BY DEF CallInv, GuardInv, OnceInOrder
  <1> QED
    BY <1>1, InitCalls, StepCalls, PTL DEF Spec

=============================================================================

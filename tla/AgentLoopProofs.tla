--------------------------- MODULE AgentLoopProofs ---------------------------
(***************************************************************************)
(* Proofs about AgentLoop: every response is metered once at its model, a  *)
(* request repeats the context of all signed content, a tool runs only     *)
(* with everybody's consent, and a run leaves the conversation and the     *)
(* agent in order.  All of it for any number of middlewares, tools, steps, *)
(* retries, blocks and runs, any events of the provider, and any stored    *)
(* conversation that is itself complete.                                   *)
(***************************************************************************)
EXTENDS AgentLoop, SequenceTheorems, FiniteSetTheorems, TLAPS

LEMMA ConstantTypes ==
  /\ Provided \subseteq Model /\ InitialModel \in Model /\ InitialSystem \in System
  /\ NumMw \in Nat /\ MaxRetries \in Nat /\ MaxBlocks \in Nat /\ MaxConcurrent \in Nat
  /\ Event \subseteq EventType
  BY AgentAssumption

-----------------------------------------------------------------------------
(* The operators of the model                                              *)

\* Picked: a sequence of exactly the elements of `s` at the positions in I.
LEMMA PickedFacts ==
  ASSUME NEW S, NEW s, NEW m \in Nat, NEW I \in SUBSET (1..m),
         \A i \in I : s[i] \in S
  PROVE  /\ Picked(s, I) \in Seq(S)
         /\ \A i \in I : s[i] \in ToSet(Picked(s, I))
  <1> DEFINE Upto(i) == {j \in I : j <= i}
             Rank(i) == Cardinality(Upto(i))
             c == Cardinality(I)
             f == [i \in I |-> Rank(i)]
             at(n) == CHOOSE i \in I : Rank(i) = n
  <1>1. IsFiniteSet(I) /\ c \in Nat /\ \A i \in I : i \in Nat
    <2>1. IsFiniteSet(1..m)
      BY FS_Interval
    <2>2. IsFiniteSet(I)
      BY <2>1, FS_Subset
    <2> QED
      BY <2>2, FS_CardinalityType
  <1>2. ASSUME NEW i \in I
        PROVE  IsFiniteSet(Upto(i)) /\ Rank(i) \in 1..c
    <2>1. Upto(i) \in SUBSET I /\ i \in Upto(i)
      BY <1>1
    <2>2. IsFiniteSet(Upto(i)) /\ Rank(i) <= c
      BY <1>1, <2>1, FS_Subset
    <2>3. Rank(i) \in Nat
      BY <2>2, FS_CardinalityType
    <2>4. Rank(i) # 0
      BY <2>1, <2>2, FS_EmptySet
    <2> HIDE DEF Rank, c
    <2> QED
      BY <1>1, <2>2, <2>3, <2>4
  <1>3. ASSUME NEW i \in I, NEW j \in I, i < j
        PROVE  Rank(i) # Rank(j)
    <2>1. i \in Nat /\ j \in Nat /\ \A x \in I : x \in Nat /\ (x <= i => x <= j)
      BY <1>1, <1>3
    <2>2. j <= j /\ ~ (j <= i)
      BY <1>3, <2>1
    <2>3. Upto(i) \in SUBSET Upto(j)
      BY <2>1
    <2>4. j \in Upto(j) /\ j \notin Upto(i)
      BY <2>2
    <2>5. IsFiniteSet(Upto(j)) /\ Upto(i) # Upto(j)
      BY <1>2, <2>4
    <2> HIDE DEF Upto
    <2> QED
      BY <2>3, <2>5, FS_Subset
  <1>4. ASSUME NEW i \in I, NEW j \in I, Rank(i) = Rank(j) PROVE i = j
    BY <1>1, <1>3, <1>4
  <1> HIDE DEF Rank, c
  <1>5. f \in Injection(I, 1..c)
    BY <1>2, <1>4 DEF Injection, IsInjective
  <1>6. IsFiniteSet(1..c) /\ Cardinality(1..c) = Cardinality(I)
    BY <1>1, FS_Interval DEF c
  <1>7. f \in Surjection(I, 1..c)
    BY <1>5, <1>6, FS_Injection
  <1>8. ASSUME NEW n \in 1..c PROVE at(n) \in I /\ Rank(at(n)) = n
    <2>1. \E i \in I : Rank(i) = n
      BY <1>7 DEF Surjection
    <2> QED
      BY <2>1
  <1>9. Picked(s, I) = [n \in 1..c |-> s[at(n)]]
    BY DEF Picked, Rank, c
  <1> HIDE DEF at
  <1>10. Picked(s, I) \in Seq(S)
    <2>1. \A n \in 1..c : s[at(n)] \in S
      BY <1>8
    <2>2. Picked(s, I) \in [1..c -> S]
      BY <1>9, <2>1
    <2> QED
      BY <1>1, <2>2, SeqDef
  <1>11. ASSUME NEW i \in I PROVE s[i] \in ToSet(Picked(s, I))
    <2>1. Rank(i) \in 1..c /\ at(Rank(i)) = i
      BY <1>2, <1>4, <1>8
    <2>2. Rank(i) \in DOMAIN Picked(s, I) /\ Picked(s, I)[Rank(i)] = s[i]
      BY <1>9, <2>1
    <2> QED
      BY <2>2 DEF ToSet
  <1> QED
    BY <1>10, <1>11

LEMMA Constructors ==
  /\ Plain \in Message /\ Plain.uses = <<>> /\ ~ Plain.signed
  /\ EmptyAccum \in Accum /\ EmptyAccum.blocks = {} /\ EmptyAccum.calls = <<>>
  /\ NoRequest \in Exchange
  <1>1. Plain \in Message /\ Plain.uses = <<>> /\ ~ Plain.signed
    BY DEF Plain, Message
  <1>2. EmptyAccum \in Accum /\ EmptyAccum.blocks = {} /\ EmptyAccum.calls = <<>>
    BY DEF EmptyAccum, Accum
  <1>3. NoRequest \in Exchange
    BY ConstantTypes DEF NoRequest, Exchange
  <1> QED
    BY <1>1, <1>2, <1>3

LEMMA BlockToolsType ==
  ASSUME NEW a \in Accum, IsFiniteSet(a.blocks)
  PROVE  BlockTools(a) \in Seq(ToolId)
  <1> DEFINE n == Cardinality(a.blocks)
             at == [i \in 1..n |-> (CHOOSE b \in a.blocks : b.index = i - 1).content]
             I == {i \in 1..n : at[i] \in ToolId}
  <1>1. BlockTools(a) = Picked(at, I)
    BY DEF BlockTools
  <1>2. n \in Nat
    BY FS_CardinalityType
  <1> HIDE DEF n, at
  <1>3. I \in SUBSET (1..n) /\ \A i \in I : at[i] \in ToolId
    OBVIOUS
  <1> HIDE DEF I
  <1> QED
    BY <1>1, <1>2, <1>3, PickedFacts

LEMMA CallsType ==
  ASSUME NEW a \in Accum, IsFiniteSet(a.blocks)
  PROVE  Calls(a) \in Seq(Call)
  <1>1. CASE a.blocks = {}
    BY <1>1 DEF Calls, Accum
  <1>2. CASE a.blocks # {}
    <2> DEFINE t == BlockTools(a)
    <2>1. t \in Seq(ToolId)
      BY BlockToolsType
    <2>2. Calls(a) = [i \in DOMAIN t |-> [id |-> t[i], bad |-> FALSE]]
      BY <1>2 DEF Calls
    <2> HIDE DEF t
    <2>3. \A i \in DOMAIN t : [id |-> t[i], bad |-> FALSE] \in Call
      BY <2>1 DEF Call
    <2>4. DOMAIN t = 1..Len(t) /\ Len(t) \in Nat
      BY <2>1
    <2> QED
      BY <2>2, <2>3, <2>4
  <1> QED
    BY <1>1, <1>2

\* A turn is at most one message, and it uses the calls of the step.
LEMMA TurnFacts ==
  ASSUME NEW a \in Accum, IsFiniteSet(a.blocks), NEW fails \in BOOLEAN
  PROVE  /\ Turn(a, fails) \in Seq(Message)
         /\ \/ Turn(a, fails) = <<>>
            \/ /\ Len(Turn(a, fails)) = 1
               /\ fails => Turn(a, fails)[1].uses = <<>>
               /\ ~ fails => \A id \in ToSet(Turn(a, fails)[1].uses) :
                                \E j \in DOMAIN Calls(a) : Calls(a)[j].id = id
  <1> DEFINE calls == IF fails THEN <<>> ELSE Calls(a)
             signed == ~ fails /\ \E b \in a.blocks : b.content = "signed"
             uses == [i \in DOMAIN calls |-> calls[i].id]
             m == [uses |-> uses, results |-> <<>>, signed |-> signed]
  <1>1. Turn(a, fails) \in {<<m>>, <<>>}
    BY DEF Turn
  <1>2. calls \in Seq(Call)
    BY CallsType
  <1>3. uses \in Seq(ToolId)
    <2> HIDE DEF calls
    <2>0. \A i \in DOMAIN calls : calls[i] \in Call
      BY <1>2
    <2>1. \A i \in DOMAIN calls : calls[i].id \in ToolId
      BY <2>0 DEF Call
    <2>2. DOMAIN calls = 1..Len(calls) /\ Len(calls) \in Nat
      BY <1>2
    <2>3. uses \in [1..Len(calls) -> ToolId]
      BY <2>1, <2>2
    <2> QED
      BY <2>2, <2>3, SeqDef
  <1>4. signed \in BOOLEAN
    OBVIOUS
  <1>5. fails => uses = <<>>
    BY <1>2
  <1>6. ~ fails => \A id \in ToSet(uses) : \E j \in DOMAIN Calls(a) : Calls(a)[j].id = id
    BY DEF ToSet
  <1> HIDE DEF uses, signed
  <1>7. m \in Message /\ m.uses = uses
    BY <1>3, <1>4 DEF Message
  <1> HIDE DEF m
  <1>8. <<m>> \in Seq(Message) /\ Len(<<m>>) = 1 /\ <<m>>[1] = m
    BY <1>7
  <1>9. CASE Turn(a, fails) = <<m>>
    BY <1>5, <1>6, <1>7, <1>8, <1>9
  <1>10. CASE Turn(a, fails) = <<>>
    BY <1>10
  <1> QED
    BY <1>1, <1>9, <1>10

\* StepAccum::apply keeps the types, whatever event comes.
LEMMA ApplyFacts ==
  ASSUME NEW a \in Accum, IsFiniteSet(a.blocks), NEW e \in Event
  PROVE  Apply(a, e) \in Accum /\ IsFiniteSet(Apply(a, e).blocks)
  <1>0. e \in EventType
    BY ConstantTypes
  <1> DEFINE more == [a EXCEPT !.n = @ + 1]
             broken == [more EXCEPT !.broken = TRUE]
  <1>1. more \in Accum /\ more.blocks = a.blocks /\ more.calls = a.calls
    BY DEF Accum
  <1>2. broken \in Accum /\ broken.blocks = a.blocks
    BY <1>1 DEF Accum
  <1>3. CASE e.kind = "end"
    <2>1. e.stop \in {"tool_use", "end_turn", "other"}
      BY <1>0, <1>3 DEF EventType
    <2>2. Apply(a, e) = [a EXCEPT !.stop = e.stop]
      BY <1>3 DEF Apply
    <2> QED
      BY <2>1, <2>2 DEF Accum
  <1>4. CASE e.kind # "end"
    <2>0. Apply(a, e) = Folded(a, e)
      BY <1>4 DEF Apply
    <2>1. e.kind \in {"text", "think", "sign", "huge", "block", "call"}
      BY <1>0, <1>4 DEF EventType
    <2>2. CASE e.kind = "text"
      <3>1. Folded(a, e) = [more EXCEPT !.text = TRUE]
        BY <2>2 DEF Folded
      <3> HIDE DEF more
      <3> QED
        BY <1>1, <2>0, <3>1 DEF Accum
    <2>3. CASE e.kind = "think"
      <3>1. Folded(a, e) = [more EXCEPT !.think = TRUE]
        BY <2>3 DEF Folded
      <3> HIDE DEF more
      <3> QED
        BY <1>1, <2>0, <3>1 DEF Accum
    <2>4. CASE e.kind = "sign"
      <3>1. Folded(a, e) = [more EXCEPT !.sign = TRUE]
        BY <2>4 DEF Folded
      <3> HIDE DEF more
      <3> QED
        BY <1>1, <2>0, <3>1 DEF Accum
    <2>5. CASE e.kind = "huge"
      <3>1. Folded(a, e) = broken
        BY <2>5 DEF Folded
      <3> HIDE DEF broken
      <3> QED
        BY <1>2, <2>0, <3>1
    <2>6. CASE e.kind = "block"
      <3> DEFINE b == [index |-> e.index, content |-> e.content]
                 bs == a.blocks \cup {b}
      <3>1. Folded(a, e) \in {broken, [more EXCEPT !.blocks = @ \cup {b}]}
        BY <2>6 DEF Folded
      <3>2. e.index \in Nat /\ e.content \in {"text", "signed"} \cup ToolId
        BY <1>0, <2>6 DEF EventType
      <3>3. b \in Block
        BY <3>2 DEF Block
      <3> HIDE DEF more, broken, b
      <3>4. bs \in SUBSET Block /\ IsFiniteSet(bs)
        BY <3>3, FS_AddElement DEF Accum
      <3>5. Folded(a, e) \in {broken, [more EXCEPT !.blocks = bs]}
        BY <1>1, <3>1 DEF Accum
      <3> HIDE DEF bs
      <3>6. [more EXCEPT !.blocks = bs] \in Accum /\ [more EXCEPT !.blocks = bs].blocks = bs
        BY <1>1, <3>4 DEF Accum
      <3> QED
        BY <1>2, <2>0, <3>4, <3>5, <3>6
    <2>7. CASE e.kind = "call"
      <3> DEFINE c == [id |-> e.id, bad |-> e.bad]
                 cs == Append(a.calls, c)
      <3>1. Folded(a, e) \in {broken, [more EXCEPT !.calls = Append(@, c)]}
        BY <2>7 DEF Folded
      <3>2. e.id \in ToolId /\ e.bad \in BOOLEAN
        BY <1>0, <2>7 DEF EventType
      <3>3. c \in Call
        BY <3>2 DEF Call
      <3> HIDE DEF more, broken, c
      <3>4. a.calls \in Seq(Call)
        BY DEF Accum
      <3>5. cs \in Seq(Call)
        BY <3>3, <3>4
      <3>6. Folded(a, e) \in {broken, [more EXCEPT !.calls = cs]}
        BY <1>1, <3>1 DEF Accum
      <3> HIDE DEF cs
      <3>7. [more EXCEPT !.calls = cs] \in Accum
            /\ [more EXCEPT !.calls = cs].blocks = more.blocks
        BY <1>1, <3>5 DEF Accum
      <3> QED
        BY <1>1, <1>2, <2>0, <3>6, <3>7
    <2> QED
      BY <2>1, <2>2, <2>3, <2>4, <2>5, <2>6, <2>7
  <1> QED
    BY <1>3, <1>4

\* The results cover the plans, and after a stop all the calls.
LEMMA ResultsFacts ==
  ASSUME StepTypes
  PROVE  /\ Results \in Seq(ToolId)
         /\ \A i \in DOMAIN plans : plans[i].id \in ToSet(Results)
         /\ toolStop => \A j \in DOMAIN acc.calls : acc.calls[j].id \in ToSet(Results)
  <1> DEFINE ran == [i \in DOMAIN plans |-> plans[i].id]
             ids == [i \in DOMAIN acc.calls |-> acc.calls[i].id]
             rest == {i \in DOMAIN ids : ids[i] \notin ToSet(ran)}
             tail == IF toolStop THEN Picked(ids, rest) ELSE <<>>
  <1>0. plans \in Seq(ToolPlan) /\ acc.calls \in Seq(Call)
    BY DEF StepTypes, Accum
  <1>1. Results = ran \o tail
    BY DEF Results
  <1>2. ran \in Seq(ToolId)
    <2>1. \A i \in DOMAIN plans : plans[i] \in ToolPlan
      BY <1>0
    <2>2. \A i \in DOMAIN plans : plans[i].id \in ToolId
      BY <2>1 DEF ToolPlan
    <2>3. DOMAIN plans = 1..Len(plans) /\ Len(plans) \in Nat
      BY <1>0
    <2>4. ran \in [1..Len(plans) -> ToolId]
      BY <2>2, <2>3
    <2> QED
      BY <2>3, <2>4, SeqDef
  <1> DEFINE n == Len(acc.calls)
  <1>3. n \in Nat /\ DOMAIN acc.calls = 1..n
    BY <1>0
  <1>4. \A i \in 1..n : acc.calls[i] \in Call
    BY <1>0, <1>3
  <1>5. ids \in [1..n -> ToolId] /\ \A i \in 1..n : ids[i] = acc.calls[i].id
    BY <1>3, <1>4 DEF Call
  <1>6. \A i \in DOMAIN plans : i \in DOMAIN ran /\ ran[i] = plans[i].id
    OBVIOUS
  <1> HIDE DEF ran, ids, n
  <1>7. rest \in SUBSET (1..n) /\ \A i \in rest : ids[i] \in ToolId
    BY <1>5
  <1>8. Picked(ids, rest) \in Seq(ToolId)
    BY <1>3, <1>7, PickedFacts
  <1>9. \A i \in rest : ids[i] \in ToSet(Picked(ids, rest))
    BY <1>3, <1>7, PickedFacts
  <1>10. \A i \in 1..n : i \in rest \/ ids[i] \in ToSet(ran)
    BY <1>5
  <1> HIDE DEF rest
  <1>11. tail \in Seq(ToolId)
    BY <1>8
  <1>12. toolStop => \A i \in 1..n : ids[i] \in ToSet(tail) \/ ids[i] \in ToSet(ran)
    BY <1>9, <1>10
  <1> HIDE DEF tail
  <1>13. \A x \in ToSet(ran) \cup ToSet(tail) : x \in ToSet(ran \o tail)
    <2>1. ASSUME NEW i \in DOMAIN ran PROVE ran[i] \in ToSet(ran \o tail)
      <3>1. i \in DOMAIN (ran \o tail) /\ (ran \o tail)[i] = ran[i]
        BY <1>2, <1>11
      <3> QED
        BY <3>1 DEF ToSet
    <2>2. ASSUME NEW i \in DOMAIN tail PROVE tail[i] \in ToSet(ran \o tail)
      <3>1. /\ i + Len(ran) \in DOMAIN (ran \o tail)
            /\ (ran \o tail)[i + Len(ran)] = tail[i]
        BY <1>2, <1>11
      <3> QED
        BY <3>1 DEF ToSet
    <2> QED
      BY <2>1, <2>2 DEF ToSet
  <1>14. Results \in Seq(ToolId)
    BY <1>1, <1>2, <1>11
  <1>15. \A i \in DOMAIN plans : plans[i].id \in ToSet(ran)
    BY <1>6 DEF ToSet
  <1> QED
    BY <1>1, <1>3, <1>5, <1>12, <1>13, <1>14, <1>15

\* What is owed is paid once, at the model of the moment.
LEMMA RecordUsageFacts ==
  ASSUME NEW owed \in Seq(Model), mispriced \in BOOLEAN, RecordUsage(owed)
  PROVE  /\ MeterTypes'
         /\ owed = <<model>> => debt' = <<>> /\ mispriced' = mispriced
  <1> DEFINE at == {i \in DOMAIN owed : owed[i] = model}
             i == CHOOSE i \in at : TRUE
  <1>1. IF at = {} THEN mispriced' = TRUE /\ debt' = owed
        ELSE debt' = RemoveAt(owed, i) /\ mispriced' = mispriced
    BY DEF RecordUsage
  <1>2. CASE at = {}
    <2>1. mispriced' = TRUE /\ debt' = owed
      BY <1>1, <1>2
    <2>2. owed # <<model>>
      BY <1>2
    <2> HIDE DEF at
    <2> QED
      BY <2>1, <2>2 DEF MeterTypes
  <1>3. CASE at # {}
    <2>1. debt' = RemoveAt(owed, i) /\ mispriced' = mispriced
      BY <1>1, <1>3
    <2>2. i \in at
      BY <1>3
    <2>3. i \in 1..Len(owed) /\ Len(owed) \in Nat
      BY <2>2
    <2> HIDE DEF i, at
    <2>4. debt' = SubSeq(owed, 1, i - 1) \o SubSeq(owed, i + 1, Len(owed))
      BY <2>1 DEF RemoveAt
    <2>5. SubSeq(owed, 1, i - 1) \in Seq(Model) /\ SubSeq(owed, i + 1, Len(owed)) \in Seq(Model)
      BY <2>3
    <2>6. debt' \in Seq(Model)
      BY <2>4, <2>5
    <2>7. owed = <<model>> => debt' = <<>>
      BY <2>3, <2>4
    <2> QED
      BY <2>1, <2>6, <2>7 DEF MeterTypes
  <1> QED
    BY <1>2, <1>3

LEMMA LeaveFacts ==
  ASSUME LeaveStep
  PROVE  StepTypes'
  <1>1. /\ request' = NoRequest /\ attempts' = <<>> /\ acc' = EmptyAccum
        /\ plans' = <<>> /\ vote' = <<>> /\ toolStop' = FALSE /\ failed' = FALSE
    BY DEF LeaveStep
  <1>2. IsFiniteSet(acc'.blocks)
    BY <1>1, Constructors, FS_EmptySet
  <1>3. attempts' \in Seq(Failure) /\ plans' \in Seq(ToolPlan) /\ vote' \in Seq(Approvals)
    BY <1>1
  <1> QED
    BY <1>1, <1>2, <1>3, Constructors, Zenon DEF StepTypes

LEMMA EditFacts ==
  ASSUME ContextTypes, Edit \/ Load
  PROVE  /\ messages' \in Seq(Message) /\ model' \in Model /\ system' \in System
         /\ edits' \in Nat
         /\ messages' \in {messages, Append(messages, Plain), <<Plain>>} \cup History
  <1>1. Append(messages, Plain) \in Seq(Message) /\ <<Plain>> \in Seq(Message)
    BY Constructors DEF ContextTypes
  <1>2. \A h \in History : h \in Seq(Message)
    BY HistoryAssumption
  <1>3. /\ messages \in Seq(Message) /\ model \in Model /\ system \in System
        /\ edits \in Nat
    BY DEF ContextTypes
  <1>4. model' \in Model /\ system' \in System /\ edits' \in {edits, edits + 1}
    BY <1>3 DEF Edit, Load
  <1>5. messages' \in {messages, Append(messages, Plain), <<Plain>>} \cup History
    BY DEF Edit, Load
  <1>6. edits' \in Nat
    BY <1>3, <1>4
  <1>7. messages' \in Seq(Message)
    BY <1>1, <1>2, <1>3, <1>5
  <1> QED
    BY <1>4, <1>5, <1>6, <1>7

LEMMA PartialFacts ==
  ASSUME TypeOK, RecordPartial
  PROVE  /\ MeterTypes' /\ messages' \in Seq(Message)
         /\ messages' \in {messages, Append(messages, Plain)}
         /\ debt = <<model>> => debt' = <<>> /\ mispriced' = mispriced
  BY Constructors, RecordUsageFacts DEF RecordPartial, TypeOK, ContextTypes, MeterTypes

-----------------------------------------------------------------------------
(* The types                                                               *)

LEMMA SameTypes ==
  ASSUME TypeOK
  PROVE  /\ UNCHANGED contextVars => ContextTypes'
         /\ UNCHANGED replayVars => ReplayTypes'
         /\ UNCHANGED stepVars => StepTypes'
         /\ UNCHANGED meterVars => MeterTypes'
  <1>1. UNCHANGED contextVars => ContextTypes'
    BY DEF TypeOK, ContextTypes, contextVars
  <1>2. UNCHANGED replayVars => ReplayTypes'
    BY DEF TypeOK, ReplayTypes, replayVars
  <1>3. UNCHANGED stepVars => StepTypes'
    BY DEF TypeOK, StepTypes, stepVars
  <1>4. UNCHANGED meterVars => MeterTypes'
    BY DEF TypeOK, MeterTypes, meterVars
  <1> QED
    BY <1>1, <1>2, <1>3, <1>4

\* A hook returns, or the run ends.
LEMMA ReturnFacts ==
  ASSUME TypeOK, HookReturns
  PROVE  /\ StepTypes'
         /\ \/ /\ pc' = pc /\ k' = k + 1 /\ finish' = finish
            \/ /\ pc' = "on_finish" /\ k' = 0 /\ finish' = "stopped"
  BY SameTypes, LeaveFacts DEF HookReturns, EndRun

\* What may become of the variables of the loop itself.
LoopEffect ==
  /\ pc' \in Pc /\ k' \in {k, 0, k + 1} /\ steps' \in {steps, 0, steps + 1}
  /\ runs' \in {runs, runs + 1}
  /\ finish' \in {finish, "none", "stopped", "cancelled", "end_turn", "limit"}
  /\ mw' \in {mw, NumMw, 0} /\ started' \in {started, 0, started + 1}
  /\ open' \in {open, open \cup {k + 1}, open \ {k + 1}}

LEMMA LoopStepTypes ==
  ASSUME TypeOK, LoopEffect, installed' \in BOOLEAN, cancelled' \in BOOLEAN
  PROVE  LoopTypes'
  <1>1. /\ pc' \in Pc /\ k' \in Nat /\ steps' \in Nat /\ runs' \in Nat
        /\ mw' \in Nat /\ started' \in Nat /\ open' \in SUBSET Nat
    BY ConstantTypes DEF TypeOK, LoopTypes, LoopEffect
  <1>2. finish' \in {"none", "stopped", "cancelled", "end_turn", "limit"}
    BY DEF TypeOK, LoopTypes, LoopEffect
  <1> QED
    BY <1>1, <1>2 DEF LoopTypes

LEMMA StepLoop ==
  ASSUME TypeOK, Next
  PROVE  LoopEffect /\ installed' \in BOOLEAN /\ cancelled' \in BOOLEAN
  <1>0. pc \in Pc /\ installed \in BOOLEAN /\ cancelled \in BOOLEAN
    BY DEF TypeOK, LoopTypes
  <1> USE DEF LoopEffect, Pc, hookVars
  <1>1. CASE Run
    BY <1>0, <1>1 DEF Run
  <1>2. CASE SkillsFail \/ SkillsReady \/ Cancel
    BY <1>0, <1>2 DEF SkillsFail, SkillsReady, Cancel
  <1>3. CASE SkillsRestore \/ Done
    <2>1. LoopEffect /\ cancelled' = cancelled
      BY <1>0, <1>3 DEF SkillsRestore, Done, Restore
    <2>2. installed' = (mw = NumMw)
      BY <1>3 DEF SkillsRestore, Done, Restore
    <2>3. installed' \in BOOLEAN
      BY <2>2
    <2> QED
      BY <1>0, <2>1, <2>3
  <1>4. CASE OnStart
    <2>1. HookReturns
      BY <1>4 DEF OnStart
    <2>2. \/ pc' = pc /\ k' = k + 1 /\ finish' = finish
          \/ pc' = "on_finish" /\ k' = 0 /\ finish' = "stopped"
      BY <2>1, ReturnFacts
    <2> QED
      BY <1>0, <1>4, <2>2 DEF OnStart
  <1>5. CASE OnStep \/ OnStepDone
    <2>1. HookReturns
      BY <1>5 DEF OnStep, OnStepDone
    <2>2. \/ pc' = pc /\ k' = k + 1 /\ finish' = finish
          \/ pc' = "on_finish" /\ k' = 0 /\ finish' = "stopped"
      BY <2>1, ReturnFacts
    <2> QED
      BY <1>0, <1>5, <2>2 DEF OnStep, OnStepDone
  <1>6. CASE Bind \/ Top \/ Prepare \/ Attempt \/ InflightCancelled
    BY <1>0, <1>6 DEF Bind, Top, Prepare, Attempt, InflightCancelled, EndRun
  <1>7. CASE StreamCut \/ SettleInvalid
    BY <1>0, <1>7 DEF StreamCut, SettleInvalid, EndRun
  <1>8. CASE Settle
    <2>1. UNCHANGED <<k, installed, mw, started, open, steps, finish, cancelled, runs>>
          /\ pc' = "approve"
      BY <1>8 DEF Settle
    <2> QED
      BY <1>0, <2>1
  <1>9. CASE (\E v \in Approvals : Vote(v)) \/ Plan \/ VoteStop \/ Planned
    BY <1>0, <1>9 DEF Vote, Plan, VoteStop, Planned
  <1>10. CASE \E i \in DOMAIN plans : ToolStart(i) \/ ToolDone(i)
    BY <1>0, <1>10 DEF ToolStart, ToolDone
  <1>11. CASE Collect
    BY <1>0, <1>11 DEF Collect
  <1>12. CASE Decide
    <2>1. \/ pc' = "top" /\ k' = k /\ finish' = finish
          \/ pc' = "on_finish" /\ k' = 0 /\ finish' \in {"stopped", "end_turn", "limit"}
      BY <1>12 DEF Decide, EndRun
    <2> QED
      BY <1>0, <1>12, <2>1 DEF Decide
  <1>13. CASE OnFinish
    BY <1>0, <1>13 DEF OnFinish
  <1>14. CASE (\E f \in Failure : AttemptFails(f)) \/ AttemptEmpty
    BY <1>0, <1>14 DEF AttemptFails, AttemptEmpty, EndRun
  <1>15. CASE \E e \in Event : Ready(e) \/ Receive(e)
    <2>1. UNCHANGED <<k, installed, mw, started, open, steps, finish, cancelled, runs>>
          /\ pc' \in {"settle", "stream"}
      BY <1>15 DEF Ready, Receive, Take
    <2> QED
      BY <1>0, <2>1
  <1> QED
    BY <1>1, <1>2, <1>3, <1>4, <1>5, <1>6, <1>7, <1>8, <1>9, <1>10, <1>11, <1>12,
       <1>13, <1>14, <1>15 DEF Next, Loop, Provider

\* The turn of a settled step.
SettledTurn == messages' = messages \o Turn(acc, failed') /\ failed' \in BOOLEAN

LEMMA SettleFacts ==
  ASSUME TypeOK, Settle
  PROVE  /\ SettledTurn /\ messages' \in Seq(Message)
         /\ UNCHANGED <<model, system, skills, edits>>
         /\ ContextTypes'
  <1>1. /\ failed' = TerminalFailure(acc.stop, Calls(acc))
        /\ messages' = messages \o Turn(acc, failed')
        /\ UNCHANGED <<model, system, skills, edits>>
    BY DEF Settle
  <1>2. failed' \in BOOLEAN
    BY <1>1 DEF TerminalFailure
  <1>3. /\ acc \in Accum /\ IsFiniteSet(acc.blocks) /\ messages \in Seq(Message)
    BY DEF TypeOK, StepTypes, ContextTypes
  <1>4. Turn(acc, failed') \in Seq(Message)
    BY <1>2, <1>3, TurnFacts
  <1>5. messages' \in Seq(Message)
    BY <1>1, <1>3, <1>4
  <1> QED
    BY <1>1, <1>2, <1>5 DEF SettledTurn, TypeOK, ContextTypes

LEMMA CollectFacts ==
  ASSUME TypeOK, Collect
  PROVE  /\ messages' \in Seq(Message) /\ UNCHANGED <<model, system, skills, edits>>
         /\ IF Results = <<>> THEN messages' = messages
            ELSE \E m \in Message : /\ messages' = Append(messages, m)
                                    /\ m.uses = <<>> /\ m.results = Results
  <1> DEFINE m == [Plain EXCEPT !.results = Results]
  <1>1. /\ messages' = IF Results = <<>> THEN messages ELSE Append(messages, m)
        /\ UNCHANGED <<model, system, skills, edits>>
    BY DEF Collect
  <1>2. Results \in Seq(ToolId)
    BY ResultsFacts DEF TypeOK
  <1>3. m \in Message /\ m.uses = <<>> /\ m.results = Results
    BY <1>2, Constructors DEF Message
  <1> HIDE DEF m
  <1> QED
    BY <1>1, <1>3 DEF TypeOK, ContextTypes

LEMMA StepContext ==
  ASSUME TypeOK, Next
  PROVE  ContextTypes'
  <1>0. ContextTypes
    BY DEF TypeOK
  <1>1. CASE OnStart \/ OnStep \/ OnStepDone
    <2>1. (Edit \/ Load) /\ UNCHANGED skills
      BY <1>1 DEF OnStart, OnStep, OnStepDone
    <2> QED
      BY <1>0, <2>1, EditFacts DEF ContextTypes
  <1>2. CASE SkillsReady
    <2>1. skills' \in {skills, TRUE} /\ UNCHANGED <<messages, model, system, edits>>
      BY <1>2 DEF SkillsReady
    <2>2. skills' \in BOOLEAN
      BY <1>0, <2>1, Zenon DEF ContextTypes
    <2> QED
      BY <1>0, <2>1, <2>2 DEF ContextTypes
  <1>3. CASE StreamCut \/ SettleInvalid
    <2>1. RecordPartial /\ UNCHANGED <<model, system, skills, edits>>
      BY <1>3 DEF StreamCut, SettleInvalid
    <2> QED
      BY <1>0, <2>1, PartialFacts DEF ContextTypes
  <1>4. CASE Settle
    BY <1>4, SettleFacts
  <1>5. CASE Collect
    BY <1>0, <1>5, CollectFacts DEF ContextTypes
  <1>6. CASE Run \/ SkillsFail \/ SkillsRestore \/ Bind \/ Top \/ Prepare \/ Attempt
    BY <1>6, SameTypes DEF Run, SkillsFail, SkillsRestore, Bind, Top, Prepare, Attempt
  <1>7. CASE InflightCancelled \/ (\E v \in Approvals : Vote(v)) \/ Plan \/ VoteStop \/ Planned
    BY <1>7, SameTypes DEF InflightCancelled, Vote, Plan, VoteStop, Planned
  <1>8. CASE (\E i \in DOMAIN plans : ToolStart(i) \/ ToolDone(i)) \/ Decide \/ OnFinish
             \/ Done \/ Cancel
    BY <1>8, SameTypes DEF ToolStart, ToolDone, Decide, OnFinish, Done, Cancel
  <1>9. CASE (\E f \in Failure : AttemptFails(f)) \/ AttemptEmpty
             \/ (\E e \in Event : Ready(e) \/ Receive(e))
    BY <1>9, SameTypes DEF AttemptFails, AttemptEmpty, Ready, Receive
  <1> QED
    BY <1>1, <1>2, <1>3, <1>4, <1>5, <1>6, <1>7, <1>8, <1>9 DEF Next, Loop, Provider

\* Signed content that a step binds, with its context.
Binds(b) == binding' = {b} /\ attested' = attested \cup {b}

\* What may become of the bindings.
LEMMA StepReplay ==
  ASSUME TypeOK, Next
  PROVE  \/ UNCHANGED replayVars
         \/ /\ pc = "on_start" /\ pc' = "top" /\ binding = {}
            /\ Binds([context |-> Context, messages |-> messages])
         \/ /\ pc = "settle" /\ pc' = "approve" /\ SettledTurn
            /\ Binds([context |-> request.context, messages |-> messages'])
  <1>1. CASE Bind
    BY <1>1 DEF Bind, Binds
  <1>2. CASE Settle
    <2>1. SettledTurn
      BY <1>2, SettleFacts
    <2> QED
      BY <1>2, <2>1 DEF Settle, Binds
  <1>3. CASE OnStart \/ OnStep \/ OnStepDone \/ SkillsReady \/ StreamCut \/ SettleInvalid
             \/ Collect
    BY <1>3 DEF OnStart, OnStep, OnStepDone, SkillsReady, StreamCut, SettleInvalid, Collect
  <1>6. CASE Run \/ SkillsFail \/ SkillsRestore \/ Top \/ Prepare \/ Attempt
    BY <1>6 DEF Run, SkillsFail, SkillsRestore, Top, Prepare, Attempt
  <1>7. CASE InflightCancelled \/ (\E v \in Approvals : Vote(v)) \/ Plan \/ VoteStop \/ Planned
    BY <1>7 DEF InflightCancelled, Vote, Plan, VoteStop, Planned
  <1>8. CASE (\E i \in DOMAIN plans : ToolStart(i) \/ ToolDone(i)) \/ Decide \/ OnFinish
             \/ Done \/ Cancel
    BY <1>8 DEF ToolStart, ToolDone, Decide, OnFinish, Done, Cancel
  <1>9. CASE (\E f \in Failure : AttemptFails(f)) \/ AttemptEmpty
             \/ (\E e \in Event : Ready(e) \/ Receive(e))
    BY <1>9 DEF AttemptFails, AttemptEmpty, Ready, Receive
  <1> QED
    BY <1>1, <1>2, <1>3, <1>6, <1>7, <1>8, <1>9 DEF Next, Loop, Provider

LEMMA ReplayStepTypes ==
  ASSUME TypeOK, Next
  PROVE  ReplayTypes'
  <1>1. CASE UNCHANGED replayVars
    BY <1>1, SameTypes
  <1>2. ASSUME NEW b \in Exchange, Binds(b) PROVE ReplayTypes'
    BY <1>2 DEF Binds, TypeOK, ReplayTypes
  <1>3. Context \in [model : Model, system : System, tools : BOOLEAN]
    BY DEF Context, TypeOK, ContextTypes
  <1>4. messages' \in Seq(Message) /\ messages \in Seq(Message)
    BY StepContext DEF ContextTypes, TypeOK
  <1>5. [context |-> Context, messages |-> messages] \in Exchange
    BY <1>3, <1>4 DEF Exchange
  <1>6. request.context \in [model : Model, system : System, tools : BOOLEAN]
    BY DEF TypeOK, StepTypes, Exchange
  <1>7. [context |-> request.context, messages |-> messages'] \in Exchange
    BY <1>4, <1>6 DEF Exchange
  <1> QED
    BY <1>1, <1>2, <1>5, <1>7, StepReplay

\* The next call is planned with everybody's votes.
LEMMA PlanFacts ==
  ASSUME TypeOK, Plan
  PROVE  LET c == acc.calls[Len(plans) + 1]
             p == [id |-> c.id, skip |-> Denied(vote) \/ c.bad, votes |-> vote,
                   st |-> "waiting"]
         IN  /\ plans' = Append(plans, p) /\ p \in ToolPlan /\ c \in Call
             /\ p.id = c.id /\ p.votes = vote /\ p.st = "waiting"
             /\ ~ p.skip => ~ Denied(vote) /\ ~ c.bad
             /\ plans' \in Seq(ToolPlan) /\ vote' \in Seq(Approvals)
             /\ UNCHANGED <<request, attempts, acc, toolStop, failed>>
  <1> DEFINE c == acc.calls[Len(plans) + 1]
             s == Denied(vote) \/ c.bad
             p == [id |-> c.id, skip |-> s, votes |-> vote, st |-> "waiting"]
  <1>1. /\ plans' = Append(plans, p) /\ vote' = <<>> /\ Len(plans) < Len(acc.calls)
        /\ UNCHANGED <<request, attempts, acc, toolStop, failed>>
    BY DEF Plan
  <1>2. plans \in Seq(ToolPlan) /\ acc.calls \in Seq(Call) /\ vote \in Seq(Approvals)
    BY DEF TypeOK, StepTypes, Accum
  <1>3. c \in Call
    BY <1>1, <1>2
  <1>4. s \in BOOLEAN /\ (~ s => ~ Denied(vote) /\ ~ c.bad)
    OBVIOUS
  <1> HIDE DEF c, s
  <1>5. /\ p \in ToolPlan /\ p.id = c.id /\ p.votes = vote /\ p.st = "waiting"
        /\ p.skip = s
    BY <1>2, <1>3, <1>4 DEF ToolPlan, Call
  <1> HIDE DEF p
  <1>6. plans' \in Seq(ToolPlan) /\ vote' \in Seq(Approvals)
    BY <1>1, <1>2, <1>5
  <1> QED
    BY <1>1, <1>3, <1>4, <1>5, <1>6 DEF c, s, p

\* A call is started, or returns: only its `st` changes.
LEMMA ToolFacts ==
  ASSUME TypeOK, NEW i \in DOMAIN plans, ToolStart(i) \/ ToolDone(i)
  PROVE  /\ plans' \in Seq(ToolPlan) /\ Len(plans') = Len(plans)
         /\ DOMAIN plans' = DOMAIN plans
         /\ UNCHANGED <<request, attempts, acc, vote, toolStop, failed>>
         /\ \A j \in DOMAIN plans : j # i => plans'[j] = plans[j]
         /\ plans'[i].id = plans[i].id /\ plans'[i].skip = plans[i].skip
         /\ plans'[i].votes = plans[i].votes
         /\ \/ plans'[i].st = "skipped"
            \/ plans'[i].st = "running" /\ ~ plans[i].skip
            \/ plans'[i].st = "done" /\ plans[i].st = "running"
  <1>0. plans \in Seq(ToolPlan) /\ plans[i] \in ToolPlan
    BY DEF TypeOK, StepTypes
  <1>1. PICK st \in {"skipped", "running", "done"} :
           /\ plans' = [plans EXCEPT ![i].st = st]
           /\ \/ st = "skipped"
              \/ st = "running" /\ ~ plans[i].skip
              \/ st = "done" /\ plans[i].st = "running"
    BY DEF ToolStart, ToolDone
  <1> DEFINE new == [plans[i] EXCEPT !.st = st]
  <1>2. plans' = [plans EXCEPT ![i] = new]
    BY <1>0, <1>1
  <1>3. /\ new \in ToolPlan /\ new.st = st /\ new.id = plans[i].id
        /\ new.skip = plans[i].skip /\ new.votes = plans[i].votes
    BY <1>0 DEF ToolPlan
  <1> HIDE DEF new
  <1>4. /\ plans' \in Seq(ToolPlan) /\ Len(plans') = Len(plans)
        /\ DOMAIN plans' = DOMAIN plans /\ plans'[i] = new
        /\ \A j \in DOMAIN plans : j # i => plans'[j] = plans[j]
    BY <1>0, <1>2, <1>3
  <1>5. UNCHANGED <<request, attempts, acc, vote, toolStop, failed>>
    BY DEF ToolStart, ToolDone
  <1> QED
    BY <1>1, <1>3, <1>4, <1>5

LEMMA SettledAccum ==
  ASSUME TypeOK, Settle
  PROVE  /\ acc' \in Accum /\ IsFiniteSet(acc'.blocks) /\ acc'.stop = acc.stop
         /\ acc'.calls = IF failed' THEN <<>> ELSE Calls(acc)
  <1>0. acc \in Accum /\ IsFiniteSet(acc.blocks) /\ failed' \in BOOLEAN
    BY SettleFacts DEF TypeOK, StepTypes, SettledTurn
  <1>1. Calls(acc) \in Seq(Call)
    BY <1>0, CallsType
  <1>2. acc' = IF failed' THEN [acc EXCEPT !.calls = <<>>, !.blocks = {}]
               ELSE [acc EXCEPT !.calls = Calls(acc)]
    BY DEF Settle
  <1>3. CASE failed'
    <2>1. acc' = [acc EXCEPT !.calls = <<>>, !.blocks = {}]
      BY <1>2, <1>3
    <2> DEFINE a == [acc EXCEPT !.calls = <<>>]
    <2>2. acc' = [a EXCEPT !.blocks = {}]
      BY <2>1
    <2>3. <<>> \in Seq(Call) /\ {} \in SUBSET Block
      OBVIOUS
    <2>4. a \in Accum /\ a.calls = <<>> /\ a.stop = acc.stop
      BY <1>0, <2>3 DEF Accum
    <2> HIDE DEF a
    <2>5. acc' \in Accum /\ acc'.blocks = {} /\ acc'.calls = <<>> /\ acc'.stop = acc.stop
      BY <2>2, <2>3, <2>4 DEF Accum
    <2> QED
      BY <1>3, <2>5, FS_EmptySet
  <1>4. CASE ~ failed'
    <2> DEFINE cs == Calls(acc)
    <2>1. acc' = [acc EXCEPT !.calls = cs]
      BY <1>2, <1>4
    <2> HIDE DEF cs
    <2>2. cs \in Seq(Call)
      BY <1>1 DEF cs
    <2>3. /\ acc' \in Accum /\ acc'.blocks = acc.blocks /\ acc'.calls = cs
          /\ acc'.stop = acc.stop
      BY <1>0, <2>1, <2>2 DEF Accum
    <2> QED
      BY <1>0, <1>4, <2>3 DEF cs
  <1> QED
    BY <1>0, <1>3, <1>4

LEMMA StepStep ==
  ASSUME TypeOK, Next
  PROVE  StepTypes'
  <1>0. StepTypes
    BY DEF TypeOK
  <1>1. CASE \/ Run \/ SkillsFail \/ SkillsRestore \/ SkillsReady \/ Bind \/ Planned
             \/ Collect \/ OnFinish \/ Done \/ Cancel
    BY <1>1, SameTypes DEF Run, SkillsFail, SkillsRestore, SkillsReady, Bind, Planned,
       Collect, OnFinish, Done, Cancel
  <1>2. CASE OnStart \/ OnStep \/ OnStepDone
    BY <1>2, ReturnFacts DEF OnStart, OnStep, OnStepDone
  <1>3. CASE InflightCancelled \/ StreamCut \/ SettleInvalid \/ AttemptEmpty \/ Decide
    BY <1>3, LeaveFacts
    DEF InflightCancelled, StreamCut, SettleInvalid, AttemptEmpty, Decide, EndRun
  <1>4. CASE Top \/ Attempt
    BY <1>4, SameTypes, LeaveFacts DEF Top, Attempt, EndRun
  <1>5. CASE Prepare
    <2>1. CASE LeaveStep
      BY <2>1, LeaveFacts
    <2>2. CASE ~ LeaveStep
      <3>1. /\ request' = [context |-> Context, messages |-> messages]
            /\ UNCHANGED <<attempts, acc, plans, vote, toolStop, failed>>
        BY <1>5, <2>2 DEF Prepare, EndRun
      <3>2. Context \in [model : Model, system : System, tools : BOOLEAN]
        BY DEF Context, TypeOK, ContextTypes
      <3>3. request' \in Exchange
        BY <3>1, <3>2 DEF Exchange, TypeOK, ContextTypes
      <3> QED
        BY <1>0, <3>1, <3>3 DEF StepTypes
    <2> QED
      BY <2>1, <2>2
  <1>6. ASSUME NEW f \in Failure, AttemptFails(f) PROVE StepTypes'
    <2>1. CASE LeaveStep
      BY <2>1, LeaveFacts
    <2>2. CASE ~ LeaveStep
      <3>1. /\ attempts' = Append(attempts, f)
            /\ UNCHANGED <<request, acc, plans, vote, toolStop, failed>>
        BY <1>6, <2>2 DEF AttemptFails, EndRun
      <3>2. attempts' \in Seq(Failure)
        BY <1>0, <3>1 DEF StepTypes
      <3> QED
        BY <1>0, <3>1, <3>2 DEF StepTypes
    <2> QED
      BY <2>1, <2>2
  <1>7. CASE Settle
    <2>1. /\ plans' = <<>> /\ vote' = <<>> /\ toolStop' = FALSE /\ request' = NoRequest
          /\ attempts' = attempts
      BY <1>7 DEF Settle
    <2>2. /\ acc' \in Accum /\ IsFiniteSet(acc'.blocks) /\ failed' \in BOOLEAN
      BY <1>7, SettledAccum, SettleFacts DEF SettledTurn
    <2>3. plans' \in Seq(ToolPlan) /\ vote' \in Seq(Approvals)
      BY <2>1
    <2> QED
      BY <1>0, <2>1, <2>2, <2>3, Constructors, Zenon DEF StepTypes
  <1>8. ASSUME NEW v \in Approvals, Vote(v) PROVE StepTypes'
    <2>1. vote' = Append(vote, v)
          /\ UNCHANGED <<request, attempts, acc, plans, toolStop, failed>>
      BY <1>8 DEF Vote
    <2>2. vote' \in Seq(Approvals)
      BY <1>0, <2>1 DEF StepTypes
    <2> QED
      BY <1>0, <2>1, <2>2 DEF StepTypes
  <1>9. CASE Plan
    <2>1. /\ plans' \in Seq(ToolPlan) /\ vote' \in Seq(Approvals)
          /\ UNCHANGED <<request, attempts, acc, toolStop, failed>>
      BY <1>9, PlanFacts
    <2> QED
      BY <1>0, <2>1 DEF StepTypes
  <1>10. CASE VoteStop
    <2>1. toolStop' = TRUE /\ UNCHANGED <<request, attempts, acc, plans, vote, failed>>
      BY <1>10 DEF VoteStop
    <2> QED
      BY <1>0, <2>1, Zenon DEF StepTypes
  <1>11. ASSUME NEW i \in DOMAIN plans, ToolStart(i) \/ ToolDone(i) PROVE StepTypes'
    <2>1. /\ plans' \in Seq(ToolPlan)
          /\ UNCHANGED <<request, attempts, acc, vote, toolStop, failed>>
      BY <1>11, ToolFacts
    <2> QED
      BY <1>0, <2>1 DEF StepTypes
  <1>12. ASSUME NEW e \in Event, Ready(e) \/ Receive(e) PROVE StepTypes'
    <2>1. /\ acc' \in {Apply(EmptyAccum, e), Apply(acc, e)}
          /\ attempts' \in {<<>>, attempts}
          /\ UNCHANGED <<request, plans, vote, toolStop, failed>>
      BY <1>12 DEF Ready, Receive, Take
    <2>2. Apply(acc, e) \in Accum /\ IsFiniteSet(Apply(acc, e).blocks)
      BY <1>0, ApplyFacts DEF StepTypes
    <2>3. Apply(EmptyAccum, e) \in Accum /\ IsFiniteSet(Apply(EmptyAccum, e).blocks)
      BY Constructors, FS_EmptySet, ApplyFacts
    <2>4. acc' \in Accum /\ IsFiniteSet(acc'.blocks)
      BY <2>1, <2>2, <2>3
    <2>5. attempts' \in Seq(Failure)
      <3>1. attempts \in Seq(Failure) /\ <<>> \in Seq(Failure)
        BY <1>0 DEF StepTypes
      <3> QED
        BY <2>1, <3>1
    <2> QED
      BY <1>0, <2>1, <2>4, <2>5 DEF StepTypes
  <1> QED
    BY <1>1, <1>2, <1>3, <1>4, <1>5, <1>6, <1>7, <1>8, <1>9, <1>10, <1>11, <1>12
    DEF Next, Loop, Provider

LEMMA StepMeter ==
  ASSUME TypeOK, Next
  PROVE  MeterTypes'
  <1>0. /\ debt \in Seq(Model) /\ mispriced \in BOOLEAN /\ request.context.model \in Model
    BY DEF TypeOK, MeterTypes, StepTypes, Exchange
  <1>1. Append(debt, request.context.model) \in Seq(Model)
    BY <1>0
  <1>2. CASE InflightCancelled
    BY <1>0, <1>1, <1>2, RecordUsageFacts DEF InflightCancelled
  <1>3. CASE StreamCut \/ SettleInvalid
    BY <1>3, PartialFacts DEF StreamCut, SettleInvalid
  <1>4. CASE Settle
    BY <1>0, <1>4, RecordUsageFacts DEF Settle
  <1>5. CASE \E e \in Event : Ready(e)
    <2>1. debt' = Append(debt, request.context.model) /\ mispriced' = mispriced
      BY <1>5 DEF Ready
    <2> QED
      BY <1>0, <1>1, <2>1 DEF MeterTypes
  <1>6. CASE UNCHANGED meterVars
    BY <1>6, SameTypes
  <1>7. InflightCancelled \/ StreamCut \/ SettleInvalid \/ Settle \/ (\E e \in Event : Ready(e))
        \/ UNCHANGED meterVars
    <2>1. Next => \/ InflightCancelled \/ StreamCut \/ SettleInvalid \/ Settle
                  \/ (\E e \in Event : Ready(e) \/ Receive(e))
                  \/ Run \/ SkillsFail \/ SkillsRestore \/ SkillsReady \/ OnStart \/ Bind
                  \/ Top \/ OnStep \/ Prepare \/ Attempt
                  \/ (\E v \in Approvals : Vote(v)) \/ Plan \/ VoteStop \/ Planned
                  \/ (\E i \in DOMAIN plans : ToolStart(i) \/ ToolDone(i))
                  \/ Collect \/ OnStepDone \/ Decide \/ OnFinish \/ Done \/ Cancel
                  \/ (\E f \in Failure : AttemptFails(f)) \/ AttemptEmpty
      BY DEF Next, Loop, Provider
    <2> QED
      BY <2>1 DEF Receive, Run, SkillsFail, SkillsRestore, SkillsReady, OnStart, Bind,
         Top, OnStep, Prepare, Attempt, Vote, Plan, VoteStop, Planned, ToolStart, ToolDone,
         Collect, OnStepDone, Decide, OnFinish, Done, Cancel, AttemptFails, AttemptEmpty
  <1> QED
    BY <1>2, <1>3, <1>4, <1>5, <1>6, <1>7

LEMMA InitType == Init => TypeOK
  <1> SUFFICES ASSUME Init PROVE TypeOK
    OBVIOUS
  <1>1. LoopTypes
    BY DEF Init, LoopTypes, Pc
  <1>2. ContextTypes
    <2>1. <<Plain>> \in Seq(Message)
      BY Constructors
    <2> QED
      BY <2>1, ConstantTypes DEF Init, ContextTypes
  <1>3. StepTypes
    <2>1. IsFiniteSet(acc.blocks)
      BY Constructors, FS_EmptySet DEF Init
    <2>2. attempts \in Seq(Failure) /\ plans \in Seq(ToolPlan) /\ vote \in Seq(Approvals)
      BY DEF Init
    <2> QED
      BY <2>1, <2>2, Constructors, Zenon DEF Init, StepTypes
  <1>4. ReplayTypes
    BY DEF Init, ReplayTypes
  <1>5. MeterTypes
    <2>1. debt = <<>> /\ mispriced = FALSE /\ <<>> \in Seq(Model)
      BY DEF Init
    <2> QED
      BY <2>1, Zenon DEF MeterTypes
  <1> QED
    BY <1>1, <1>2, <1>3, <1>4, <1>5 DEF TypeOK

LEMMA StepType == TypeOK /\ [Next]_vars => TypeOK'
  <1> SUFFICES ASSUME TypeOK, [Next]_vars PROVE TypeOK'
    OBVIOUS
  <1>1. CASE UNCHANGED vars
    <2>1. LoopTypes'
      BY <1>1 DEF TypeOK, LoopTypes, vars
    <2>2. UNCHANGED <<contextVars, replayVars, stepVars, meterVars>>
      BY <1>1 DEF vars, contextVars, replayVars, stepVars, meterVars
    <2> QED
      BY <2>1, <2>2, SameTypes DEF TypeOK
  <1>2. CASE Next
    BY <1>2, StepLoop, LoopStepTypes, StepContext, ReplayStepTypes, StepStep, StepMeter
    DEF TypeOK
  <1> QED
    BY <1>1, <1>2

\* Every variable of the agent loop has its type in every reachable state.
THEOREM TypeCorrect == Spec => []TypeOK
  BY InitType, StepType, PTL DEF Spec

-----------------------------------------------------------------------------
(* The bill                                                                *)

Places == Asking \cup Reading \cup Acting

\* A step that ends the run or the step with nothing owed.
LEMMA BillLeft ==
  ASSUME LeaveStep, pc' \notin Places, debt' = <<>>, ~ mispriced'
  PROVE  BillInv'
  <1>1. attempts' = <<>> /\ acc' = EmptyAccum
    BY DEF LeaveStep
  <1>2. Len(attempts') = 0 /\ DOMAIN attempts' = {}
    BY <1>1
  <1>3. Len(attempts') <= MaxRetries
    BY <1>2, ConstantTypes
  <1> QED
    BY <1>1, <1>2, <1>3 DEF BillInv, Places

\* A step that has nothing to do with requests.
LEMMA BillSame ==
  ASSUME BillInv, UNCHANGED <<attempts, acc, debt, mispriced>>,
         pc \notin Asking \cup Reading, pc' \notin Asking \cup Reading,
         pc \in Acting => pc' \in Acting
  PROVE  BillInv'
  BY DEF BillInv

LEMMA InitBill == Init => BillInv
  <1> SUFFICES ASSUME Init PROVE BillInv
    OBVIOUS
  <1>1. /\ attempts = <<>> /\ debt = <<>> /\ ~ mispriced /\ acc = EmptyAccum
        /\ pc \notin Places
    BY DEF Init, Places, Asking, Reading, Acting
  <1>2. Len(attempts) = 0 /\ DOMAIN attempts = {}
    BY <1>1
  <1>3. Len(attempts) <= MaxRetries
    BY <1>2, ConstantTypes
  <1> QED
    BY <1>1, <1>2, <1>3 DEF BillInv, Places

LEMMA StepBill == TypeOK /\ BillInv /\ [Next]_vars => BillInv'
  <1> SUFFICES ASSUME TypeOK, BillInv, [Next]_vars PROVE BillInv'
    OBVIOUS
  <1> USE DEF Places, Asking, Reading, Acting
  <1>0. /\ debt \in Seq(Model) /\ mispriced \in BOOLEAN /\ attempts \in Seq(Failure)
        /\ model \in Model
    BY DEF TypeOK, MeterTypes, StepTypes, ContextTypes
  <1>1. /\ ~ mispriced
        /\ pc \in Reading => debt = <<model>>
        /\ pc \notin Reading => debt = <<>>
        /\ pc \in Asking \cup Reading => request.context.model = model
        /\ pc \notin Asking => attempts = <<>>
    BY DEF BillInv
  <1>2. CASE Run \/ SkillsFail \/ SkillsRestore \/ SkillsReady \/ Bind \/ OnFinish \/ Done
    <2>1. /\ UNCHANGED <<attempts, acc, debt, mispriced>>
          /\ pc \notin Places /\ pc' \notin Places
      BY <1>2 DEF Run, SkillsFail, SkillsRestore, SkillsReady, Bind, OnFinish, Done, Restore,
         stepVars, meterVars
    <2> QED
      BY <2>1, BillSame
  <1>3. CASE OnStart \/ OnStep \/ OnStepDone
    <2>1. HookReturns /\ UNCHANGED meterVars /\ pc \notin Asking \cup Reading
      BY <1>3 DEF OnStart, OnStep, OnStepDone
    <2>2. CASE EndRun("stopped")
      BY <1>1, <2>1, <2>2, BillLeft DEF EndRun, meterVars
    <2>3. CASE UNCHANGED <<pc, finish, stepVars>>
      BY <2>1, <2>3, BillSame DEF stepVars, meterVars
    <2> QED
      BY <2>1, <2>2, <2>3 DEF HookReturns
  <1>4. CASE Top
    <2>1. pc = "top" /\ UNCHANGED meterVars
      BY <1>4 DEF Top
    <2>2. CASE LeaveStep
      BY <1>1, <1>4, <2>1, <2>2, BillLeft DEF Top, EndRun, meterVars
    <2>3. CASE ~ LeaveStep
      BY <1>4, <2>1, <2>3, BillSame DEF Top, EndRun, stepVars, meterVars
    <2> QED
      BY <2>2, <2>3
  <1>5. CASE Prepare
    <2>1. pc = "on_step" /\ UNCHANGED <<meterVars, model>>
      BY <1>5 DEF Prepare, contextVars
    <2>2. CASE EndRun("stopped")
      BY <1>1, <2>1, <2>2, BillLeft DEF EndRun, meterVars
    <2>3. CASE ~ EndRun("stopped")
      <3>1. /\ request' = [context |-> Context, messages |-> messages]
            /\ pc' = "attempt" /\ UNCHANGED <<attempts, acc>>
        BY <1>5, <2>3 DEF Prepare
      <3>2. request'.context.model = model
        BY <3>1 DEF Context
      <3> QED
        BY <2>1, <3>1, <3>2 DEF BillInv, meterVars
    <2> QED
      BY <2>2, <2>3
  <1>6. CASE Attempt
    <2>1. pc = "attempt" /\ UNCHANGED <<meterVars, model>>
      BY <1>6 DEF Attempt, contextVars
    <2>2. CASE EndRun("cancelled")
      BY <1>1, <2>1, <2>2, BillLeft DEF EndRun, meterVars
    <2>3. CASE ~ EndRun("cancelled")
      <3>1. pc' = "inflight" /\ UNCHANGED <<attempts, acc, request>>
        BY <1>6, <2>3 DEF Attempt, stepVars
      <3> QED
        BY <2>1, <3>1 DEF BillInv, meterVars
    <2> QED
      BY <2>2, <2>3
  <1>7. CASE InflightCancelled
    <2>1. pc = "inflight" /\ EndRun("cancelled")
          /\ RecordUsage(Append(debt, request.context.model))
      BY <1>7 DEF InflightCancelled
    <2>2. Append(debt, request.context.model) = <<model>>
      BY <1>1, <2>1
    <2>3. <<model>> \in Seq(Model) /\ RecordUsage(<<model>>)
      BY <1>0, <2>1, <2>2
    <2>4. debt' = <<>> /\ mispriced' = mispriced
      BY <1>0, <2>3, RecordUsageFacts
    <2> QED
      BY <1>1, <2>1, <2>4, BillLeft DEF EndRun
  <1>8. CASE AttemptEmpty
    BY <1>1, <1>8, BillLeft DEF AttemptEmpty, EndRun, meterVars
  <1>9. ASSUME NEW f \in Failure, AttemptFails(f) PROVE BillInv'
    <2>1. pc = "inflight" /\ UNCHANGED <<meterVars, model>>
      BY <1>9 DEF AttemptFails, contextVars
    <2>2. CASE EndRun("stopped")
      BY <1>1, <2>1, <2>2, BillLeft DEF EndRun, meterVars
    <2>3. CASE ~ EndRun("stopped")
      <3>1. /\ attempts' = Append(attempts, f) /\ pc' = "attempt"
            /\ IsRetryable(f) /\ ~ LastAttempt(Len(attempts) + 1)
            /\ UNCHANGED <<request, acc>>
        BY <1>9, <2>3 DEF AttemptFails
      <3>2. Len(attempts') = Len(attempts) + 1 /\ Len(attempts) \in Nat
        BY <1>0, <3>1
      <3>3. Len(attempts') <= MaxRetries
        BY <3>1, <3>2, ConstantTypes DEF LastAttempt
      <3>4. \A i \in DOMAIN attempts' : IsRetryable(attempts'[i])
        <4> SUFFICES ASSUME NEW i \in DOMAIN attempts' PROVE IsRetryable(attempts'[i])
          OBVIOUS
        <4>1. (i \in DOMAIN attempts /\ attempts'[i] = attempts[i]) \/ attempts'[i] = f
          BY <1>0, <3>1
        <4> QED
          BY <3>1, <4>1 DEF BillInv
      <3> QED
        BY <2>1, <3>1, <3>3, <3>4 DEF BillInv, meterVars
    <2> QED
      BY <2>2, <2>3
  <1>10. ASSUME NEW e \in Event, Ready(e) PROVE BillInv'
    <2>1. /\ pc = "inflight" /\ pc' \in Reading /\ attempts' = <<>>
          /\ debt' = Append(debt, request.context.model)
          /\ UNCHANGED <<request, mispriced, model>>
      BY <1>10 DEF Ready, Take, contextVars
    <2>2. debt' = <<model>>
      BY <1>1, <2>1
    <2>3. Len(attempts') = 0 /\ DOMAIN attempts' = {} /\ Len(attempts') <= MaxRetries
      BY <2>1, ConstantTypes
    <2> QED
      BY <1>1, <2>1, <2>2, <2>3 DEF BillInv
  <1>11. ASSUME NEW e \in Event, Receive(e) PROVE BillInv'
    <2>1. /\ pc = "stream" /\ pc' \in Reading
          /\ UNCHANGED <<request, attempts, debt, mispriced, model>>
      BY <1>11 DEF Receive, Take, contextVars, meterVars
    <2> QED
      BY <2>1 DEF BillInv
  <1>12. CASE StreamCut \/ SettleInvalid
    <2>1. /\ pc \in Reading /\ RecordPartial /\ LeaveStep /\ pc' = "on_finish"
      BY <1>12 DEF StreamCut, SettleInvalid, EndRun
    <2>2. debt' = <<>> /\ mispriced' = mispriced
      BY <1>1, <2>1, PartialFacts
    <2> QED
      BY <1>1, <2>1, <2>2, BillLeft
  <1>13. CASE Settle
    <2>1. /\ pc = "settle" /\ pc' = "approve" /\ RecordUsage(debt) /\ UNCHANGED attempts
      BY <1>13 DEF Settle
    <2>2. debt' = <<>> /\ mispriced' = mispriced
      BY <1>0, <1>1, <2>1, RecordUsageFacts
    <2> QED
      BY <1>1, <2>1, <2>2 DEF BillInv
  <1>14. CASE \/ (\E v \in Approvals : Vote(v)) \/ Plan \/ VoteStop \/ Planned \/ Collect
              \/ (\E i \in DOMAIN plans : ToolStart(i) \/ ToolDone(i))
    <2>1. /\ pc \in Acting /\ pc' \in Acting /\ UNCHANGED <<attempts, acc, debt, mispriced>>
      BY <1>14 DEF Vote, Plan, VoteStop, Planned, Collect, ToolStart, ToolDone, meterVars,
         stepVars
    <2> QED
      BY <2>1, BillSame
  <1>15. CASE Decide
    <2>1. LeaveStep /\ pc = "on_step_done" /\ pc' \in {"top", "on_finish"} /\ UNCHANGED meterVars
      BY <1>15 DEF Decide, EndRun
    <2> QED
      BY <1>1, <2>1, BillLeft DEF meterVars
  <1>16. CASE Cancel \/ UNCHANGED vars
    <2>1. UNCHANGED <<pc, model, request, attempts, acc, debt, mispriced>>
      BY <1>16 DEF Cancel, vars, contextVars, stepVars, meterVars
    <2> QED
      BY <2>1 DEF BillInv
  <1> QED
    BY <1>2, <1>3, <1>4, <1>5, <1>6, <1>7, <1>8, <1>9, <1>10, <1>11, <1>12, <1>13, <1>14,
       <1>15, <1>16 DEF Next, Loop, Provider

\* Every response of the provider that was opened is metered exactly once, at
\* the model it was asked from, however it ends; and a request is tried again
\* only after failures worth retrying, at most max_retries times, and never
\* once an event of it has been folded in.  BillInv says what is owed at each
\* place of the loop, and that no hook changes the model while it is.
THEOREM AlwaysBilledOnce == Spec => []BilledOnce
  <1>1. TypeOK /\ BillInv => BilledOnce
    BY DEF BillInv, BilledOnce, MeteredOnce, RetriesBounded, Asking, Reading, Acting
  <1>2. Init => TypeOK /\ BillInv
    BY InitType, InitBill
  <1>3. (TypeOK /\ BillInv) /\ [Next]_vars => (TypeOK /\ BillInv)'
    BY StepType, StepBill
  <1> QED
    BY <1>1, <1>2, <1>3, PTL DEF Spec

-----------------------------------------------------------------------------
(* The context of signed content                                           *)

LEMMA PrefixIs ==
  ASSUME NEW S, NEW s \in Seq(S), NEW t \in Seq(S)
  PROVE  IsPrefix(s, t) <=> Len(s) <= Len(t) /\ \A i \in 1..Len(s) : s[i] = t[i]
  <1>1. CASE Len(s) <= Len(t)
    <2> DEFINE u == SubSeq(s, 1, Len(s))
               v == SubSeq(t, 1, Len(s))
    <2>1. /\ u \in Seq(S) /\ v \in Seq(S) /\ Len(u) = Len(s) /\ Len(v) = Len(s)
          /\ \A i \in 1..Len(s) : u[i] = s[i] /\ v[i] = t[i]
      BY <1>1
    <2>2. u = v <=> \A i \in 1..Len(s) : u[i] = v[i]
      <3> HIDE DEF u, v
      <3> QED
        BY <2>1, SeqEqual
    <2>3. IsPrefix(s, t) <=> u = v
      BY <1>1 DEF IsPrefix
    <2> HIDE DEF u, v
    <2> QED
      BY <1>1, <2>1, <2>2, <2>3
  <1>2. CASE ~ (Len(s) <= Len(t))
    BY <1>2 DEF IsPrefix
  <1> QED
    BY <1>1, <1>2

LEMMA PrefixTransitive ==
  ASSUME NEW S, NEW s \in Seq(S), NEW t \in Seq(S), NEW u \in Seq(S),
         IsPrefix(s, t), IsPrefix(t, u)
  PROVE  IsPrefix(s, u)
  <1>1. Len(s) \in Nat /\ Len(t) \in Nat /\ Len(u) \in Nat
    OBVIOUS
  <1>2. /\ Len(s) <= Len(t) /\ Len(t) <= Len(u)
        /\ \A i \in 1..Len(s) : s[i] = t[i]
        /\ \A i \in 1..Len(t) : t[i] = u[i]
    BY PrefixIs
  <1>3. Len(s) <= Len(u) /\ \A i \in 1..Len(s) : s[i] = u[i]
    BY <1>1, <1>2
  <1> QED
    BY <1>3, PrefixIs

LEMMA PrefixAppended ==
  ASSUME NEW S, NEW s \in Seq(S), NEW t \in Seq(S)
  PROVE  IsPrefix(s, s \o t) /\ IsPrefix(s, s)
  <1>1. s \o t \in Seq(S) /\ Len(s) <= Len(s \o t) /\ \A i \in 1..Len(s) : s[i] = (s \o t)[i]
    OBVIOUS
  <1>2. Len(s) <= Len(s)
    OBVIOUS
  <1> QED
    BY <1>1, <1>2, PrefixIs

\* Between Prepare and the end of the stream nothing touches the request, the
\* conversation or the bindings.
Open == Asking \cup Reading

LEMMA StepRequest ==
  ASSUME Next
  PROVE  \/ pc' \notin Open
         \/ pc \in Open /\ UNCHANGED <<request, contextVars, replayVars>>
         \/ /\ \A b \in binding : Accepts(b)
            /\ request' = [context |-> Context, messages |-> messages]
            /\ UNCHANGED <<contextVars, replayVars>>
  <1> USE DEF Open, Asking, Reading
  <1>1. CASE \/ Run \/ SkillsFail \/ SkillsRestore \/ SkillsReady \/ Bind \/ Top
             \/ InflightCancelled \/ AttemptEmpty \/ StreamCut \/ SettleInvalid \/ Settle
    BY <1>1 DEF Run, SkillsFail, SkillsRestore, Restore, SkillsReady, Bind, Top,
       InflightCancelled, AttemptEmpty, StreamCut, SettleInvalid, Settle, EndRun
  <1>2. CASE OnStart \/ OnStep \/ OnStepDone
    BY <1>2 DEF OnStart, OnStep, OnStepDone, HookReturns, EndRun
  <1>3. CASE \/ (\E v \in Approvals : Vote(v)) \/ Plan \/ VoteStop \/ Planned \/ Collect
             \/ (\E i \in DOMAIN plans : ToolStart(i) \/ ToolDone(i))
             \/ Decide \/ OnFinish \/ Done
    BY <1>3 DEF Vote, Plan, VoteStop, Planned, Collect, ToolStart, ToolDone, Decide, EndRun,
       OnFinish, Done, Restore
  <1>4. CASE Prepare
    BY <1>4 DEF Prepare, EndRun
  <1>5. CASE Attempt \/ Cancel
    BY <1>5 DEF Attempt, EndRun, Cancel, stepVars
  <1>6. CASE (\E f \in Failure : AttemptFails(f)) \/ (\E e \in Event : Ready(e) \/ Receive(e))
    BY <1>6 DEF AttemptFails, EndRun, Ready, Receive
  <1> QED
    BY <1>1, <1>2, <1>3, <1>4, <1>5, <1>6 DEF Next, Loop, Provider

LEMMA StepSign == TypeOK /\ SignInv /\ [Next]_vars => SignInv'
  <1> SUFFICES ASSUME TypeOK, SignInv, [Next]_vars PROVE SignInv'
    OBVIOUS
  <1>0. /\ binding \in SUBSET Exchange /\ attested \in SUBSET Exchange
        /\ request \in Exchange /\ messages \in Seq(Message)
    BY DEF TypeOK, ReplayTypes, StepTypes, ContextTypes
  <1>m. \A x \in Exchange : x.messages \in Seq(Message)
    BY DEF Exchange
  <1>1. CASE UNCHANGED vars
    <2>1. UNCHANGED <<binding, attested, pc, request, messages, model, system, skills>>
      BY <1>1 DEF vars
    <2> QED
      BY <2>1 DEF SignInv, Context
  <1>2. CASE Next
    <2> DEFINE First == binding' = {} => attested' = {}
               Latest == \A b \in binding' : \A s \in attested' :
                            b.context = s.context /\ IsPrefix(s.messages, b.messages)
               Repeats == pc' \in Open =>
                            /\ request' = [context |-> Context', messages |-> messages']
                            /\ \A s \in attested' :
                                  /\ request'.context = s.context
                                  /\ IsPrefix(s.messages, request'.messages)
    <2>1. First /\ Latest
      <3>1. CASE UNCHANGED replayVars
        BY <3>1 DEF SignInv, replayVars
      <3>2. CASE /\ binding = {}
                 /\ Binds([context |-> Context, messages |-> messages])
        <4> DEFINE b == [context |-> Context, messages |-> messages]
        <4>1. binding' = {b} /\ attested' = {b}
          BY <3>2 DEF SignInv, Binds
        <4>2. IsPrefix(b.messages, b.messages)
          BY <1>0, PrefixAppended
        <4> HIDE DEF b
        <4> QED
          BY <4>1, <4>2
      <3>3. CASE /\ pc = "settle" /\ SettledTurn
                 /\ Binds([context |-> request.context, messages |-> messages'])
        <4> DEFINE b == [context |-> request.context, messages |-> messages']
        <4>1. binding' = {b} /\ attested' = attested \cup {b}
          BY <3>3 DEF Binds
        <4>2. /\ b.context = request.context /\ b.messages = messages'
          OBVIOUS
        <4>3. /\ request.messages = messages
              /\ \A s \in attested : /\ request.context = s.context
                                     /\ IsPrefix(s.messages, request.messages)
          BY <3>3 DEF SignInv, Asking, Reading
        <4>4. messages' = messages \o Turn(acc, failed') /\ Turn(acc, failed') \in Seq(Message)
          BY <3>3, TurnFacts DEF SettledTurn, TypeOK, StepTypes
        <4>5. IsPrefix(messages, messages') /\ messages' \in Seq(Message)
          BY <1>0, <4>4, PrefixAppended
        <4>6. IsPrefix(b.messages, b.messages)
          BY <4>2, <4>5, PrefixAppended
        <4>7. ASSUME NEW s \in attested PROVE IsPrefix(s.messages, b.messages)
          <5>1. s.messages \in Seq(Message) /\ IsPrefix(s.messages, messages)
            BY <1>0, <1>m, <4>3
          <5> QED
            BY <1>0, <4>2, <4>5, <5>1, PrefixTransitive
        <4> HIDE DEF b
        <4> QED
          BY <4>1, <4>2, <4>3, <4>6, <4>7
      <3> QED
        BY <1>2, <3>1, <3>2, <3>3, StepReplay
    <2>2. Repeats
      <3>1. CASE pc' \notin Open
        BY <3>1
      <3>2. CASE pc \in Open /\ UNCHANGED <<request, contextVars, replayVars>>
        <4>1. UNCHANGED <<request, messages, model, system, skills, attested>>
          BY <3>2 DEF contextVars, replayVars
        <4>2. Context' = Context
          BY <4>1 DEF Context
        <4> QED
          BY <3>2, <4>1, <4>2 DEF SignInv, Open
      <3>3. CASE /\ \A b \in binding : Accepts(b)
                 /\ request' = [context |-> Context, messages |-> messages]
                 /\ UNCHANGED <<contextVars, replayVars>>
        <4>1. UNCHANGED <<messages, model, system, skills, binding, attested>>
          BY <3>3 DEF contextVars, replayVars
        <4>2. Context' = Context
          BY <4>1 DEF Context
        <4>3. request'.context = Context /\ request'.messages = messages
          BY <3>3
        <4>4. ASSUME NEW s \in attested
              PROVE  Context = s.context /\ IsPrefix(s.messages, messages)
          <5>1. PICK b \in binding : TRUE
            BY DEF SignInv
          <5>2. b.context = s.context /\ IsPrefix(s.messages, b.messages)
            BY DEF SignInv
          <5>3. b.context = Context /\ IsPrefix(b.messages, messages)
            BY <3>3 DEF Accepts
          <5>4. s.messages \in Seq(Message) /\ b.messages \in Seq(Message)
            BY <1>0, <1>m
          <5> QED
            BY <1>0, <5>2, <5>3, <5>4, PrefixTransitive
        <4> QED
          BY <3>3, <4>1, <4>2, <4>3, <4>4
      <3> QED
        BY <1>2, <3>1, <3>2, <3>3, StepRequest
    <2> QED
      BY <2>1, <2>2 DEF SignInv, Open
  <1> QED
    BY <1>1, <1>2

\* From the first signed block on, every request repeats the model, the system
\* prompt, the tools and the whole history of every signed turn before it, over
\* any number of turns, edits by hooks and runs.  SignInv adds that the single
\* ReplayBinding which the agent keeps contains all the earlier ones.
THEOREM SignedContextKept == Spec => []SignedContext
  <1>1. SignInv => SignedContext
    BY DEF SignInv, SignedContext, Asking, Reading
  <1>2. Init => TypeOK /\ SignInv
    <2>1. Init => SignInv
      BY DEF Init, SignInv, Asking, Reading
    <2> QED
      BY <2>1, InitType
  <1>3. (TypeOK /\ SignInv) /\ [Next]_vars => (TypeOK /\ SignInv)'
    BY StepType, StepSign
  <1> QED
    BY <1>1, <1>2, <1>3, PTL DEF Spec

-----------------------------------------------------------------------------
(* The gate before the tools                                               *)

\* A run holds all the middlewares from its first poll to its end.
HeldInv == (pc = "idle" => installed) /\ (pc # "idle" => mw = NumMw)

\* The plans are the first calls of a turn that ended with tool_use.
PlanOk(p, c) ==
  /\ p.id = c.id /\ Len(p.votes) = NumMw
  /\ ~ p.skip => ~ Denied(p.votes) /\ ~ c.bad
  /\ p.st \in {"running", "done"} => ~ p.skip

PlansInv ==
  /\ pc \in Acting /\ acc.calls # <<>> => acc.stop = "tool_use"
  /\ pc \notin Acting => plans = <<>>
  /\ Len(plans) <= Len(acc.calls)
  /\ \A i \in DOMAIN plans : PlanOk(plans[i], acc.calls[i])

LEMMA GateInvIs == GateInv <=> HeldInv /\ PlansInv
  BY DEF GateInv, HeldInv, PlansInv, PlanOk

LEMMA StepHeld == TypeOK /\ HeldInv /\ [Next]_vars => HeldInv'
  <1> SUFFICES ASSUME TypeOK, HeldInv, [Next]_vars PROVE HeldInv'
    OBVIOUS
  <1> DEFINE Goes == pc # "idle" /\ pc' # "idle" /\ mw' = mw
  <1>1. CASE Run
    <2>1. pc = "idle" /\ pc' = "skills" /\ mw' = IF installed THEN NumMw ELSE 0
      BY <1>1 DEF Run
    <2> QED
      BY <2>1 DEF HeldInv
  <1>2. CASE SkillsRestore \/ Done
    <2>1. pc # "idle" /\ pc' = "idle" /\ installed' = (mw = NumMw)
      BY <1>2 DEF SkillsRestore, Done, Restore
    <2>2. mw = NumMw
      BY <2>1 DEF HeldInv
    <2> QED
      BY <2>1, <2>2 DEF HeldInv
  <1>3. CASE Cancel \/ UNCHANGED vars
    <2>1. UNCHANGED <<pc, installed, mw>>
      BY <1>3 DEF Cancel, vars, hookVars
    <2> QED
      BY <2>1 DEF HeldInv
  <1>4. CASE \/ SkillsFail \/ SkillsReady \/ Bind \/ Top \/ Prepare \/ Attempt
             \/ InflightCancelled \/ AttemptEmpty \/ StreamCut \/ SettleInvalid \/ Settle
    <2>1. Goes
      BY <1>4 DEF SkillsFail, SkillsReady, Bind, Top, Prepare, Attempt, InflightCancelled,
         AttemptEmpty, StreamCut, SettleInvalid, Settle, EndRun, hookVars
    <2> QED
      BY <2>1 DEF HeldInv
  <1>5. CASE OnStart \/ OnStep \/ OnStepDone
    <2>1. Goes
      BY <1>5 DEF OnStart, OnStep, OnStepDone, HookReturns, EndRun, hookVars
    <2> QED
      BY <2>1 DEF HeldInv
  <1>6. CASE \/ (\E v \in Approvals : Vote(v)) \/ Plan \/ VoteStop \/ Planned \/ Collect
             \/ (\E i \in DOMAIN plans : ToolStart(i) \/ ToolDone(i)) \/ Decide \/ OnFinish
    <2>1. Goes
      BY <1>6 DEF Vote, Plan, VoteStop, Planned, Collect, ToolStart, ToolDone, Decide, EndRun,
         OnFinish, hookVars
    <2> QED
      BY <2>1 DEF HeldInv
  <1>7. CASE (\E f \in Failure : AttemptFails(f)) \/ (\E e \in Event : Ready(e) \/ Receive(e))
    <2>1. Goes
      BY <1>7 DEF AttemptFails, EndRun, Ready, Receive, Take, hookVars
    <2> QED
      BY <2>1 DEF HeldInv
  <1> QED
    BY <1>1, <1>2, <1>3, <1>4, <1>5, <1>6, <1>7 DEF Next, Loop, Provider

\* Without plans there is nothing to gate.
LEMMA NoPlans ==
  ASSUME TypeOK', plans' = <<>>, pc' \notin Acting
  PROVE  PlansInv'
  <1>1. Len(plans') = 0 /\ DOMAIN plans' = {}
    OBVIOUS
  <1>2. Len(acc'.calls) \in Nat
    BY DEF TypeOK, StepTypes, Accum
  <1>3. Len(plans') <= Len(acc'.calls)
    BY <1>1, <1>2
  <1> QED
    BY <1>1, <1>3 DEF PlansInv

LEMMA SamePlans ==
  ASSUME PlansInv, UNCHANGED <<acc, plans>>, pc' \in Acting <=> pc \in Acting
  PROVE  PlansInv'
  BY DEF PlansInv

LEMMA StepPlans == TypeOK /\ HeldInv /\ PlansInv /\ [Next]_vars => PlansInv'
  <1> SUFFICES ASSUME TypeOK, HeldInv, PlansInv, [Next]_vars PROVE PlansInv'
    OBVIOUS
  <1> USE DEF Acting
  <1>0. TypeOK'
    BY StepType
  <1>t. /\ plans \in Seq(ToolPlan) /\ acc.calls \in Seq(Call) /\ vote \in Seq(Approvals)
        /\ Len(plans) \in Nat /\ Len(acc.calls) \in Nat /\ DOMAIN plans = 1..Len(plans)
    BY DEF TypeOK, StepTypes, Accum
  <1>1. CASE \/ Run \/ SkillsFail \/ SkillsRestore \/ SkillsReady \/ Bind \/ OnFinish \/ Done
             \/ Cancel \/ Planned \/ Collect \/ UNCHANGED vars
    <2>1. UNCHANGED <<acc, plans>> /\ (pc' \in Acting <=> pc \in Acting)
      BY <1>1 DEF Run, SkillsFail, SkillsRestore, SkillsReady, Bind, OnFinish, Done, Cancel,
         Planned, Collect, Restore, vars, stepVars
    <2> QED
      BY <2>1, SamePlans
  <1>2. CASE VoteStop \/ \E v \in Approvals : Vote(v)
    <2>1. UNCHANGED <<acc, plans>> /\ (pc' \in Acting <=> pc \in Acting)
      BY <1>2 DEF VoteStop, Vote
    <2> QED
      BY <2>1, SamePlans
  <1>3. CASE OnStart \/ OnStep \/ OnStepDone
    <2>1. HookReturns
      BY <1>3 DEF OnStart, OnStep, OnStepDone
    <2>2. CASE EndRun("stopped")
      BY <1>0, <2>2, NoPlans DEF EndRun, LeaveStep
    <2>3. CASE UNCHANGED <<pc, finish, stepVars>>
      BY <2>3, SamePlans DEF stepVars
    <2> QED
      BY <2>1, <2>2, <2>3 DEF HookReturns
  <1>4. CASE \/ Top \/ Prepare \/ Attempt \/ InflightCancelled \/ AttemptEmpty \/ StreamCut
             \/ SettleInvalid \/ Decide
    <2>1. /\ pc' \notin Acting
          /\ plans' = <<>> \/ (pc \notin Acting /\ plans' = plans)
      BY <1>4 DEF Top, Prepare, Attempt, InflightCancelled, AttemptEmpty, StreamCut,
         SettleInvalid, Decide, EndRun, LeaveStep, stepVars
    <2>2. plans' = <<>>
      BY <2>1 DEF PlansInv
    <2> QED
      BY <1>0, <2>1, <2>2, NoPlans
  <1>5. CASE (\E f \in Failure : AttemptFails(f)) \/ (\E e \in Event : Ready(e) \/ Receive(e))
    <2>1. /\ pc' \notin Acting
          /\ plans' = <<>> \/ (pc \notin Acting /\ plans' = plans)
      BY <1>5 DEF AttemptFails, EndRun, LeaveStep, Ready, Receive, Take
    <2>2. plans' = <<>>
      BY <2>1 DEF PlansInv
    <2> QED
      BY <1>0, <2>1, <2>2, NoPlans
  <1>6. CASE Settle
    <2>1. /\ plans' = <<>> /\ pc' = "approve"
          /\ failed' = TerminalFailure(acc.stop, Calls(acc))
      BY <1>6 DEF Settle
    <2>2. acc'.stop = acc.stop /\ acc'.calls = IF failed' THEN <<>> ELSE Calls(acc)
      BY <1>6, SettledAccum
    <2>3. acc'.calls # <<>> => acc'.stop = "tool_use"
      BY <2>1, <2>2 DEF TerminalFailure
    <2>4. Len(plans') = 0 /\ DOMAIN plans' = {} /\ Len(acc'.calls) \in Nat
      BY <1>0, <2>1 DEF TypeOK, StepTypes, Accum
    <2>5. Len(plans') <= Len(acc'.calls)
      BY <2>4
    <2> QED
      BY <2>1, <2>3, <2>4, <2>5 DEF PlansInv
  <1>7. CASE Plan
    <2> DEFINE c == acc.calls[Len(plans) + 1]
               s == Denied(vote) \/ c.bad
               p == [id |-> c.id, skip |-> s, votes |-> vote, st |-> "waiting"]
    <2>1. /\ plans' = Append(plans, p) /\ p \in ToolPlan
          /\ p.id = c.id /\ p.votes = vote /\ p.st = "waiting"
          /\ ~ p.skip => ~ Denied(vote) /\ ~ c.bad
      BY <1>7, PlanFacts
    <2>2. /\ pc = "approve" /\ pc' = pc /\ Len(plans) < Len(acc.calls) /\ Len(vote) = mw
          /\ acc' = acc
      BY <1>7 DEF Plan
    <2>3. Len(vote) = NumMw
      BY <2>2 DEF HeldInv
    <2> HIDE DEF p
    <2>4. PlanOk(p, c)
      BY <2>1, <2>3 DEF PlanOk
    <2>5. /\ Len(plans') = Len(plans) + 1 /\ DOMAIN plans' = 1..(Len(plans) + 1)
          /\ plans'[Len(plans) + 1] = p
          /\ \A i \in 1..Len(plans) : plans'[i] = plans[i]
      BY <1>t, <2>1
    <2>6. ASSUME NEW i \in DOMAIN plans' PROVE PlanOk(plans'[i], acc'.calls[i])
      <3>1. CASE i = Len(plans) + 1
        BY <2>2, <2>4, <2>5, <3>1
      <3>2. CASE i # Len(plans) + 1
        <4>1. i \in DOMAIN plans
          BY <1>t, <2>5, <3>2
        <4>2. PlanOk(plans[i], acc.calls[i])
          BY <4>1 DEF PlansInv
        <4> QED
          BY <1>t, <2>2, <2>5, <4>1, <4>2
      <3> QED
        BY <3>1, <3>2
    <2>7. Len(plans') <= Len(acc'.calls)
      BY <1>t, <2>2, <2>5
    <2> QED
      BY <2>2, <2>6, <2>7 DEF PlansInv
  <1>8. ASSUME NEW i \in DOMAIN plans, ToolStart(i) \/ ToolDone(i) PROVE PlansInv'
    <2>1. /\ Len(plans') = Len(plans) /\ DOMAIN plans' = DOMAIN plans
          /\ acc' = acc
          /\ \A j \in DOMAIN plans : j # i => plans'[j] = plans[j]
          /\ plans'[i].id = plans[i].id /\ plans'[i].skip = plans[i].skip
          /\ plans'[i].votes = plans[i].votes
          /\ \/ plans'[i].st = "skipped"
             \/ plans'[i].st = "running" /\ ~ plans[i].skip
             \/ plans'[i].st = "done" /\ plans[i].st = "running"
      BY <1>8, ToolFacts
    <2>2. pc = "tools" /\ pc' = pc
      BY <1>8 DEF ToolStart, ToolDone
    <2>3. PlanOk(plans[i], acc.calls[i])
      BY DEF PlansInv
    <2>4. PlanOk(plans'[i], acc.calls[i])
      BY <2>1, <2>3 DEF PlanOk
    <2>5. \A j \in DOMAIN plans' : PlanOk(plans'[j], acc.calls[j])
      BY <2>1, <2>4 DEF PlansInv
    <2> QED
      BY <2>1, <2>2, <2>5 DEF PlansInv
  <1> QED
    BY <1>1, <1>2, <1>3, <1>4, <1>5, <1>6, <1>7, <1>8 DEF Next, Loop, Provider

LEMMA InitGate == Init => GateInv
  <1> SUFFICES ASSUME Init PROVE GateInv
    OBVIOUS
  <1>1. pc = "idle" /\ installed /\ plans = <<>> /\ acc.calls = <<>>
    BY Constructors DEF Init
  <1>2. Len(plans) = 0 /\ Len(acc.calls) = 0 /\ DOMAIN plans = {}
    BY <1>1
  <1> QED
    BY <1>1, <1>2 DEF GateInv, Acting

LEMMA StepGate == TypeOK /\ GateInv /\ [Next]_vars => GateInv'
  <1> SUFFICES ASSUME TypeOK, GateInv, [Next]_vars PROVE GateInv'
    OBVIOUS
  <1>1. HeldInv' /\ PlansInv'
    BY GateInvIs, StepHeld, StepPlans
  <1> QED
    BY <1>1 DEF GateInv, HeldInv, PlansInv, PlanOk

\* A tool runs only when every registered middleware voted "allow" on its call,
\* the call's arguments parsed, and the response ended with tool_use, for any
\* number of middlewares and calls in any order of dispatch.  GateInv ties each
\* plan to its call and its votes, and shows that a run is never polled with
\* fewer middlewares than were registered.
THEOREM ToolsAlwaysGated == Spec => []ToolsGated
  <1>1. TypeOK /\ GateInv => ToolsGated
    <2> SUFFICES ASSUME TypeOK, GateInv, NEW i \in DOMAIN plans,
                        plans[i].st \in {"running", "done"}
                 PROVE  /\ plans[i].votes = [j \in 1..NumMw |-> "allow"]
                        /\ ~ acc.calls[i].bad
                        /\ acc.stop = "tool_use"
      BY DEF ToolsGated
    <2>1. /\ plans \in Seq(ToolPlan) /\ acc.calls \in Seq(Call) /\ plans[i] \in ToolPlan
      BY DEF TypeOK, StepTypes, Accum
    <2>2. /\ Len(plans[i].votes) = NumMw /\ ~ Denied(plans[i].votes) /\ ~ acc.calls[i].bad
          /\ plans # <<>> /\ pc \in Acting /\ Len(plans) <= Len(acc.calls)
      BY DEF GateInv
    <2>3. plans[i].votes \in Seq({"allow", "deny"})
      BY <2>1 DEF ToolPlan, Approvals
    <2>4. \A j \in 1..NumMw : plans[i].votes[j] = "allow"
      <3> DEFINE v == plans[i].votes
      <3> HIDE DEF v
      <3>1. v \in Seq({"allow", "deny"}) /\ Len(v) = NumMw /\ ~ Denied(v)
        BY <2>2, <2>3 DEF v
      <3>2. \A j \in DOMAIN v : v[j] # "deny"
        BY <3>1 DEF Denied, ToSet
      <3>3. \A j \in 1..NumMw : v[j] = "allow"
        BY <3>1, <3>2
      <3> QED
        BY <3>3 DEF v
    <2>5. plans[i].votes = [j \in 1..NumMw |-> "allow"]
      BY <2>2, <2>3, <2>4
    <2>6. acc.calls # <<>>
      BY <2>1, <2>2
    <2>7. acc.stop = "tool_use"
      BY <2>2, <2>6 DEF GateInv
    <2> QED
      BY <2>2, <2>5, <2>7
  <1>2. Init => TypeOK /\ GateInv
    BY InitType, InitGate
  <1>3. (TypeOK /\ GateInv) /\ [Next]_vars => (TypeOK /\ GateInv)'
    BY StepType, StepGate
  <1> QED
    BY <1>1, <1>2, <1>3, PTL DEF Spec

-----------------------------------------------------------------------------
(* What a run leaves behind                                                *)

Early == {"idle", "skills", "no_skills", "on_start", "on_finish"}

LEMMA HookInvIs ==
  HookInv <=> /\ pc = "skills" => k = 0
              /\ pc \in {"skills", "no_skills"} => started = 0
              /\ pc = "on_start" => started = k
              /\ pc = "idle" => open = {}
              /\ pc = "on_finish" => open = (k + 1)..started
              /\ pc \notin {"idle", "on_finish"} => open = 1..started
  BY DEF HookInv

LEMMA HookInvIsPrimed ==
  HookInv' <=> /\ pc' = "skills" => k' = 0
               /\ pc' \in {"skills", "no_skills"} => started' = 0
               /\ pc' = "on_start" => started' = k'
               /\ pc' = "idle" => open' = {}
               /\ pc' = "on_finish" => open' = (k' + 1)..started'
               /\ pc' \notin {"idle", "on_finish"} => open' = 1..started'
  BY DEF HookInv

LEMMA InitHook == Init => HookInv
  BY HookInvIs DEF Init

LEMMA StepHook == TypeOK /\ HookInv /\ [Next]_vars => HookInv'
  <1> SUFFICES ASSUME TypeOK, HookInv, [Next]_vars PROVE HookInv'
    OBVIOUS
  <1>0. k \in Nat /\ started \in Nat /\ open \in SUBSET Nat
    BY DEF TypeOK, LoopTypes
  <1>1. /\ pc = "skills" => k = 0
        /\ pc \in {"skills", "no_skills"} => started = 0
        /\ pc = "on_start" => started = k
        /\ pc = "idle" => open = {}
        /\ pc = "on_finish" => open = (k + 1)..started
        /\ pc \notin {"idle", "on_finish"} => open = 1..started
    BY HookInvIs
  <1>2. ASSUME pc \notin {"idle", "on_finish"}, pc' = "on_finish", k' = 0,
               UNCHANGED <<started, open>>
        PROVE  HookInv'
    <2>1. open' = (k' + 1)..started'
      BY <1>1, <1>2
    <2> QED
      BY <1>2, <2>1, HookInvIsPrimed
  <1>3. ASSUME pc \notin {"idle", "on_finish"}, pc' \notin Early, UNCHANGED <<started, open>>
        PROVE  HookInv'
    <2>1. open' = 1..started'
      BY <1>1, <1>3
    <2> QED
      BY <1>3, <2>1, HookInvIsPrimed DEF Early
  <1>4. CASE Run
    <2>1. /\ pc = "idle" /\ pc' = "skills" /\ k' = 0 /\ started' = 0 /\ open' = open
      BY <1>4 DEF Run
    <2>2. open' = 1..started'
      BY <1>1, <2>1
    <2> QED
      BY <2>1, <2>2, HookInvIsPrimed
  <1>5. CASE SkillsFail \/ SkillsReady
    <2>1. /\ pc = "skills" /\ pc' \in {"no_skills", "on_start"}
          /\ UNCHANGED <<k, started, open>>
      BY <1>5 DEF SkillsFail, SkillsReady, hookVars
    <2> QED
      BY <1>1, <2>1, HookInvIsPrimed
  <1>6. CASE SkillsRestore
    <2>1. pc = "no_skills" /\ pc' = "idle" /\ open' = open
      BY <1>6 DEF SkillsRestore, Restore
    <2>2. open' = {}
      BY <1>1, <2>1
    <2> QED
      BY <2>1, <2>2, HookInvIsPrimed
  <1>7. CASE OnStart
    <2>1. /\ pc = "on_start" /\ started' = started + 1 /\ open' = open \cup {k + 1}
          /\ HookReturns
      BY <1>7 DEF OnStart
    <2>2. \/ pc' = "on_start" /\ k' = k + 1
          \/ pc' = "on_finish" /\ k' = 0
      BY <2>1 DEF HookReturns, EndRun
    <2>3. open' = 1..started'
      BY <1>0, <1>1, <2>1
    <2>4. CASE pc' = "on_start" /\ k' = k + 1
      BY <1>1, <2>1, <2>3, <2>4, HookInvIsPrimed
    <2>5. CASE pc' = "on_finish" /\ k' = 0
      <3>1. open' = (k' + 1)..started'
        BY <2>3, <2>5
      <3> QED
        BY <2>5, <3>1, HookInvIsPrimed
    <2> QED
      BY <2>2, <2>4, <2>5
  <1>8. CASE OnFinish
    <2>1. /\ pc = "on_finish" /\ pc' = pc /\ k' = k + 1 /\ open' = open \ {k + 1}
          /\ started' = started
      BY <1>8 DEF OnFinish
    <2>2. open' = (k' + 1)..started'
      BY <1>0, <1>1, <2>1
    <2> QED
      BY <2>1, <2>2, HookInvIsPrimed
  <1>9. CASE Done
    <2>1. pc = "on_finish" /\ pc' = "idle" /\ k >= started /\ open' = open
      BY <1>9 DEF Done, Restore, ToFinish
    <2>2. open' = {}
      BY <1>0, <1>1, <2>1
    <2> QED
      BY <2>1, <2>2, HookInvIsPrimed
  <1>10. CASE Cancel \/ UNCHANGED vars
    <2>1. UNCHANGED <<pc, k, started, open>>
      BY <1>10 DEF Cancel, vars, hookVars
    <2> QED
      BY <1>1, <2>1, HookInvIsPrimed
  <1>11. CASE OnStep \/ OnStepDone
    <2>1. /\ pc \notin Early /\ UNCHANGED <<started, open>> /\ HookReturns
      BY <1>11 DEF OnStep, OnStepDone, hookVars, Early
    <2>2. pc' = pc \/ (pc' = "on_finish" /\ k' = 0)
      BY <2>1 DEF HookReturns, EndRun
    <2> QED
      BY <1>2, <1>3, <2>1, <2>2 DEF Early
  <1> DEFINE Moves == /\ pc \notin {"idle", "on_finish"} /\ UNCHANGED <<started, open>>
                      /\ pc' \notin Early \/ (pc' = "on_finish" /\ k' = 0)
  <1>12. Moves => HookInv'
    BY <1>2, <1>3
  <1>13. CASE \/ Bind \/ Top \/ Prepare \/ Attempt \/ InflightCancelled \/ AttemptEmpty
              \/ StreamCut \/ SettleInvalid \/ Settle
    <2>1. Moves
      BY <1>13 DEF Bind, Top, Prepare, Attempt, InflightCancelled, AttemptEmpty, StreamCut,
         SettleInvalid, Settle, EndRun, hookVars, Early
    <2> QED
      BY <1>12, <2>1
  <1>14. CASE \/ (\E v \in Approvals : Vote(v)) \/ Plan \/ VoteStop \/ Planned \/ Collect
              \/ (\E i \in DOMAIN plans : ToolStart(i) \/ ToolDone(i)) \/ Decide
    <2>1. Moves
      BY <1>14 DEF Vote, Plan, VoteStop, Planned, Collect, ToolStart, ToolDone, Decide, EndRun,
         hookVars, Early
    <2> QED
      BY <1>12, <2>1
  <1>15. CASE (\E f \in Failure : AttemptFails(f)) \/ (\E e \in Event : Ready(e) \/ Receive(e))
    <2>1. Moves
      BY <1>15 DEF AttemptFails, EndRun, Ready, Receive, Take, hookVars, Early
    <2> QED
      BY <1>12, <2>1
  <1> QED
    BY <1>4, <1>5, <1>6, <1>7, <1>8, <1>9, <1>10, <1>11, <1>13, <1>14, <1>15
    DEF Next, Loop, Provider

\* A message that uses no tool ends a complete conversation as well.
LEMMA CompleteAppend ==
  ASSUME NEW ms \in Seq(Message), Complete(ms), NEW m \in Message, m.uses = <<>>
  PROVE  Complete(Append(ms, m))
  <1> DEFINE t == Append(ms, m)
  <1>1. /\ t \in Seq(Message) /\ Len(t) = Len(ms) + 1 /\ t[Len(t)] = m /\ Len(ms) \in Nat
        /\ \A i \in 1..Len(ms) : t[i] = ms[i]
        /\ DOMAIN t = 1..Len(t) /\ DOMAIN ms = 1..Len(ms)
    OBVIOUS
  <1> HIDE DEF t
  <1>2. ASSUME NEW i \in DOMAIN t, NEW id \in ToSet(t[i].uses)
        PROVE  i < Len(t) /\ id \in ToSet(t[i + 1].results)
    <2>1. i # Len(t)
      <3>1. ToSet(<<>>) = {}
        BY DEF ToSet
      <3> QED
        BY <1>1, <1>2, <3>1
    <2>2. i \in DOMAIN ms /\ t[i] = ms[i]
      BY <1>1, <2>1
    <2>3. i < Len(ms) /\ id \in ToSet(ms[i + 1].results)
      BY <1>2, <2>2 DEF Complete, Answered
    <2>4. t[i + 1] = ms[i + 1] /\ i < Len(t)
      BY <1>1, <2>2, <2>3
    <2> QED
      BY <2>3, <2>4
  <1>3. Complete(t)
    BY <1>2 DEF Complete, Answered
  <1> QED
    BY <1>3 DEF t

LEMMA CompletePlain == Complete(<<Plain>>)
  <1>1. DOMAIN <<Plain>> = {1} /\ <<Plain>>[1] = Plain
    OBVIOUS
  <1>2. ToSet(Plain.uses) = {}
    BY Constructors DEF ToSet
  <1> QED
    BY <1>1, <1>2 DEF Complete, Answered

\* What follows a conversation takes no answer away.
LEMMA AnsweredLonger ==
  ASSUME NEW ms \in Seq(Message), NEW t \in Seq(Message), Len(ms) <= Len(t),
         \A j \in DOMAIN ms : t[j] = ms[j],
         NEW i \in DOMAIN ms, Answered(ms, i)
  PROVE  Answered(t, i)
  <1>1. ASSUME NEW id \in ToSet(t[i].uses)
        PROVE  i < Len(t) /\ id \in ToSet(t[i + 1].results)
    <2>1. i < Len(ms) /\ id \in ToSet(ms[i + 1].results)
      BY <1>1 DEF Answered
    <2>2. i + 1 \in DOMAIN ms
      BY <2>1
    <2> QED
      BY <2>1, <2>2
  <1> QED
    BY <1>1 DEF Answered

\* Only the last message may wait, for results of these calls.
Waiting(ms, calls) ==
  \A i \in DOMAIN ms :
     \/ Answered(ms, i)
     \/ /\ i = Len(ms)
        /\ \A id \in ToSet(ms[i].uses) : \E j \in DOMAIN calls : calls[j].id = id

\* The turn that Settle adds waits for the calls it leaves in the step.
LEMMA SettledWaits ==
  ASSUME TypeOK, Settle, Complete(messages)
  PROVE  Waiting(messages', acc'.calls)
  <1> DEFINE t == Turn(acc, failed')
  <1>1. /\ messages \in Seq(Message) /\ messages' \in Seq(Message)
        /\ messages' = messages \o t /\ failed' \in BOOLEAN
        /\ acc \in Accum /\ IsFiniteSet(acc.blocks)
    BY SettleFacts DEF SettledTurn, TypeOK, ContextTypes, StepTypes
  <1>2. /\ t \in Seq(Message)
        /\ \/ t = <<>>
           \/ /\ Len(t) = 1
              /\ failed' => t[1].uses = <<>>
              /\ ~ failed' => \A id \in ToSet(t[1].uses) :
                                 \E j \in DOMAIN Calls(acc) : Calls(acc)[j].id = id
    BY <1>1, TurnFacts
  <1>3. acc'.calls = IF failed' THEN <<>> ELSE Calls(acc)
    BY SettledAccum
  <1> HIDE DEF t
  <1>4. /\ Len(messages') = Len(messages) + Len(t) /\ Len(t) \in Nat /\ Len(messages) \in Nat
        /\ \A i \in DOMAIN messages : messages'[i] = messages[i]
        /\ \A i \in 1..Len(t) : messages'[Len(messages) + i] = t[i]
        /\ DOMAIN messages = 1..Len(messages) /\ DOMAIN messages' = 1..Len(messages')
    BY <1>1, <1>2
  <1>5. ASSUME NEW i \in DOMAIN messages', i \in DOMAIN messages
        PROVE  Answered(messages', i)
    <2>1. Answered(messages, i)
      BY <1>5 DEF Complete
    <2>2. Len(messages) <= Len(messages')
      BY <1>4
    <2> DEFINE after == messages'
    <2>3. after \in Seq(Message) /\ Len(messages) <= Len(after)
          /\ \A j \in DOMAIN messages : after[j] = messages[j]
      BY <1>1, <1>4, <2>2
    <2> HIDE DEF after
    <2>4. Answered(after, i)
      BY <1>1, <1>5, <2>1, <2>3, AnsweredLonger
    <2> QED
      BY <2>4 DEF after
  <1>6. ASSUME NEW i \in DOMAIN messages', i \notin DOMAIN messages
        PROVE  /\ i = Len(messages')
               /\ \A id \in ToSet(messages'[i].uses) :
                     \E j \in DOMAIN acc'.calls : acc'.calls[j].id = id
    <2>1. i = Len(messages) + 1 /\ Len(t) = 1 /\ messages'[i] = t[1]
      BY <1>2, <1>4, <1>6
    <2>2. ToSet(<<>>) = {}
      BY DEF ToSet
    <2>3. CASE failed'
      <3>1. t[1].uses = <<>>
        BY <1>2, <2>1, <2>3
      <3> QED
        BY <1>4, <2>1, <2>2, <3>1
    <2>4. CASE ~ failed'
      <3>1. acc'.calls = Calls(acc)
        BY <1>3, <2>4
      <3>2. t # <<>>
        BY <2>1
      <3>3. \A id \in ToSet(t[1].uses) :
               \E j \in DOMAIN Calls(acc) : Calls(acc)[j].id = id
        BY <1>2, <2>4, <3>2, Zenon
      <3> QED
        BY <1>4, <2>1, <3>1, <3>3
    <2> QED
      BY <2>3, <2>4
  <1> QED
    BY <1>5, <1>6 DEF Waiting

\* The results that Collect adds answer the turn, those of a stopped batch too.
LEMMA CollectedComplete ==
  ASSUME TypeOK, GateInv, Waiting(messages, acc.calls),
         toolStop \/ Len(plans) = Len(acc.calls), Collect
  PROVE  Complete(messages')
  <1>0. /\ messages \in Seq(Message) /\ messages' \in Seq(Message) /\ acc.calls \in Seq(Call)
        /\ plans \in Seq(ToolPlan) /\ Results \in Seq(ToolId)
    BY CollectFacts, ResultsFacts DEF TypeOK, ContextTypes, StepTypes, Accum
  <1>1. \A j \in DOMAIN acc.calls : acc.calls[j].id \in ToSet(Results)
    <2>1. CASE toolStop
      BY <2>1, ResultsFacts DEF TypeOK
    <2>2. CASE Len(plans) = Len(acc.calls)
      <3>1. DOMAIN plans = DOMAIN acc.calls
        BY <1>0, <2>2
      <3>2. \A j \in DOMAIN plans : plans[j].id = acc.calls[j].id
        BY DEF GateInv
      <3>3. \A j \in DOMAIN plans : plans[j].id \in ToSet(Results)
        BY ResultsFacts DEF TypeOK
      <3> QED
        BY <3>1, <3>2, <3>3
    <2> QED
      BY <2>1, <2>2
  <1>2. ASSUME NEW i \in DOMAIN messages, ~ Answered(messages, i)
        PROVE  /\ i = Len(messages) /\ Results # <<>>
               /\ \A id \in ToSet(messages[i].uses) : id \in ToSet(Results)
    <2>1. /\ i = Len(messages)
          /\ \A id \in ToSet(messages[i].uses) :
                \E j \in DOMAIN acc.calls : acc.calls[j].id = id
      BY <1>2 DEF Waiting
    <2>2. PICK id \in ToSet(messages[i].uses) : TRUE
      BY <1>2 DEF Answered
    <2>3. \A x \in ToSet(messages[i].uses) : x \in ToSet(Results)
      BY <1>1, <2>1
    <2>4. Results # <<>>
      BY <2>2, <2>3 DEF ToSet
    <2> QED
      BY <2>1, <2>3, <2>4
  <1>3. CASE Results = <<>>
    <2>1. messages' = messages
      BY <1>3, CollectFacts
    <2>2. Complete(messages)
      BY <1>2, <1>3 DEF Complete
    <2> QED
      BY <2>1, <2>2
  <1>4. CASE Results # <<>>
    <2>1. PICK m \in Message : /\ messages' = Append(messages, m)
                               /\ m.uses = <<>> /\ m.results = Results
      BY <1>4, CollectFacts
    <2> DEFINE after == Append(messages, m)
    <2>2. /\ after \in Seq(Message) /\ Len(after) = Len(messages) + 1
          /\ Len(messages) \in Nat /\ after[Len(messages) + 1] = m
          /\ \A j \in DOMAIN messages : after[j] = messages[j]
          /\ DOMAIN after = DOMAIN messages \cup {Len(messages) + 1}
          /\ DOMAIN messages = 1..Len(messages)
      BY <1>0
    <2> HIDE DEF after
    <2>3. ASSUME NEW i \in DOMAIN after PROVE Answered(after, i)
      <3>1. CASE i \in DOMAIN messages /\ Answered(messages, i)
        <4>1. Len(messages) <= Len(after)
          BY <2>2
        <4> QED
          BY <1>0, <2>2, <3>1, <4>1, AnsweredLonger
      <3>2. CASE i \in DOMAIN messages /\ ~ Answered(messages, i)
        <4>1. /\ i = Len(messages) /\ after[i] = messages[i] /\ after[i + 1] = m
              /\ i < Len(after)
              /\ \A id \in ToSet(messages[i].uses) : id \in ToSet(Results)
          BY <1>2, <2>2, <3>2
        <4> QED
          BY <2>1, <4>1 DEF Answered
      <3>3. CASE i = Len(messages) + 1
        <4>1. after[i].uses = <<>> /\ ToSet(<<>>) = {}
          BY <2>1, <2>2, <3>3 DEF ToSet
        <4> QED
          BY <4>1 DEF Answered
      <3> QED
        BY <2>2, <2>3, <3>1, <3>2, <3>3
    <2>4. Complete(after)
      BY <2>3 DEF Complete
    <2> QED
      BY <2>1, <2>4 DEF after
  <1> QED
    BY <1>3, <1>4

\* Where the turn is dealt with, and what of it holds there.
Dealing == {"approve", "tools"}

Stopped == toolStop \/ Len(plans) = Len(acc.calls)

LEMMA HistoryInvIs ==
  HistoryInv <=> /\ pc \notin Dealing => Complete(messages)
                 /\ pc \in Dealing => Waiting(messages, acc.calls)
                 /\ pc = "tools" => Stopped
  BY DEF HistoryInv, NoDangling, Dealing, Waiting, Stopped

LEMMA HistoryInvIsPrimed ==
  HistoryInv' <=> /\ pc' \notin Dealing => Complete(messages')
                  /\ pc' \in Dealing => Waiting(messages', acc'.calls)
                  /\ pc' = "tools" => Stopped'
  BY DEF HistoryInv, NoDangling, Dealing, Waiting, Stopped

LEMMA InitHistory == Init => HistoryInv
  BY HistoryInvIs, CompletePlain DEF Init, Dealing

\* What a hook or a response that was cut short leaves is complete.
LEMMA CompleteEdited ==
  ASSUME TypeOK, Complete(messages),
         messages' \in {messages, Append(messages, Plain), <<Plain>>} \cup History
  PROVE  Complete(messages')
  <1>1. Complete(Append(messages, Plain))
    BY CompleteAppend, Constructors DEF TypeOK, ContextTypes
  <1>2. \A h \in History : Complete(h)
    BY HistoryAssumption
  <1> QED
    BY <1>1, <1>2, CompletePlain

LEMMA StepHistory == TypeOK /\ GateInv /\ HistoryInv /\ [Next]_vars => HistoryInv'
  <1> SUFFICES ASSUME TypeOK, GateInv, HistoryInv, [Next]_vars PROVE HistoryInv'
    OBVIOUS
  <1>0. /\ pc \notin Dealing => Complete(messages)
        /\ pc \in Dealing => Waiting(messages, acc.calls)
        /\ pc = "tools" => Stopped
    BY HistoryInvIs
  <1>1. ASSUME pc \notin Dealing, pc' \notin Dealing,
               messages' \in {messages, Append(messages, Plain), <<Plain>>} \cup History
        PROVE  HistoryInv'
    <2>1. Complete(messages')
      BY <1>0, <1>1, CompleteEdited
    <2> QED
      BY <1>1, <2>1, HistoryInvIsPrimed DEF Dealing
  <1>2. ASSUME pc \in Dealing, pc' \in Dealing, UNCHANGED <<messages, acc>>,
               pc' = "tools" => Stopped'
        PROVE  HistoryInv'
    BY <1>0, <1>2, HistoryInvIsPrimed
  <1>3. CASE UNCHANGED vars
    <2>1. UNCHANGED <<pc, messages, acc, plans, toolStop>>
      BY <1>3 DEF vars
    <2> QED
      BY <1>0, <2>1, HistoryInvIsPrimed DEF Stopped
  <1>4. CASE OnStart \/ OnStep \/ OnStepDone
    <2>1. Edit \/ Load
      BY <1>4 DEF OnStart, OnStep, OnStepDone
    <2>2. pc \notin Dealing /\ pc' \notin Dealing
      BY <1>4 DEF OnStart, OnStep, OnStepDone, HookReturns, EndRun, Dealing
    <2>3. messages' \in {messages, Append(messages, Plain), <<Plain>>} \cup History
      BY <2>1, EditFacts DEF TypeOK
    <2> QED
      BY <1>1, <2>2, <2>3
  <1>5. CASE StreamCut \/ SettleInvalid
    <2>1. RecordPartial /\ pc \notin Dealing /\ pc' \notin Dealing
      BY <1>5 DEF StreamCut, SettleInvalid, EndRun, Dealing
    <2> QED
      BY <1>1, <2>1, PartialFacts
  <1>6. CASE Settle
    <2>1. pc = "settle" /\ pc' = "approve"
      BY <1>6 DEF Settle
    <2>2. Waiting(messages', acc'.calls)
      BY <1>0, <1>6, <2>1, SettledWaits DEF Dealing
    <2> QED
      BY <2>1, <2>2, HistoryInvIsPrimed DEF Dealing
  <1>7. CASE Collect
    <2>1. pc = "tools" /\ pc' = "on_step_done"
      BY <1>7 DEF Collect
    <2>2. Complete(messages')
      BY <1>0, <1>7, <2>1, CollectedComplete DEF Dealing, Stopped
    <2> QED
      BY <2>1, <2>2, HistoryInvIsPrimed DEF Dealing
  <1>8. CASE (\E v \in Approvals : Vote(v)) \/ Plan
    <2>1. pc = "approve" /\ pc' = "approve" /\ UNCHANGED <<messages, acc>>
      BY <1>8 DEF Vote, Plan, contextVars
    <2> QED
      BY <1>2, <2>1 DEF Dealing
  <1>9. CASE VoteStop \/ Planned
    <2>1. pc = "approve" /\ pc' = "tools" /\ UNCHANGED <<messages, acc>> /\ Stopped'
      BY <1>9 DEF VoteStop, Planned, contextVars, stepVars, Stopped
    <2> QED
      BY <1>2, <2>1 DEF Dealing
  <1>10. CASE \E i \in DOMAIN plans : ToolStart(i) \/ ToolDone(i)
    <2>1. PICK i \in DOMAIN plans : ToolStart(i) \/ ToolDone(i)
      BY <1>10
    <2>2. pc = "tools" /\ pc' = "tools" /\ UNCHANGED <<messages, acc>>
      BY <2>1 DEF ToolStart, ToolDone, contextVars
    <2>3. Len(plans') = Len(plans) /\ toolStop' = toolStop
      BY <2>1, ToolFacts
    <2>4. Stopped'
      BY <1>0, <2>2, <2>3 DEF Stopped
    <2> QED
      BY <1>2, <2>2, <2>4 DEF Dealing
  <1>11. CASE Run \/ SkillsFail \/ SkillsRestore \/ SkillsReady \/ Bind \/ Top \/ Prepare
              \/ Attempt \/ InflightCancelled
    <2>1. pc \notin Dealing /\ pc' \notin Dealing /\ messages' = messages
      BY <1>11 DEF Run, SkillsFail, SkillsRestore, SkillsReady, Bind, Top, Prepare, Attempt,
         InflightCancelled, EndRun, Restore, contextVars, Dealing
    <2> QED
      BY <1>1, <2>1
  <1>12. CASE (\E f \in Failure : AttemptFails(f)) \/ AttemptEmpty \/ Decide \/ OnFinish
              \/ Done
    <2>1. pc \notin Dealing /\ pc' \notin Dealing /\ messages' = messages
      BY <1>12 DEF AttemptFails, AttemptEmpty, Decide, OnFinish, Done, EndRun, Restore,
         contextVars, Dealing
    <2> QED
      BY <1>1, <2>1
  <1>13. CASE \E e \in Event : Ready(e) \/ Receive(e)
    <2>1. pc \notin Dealing /\ pc' \notin Dealing /\ messages' = messages
      BY <1>13 DEF Ready, Receive, Take, contextVars, Dealing
    <2> QED
      BY <1>1, <2>1
  <1>14. CASE Cancel
    <2>1. UNCHANGED <<pc, messages, acc, plans, toolStop>>
      BY <1>14 DEF Cancel, contextVars, stepVars
    <2> QED
      BY <1>0, <2>1, HistoryInvIsPrimed DEF Stopped
  <1> QED
    BY <1>3, <1>4, <1>5, <1>6, <1>7, <1>8, <1>9, <1>10, <1>11, <1>12, <1>13, <1>14
    DEF Next, Loop, Provider

\* However a run ends, the conversation has a tool_result for every tool_use,
\* the middlewares are back in the agent and each has had its on_finish.
THEOREM AlwaysLeftInOrder == Spec => []LeftInOrder
  <1>1. TypeOK /\ GateInv /\ HookInv /\ HistoryInv => LeftInOrder
    <2>1. ASSUME HookInv PROVE pc = "idle" => open = {}
      BY <2>1, HookInvIs
    <2> QED
      BY <2>1 DEF LeftInOrder, GateInv, HistoryInv
  <1> QED
    BY <1>1, InitType, StepType, InitGate, StepGate, InitHook, StepHook, InitHistory,
       StepHistory, PTL
    DEF Spec

=============================================================================

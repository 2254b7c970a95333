--------------------------- MODULE ClientCallsProofs ---------------------------
(***************************************************************************)
(* Proofs about ClientCalls, for any set of calls, any queue length and    *)
(* any number of replies and session ends.                                 *)
(***************************************************************************)
EXTENDS ClientCalls, TLAPS

LEMMA BoundFacts == Buffer \in Nat \ {0} /\ MaxReplies \in Nat /\ MaxCloses \in Nat
  BY CallAssumption

\* The three kinds of answer are different, and are answers.
LEMMA AnswerFacts ==
  /\ None \in Answer /\ Closed \in Answer /\ None # Closed
  /\ \A n \in Nat : Reply(n) \in Answer /\ Reply(n) # None /\ Reply(n) # Closed
  BY DEF Answer, None, Closed, Reply

LEMMA InitInv == Init => ReplyInv
  <1> SUFFICES ASSUME Init PROVE ReplyInv
    OBVIOUS
  <1>1. TypeOK
    <2>1. outgoing \in Seq(Nat) /\ Len(outgoing) <= Buffer
      BY BoundFacts DEF Init
    <2>2. phase \in [Call -> Phase] /\ id \in [Call -> Nat]
      BY DEF Init, Phase
    <2>3. slot \in [Call -> Answer] /\ first \in [Ids -> Answer]
      BY AnswerFacts DEF Init
    <2>4. nextId \in Nat \ {0} /\ replies \in Nat /\ closes \in Nat
      BY DEF Init
    <2>5. closed \in BOOLEAN /\ receiver \in BOOLEAN /\ failing \in BOOLEAN
      BY DEF Init
    <2>6. pending \in SUBSET Nat /\ taken \in SUBSET (Nat \X Answer)
      BY DEF Init
    <2> QED
      BY <2>1, <2>2, <2>3, <2>4, <2>5, <2>6 DEF TypeOK
  <1>2. IdsUnique /\ TakenOnce /\ EntryOrAnswer
    BY DEF Init, IdsUnique, TakenOnce, EntryOrAnswer, Running
  <1>3. RepliesFirst
    BY AnswerFacts DEF Init, RepliesFirst
  <1> QED
    BY <1>1, <1>2, <1>3 DEF ReplyInv, CallInv

\* What every way to end a call does to the invariant.
LEMMA EndInv ==
  ASSUME ReplyInv, NEW k \in Call, NEW how \in Ended, phase[k] \in Running,
         how = "answered" => slot[k] \notin {None, Closed},
         End(k, how)
  PROVE  ReplyInv'
  <1> USE DEF ReplyInv, CallInv
  <1>1. /\ phase' = [phase EXCEPT ![k] = how]
        /\ pending' = pending \ {id[k]}
        /\ UNCHANGED <<id, nextId, taken, slot, outgoing, receiver, replies,
                       first, closed, failing, closes>>
    BY DEF End, wireVars, endVars
  <1>2. TypeOK'
    BY <1>1 DEF TypeOK, Phase
  <1>3. \A x \in Call : phase'[x] = IF x = k THEN how ELSE phase[x]
    BY <1>1 DEF TypeOK
  <1>4. how \notin Running /\ how \notin {"new", "admitted"}
    BY DEF Ended, Running
  <1>5. IdsUnique'
    BY <1>1, <1>3, <1>4 DEF IdsUnique
  <1>6. TakenOnce'
    BY <1>1 DEF TakenOnce
  <1>7. id[k] # 0 /\ \A x \in Call : x # k => id[x] # id[k]
    BY DEF IdsUnique
  <1>8. EntryOrAnswer'
    <2>1. \A i \in pending' : \E x \in Call : id'[x] = i /\ phase'[x] \in Running
      BY <1>1, <1>3 DEF EntryOrAnswer
    <2>2. ASSUME NEW x \in Call, phase'[x] \in Running
          PROVE  /\ x # k /\ phase[x] \in Running
                 /\ id'[x] = id[x] /\ slot'[x] = slot[x] /\ taken' = taken
                 /\ id[x] \in pending' <=> id[x] \in pending
      BY <1>1, <1>3, <1>4, <1>7, <2>2
    <2> QED
      BY <2>1, <2>2 DEF EntryOrAnswer
  <1>9. RepliesFirst'
    BY <1>1, <1>3 DEF RepliesFirst
  <1> QED
    BY <1>2, <1>5, <1>6, <1>8, <1>9

LEMMA StepInv == ReplyInv /\ [Next]_vars => ReplyInv'
  <1> SUFFICES ASSUME ReplyInv, [Next]_vars PROVE ReplyInv'
    OBVIOUS
  <1>t. TypeOK /\ IdsUnique /\ TakenOnce /\ EntryOrAnswer /\ RepliesFirst
    BY DEF ReplyInv, CallInv
  <1>1. ASSUME NEW k \in Call, Start(k) PROVE ReplyInv'
    <2>1. /\ phase[k] = "new"
          /\ phase' = [phase EXCEPT ![k] = IF closed THEN "gone" ELSE "admitted"]
          /\ UNCHANGED <<id, nextId, pending, taken, slot, outgoing, receiver,
                         replies, first, closed, failing, closes>>
      BY <1>1 DEF Start, tableVars, wireVars, endVars
    <2>2. \A x \in Call : phase'[x] = phase[x] \/ (x = k /\ phase'[x] \in {"gone", "admitted"})
      BY <1>t, <2>1 DEF TypeOK
    <2>3. TypeOK'
      BY <1>t, <2>1 DEF TypeOK, Phase, Ended
    <2>4. IdsUnique'
      BY <1>t, <2>1, <2>2 DEF IdsUnique, Running
    <2>5. TakenOnce'
      BY <1>t, <2>1 DEF TakenOnce
    <2>6. EntryOrAnswer'
      <3>1. \A x \in Call : phase'[x] \in Running <=> phase[x] \in Running
        BY <2>1, <2>2 DEF Running
      <3> QED
        BY <1>t, <2>1, <3>1 DEF EntryOrAnswer
    <2>7. RepliesFirst'
      BY <1>t, <2>1, <2>2 DEF RepliesFirst
    <2> QED
      BY <2>3, <2>4, <2>5, <2>6, <2>7 DEF ReplyInv, CallInv
  <1>2. ASSUME NEW k \in Call, Insert(k) PROVE ReplyInv'
    <2>1. /\ phase[k] = "admitted"
          /\ phase' = [phase EXCEPT ![k] = "queueing"]
          /\ id' = [id EXCEPT ![k] = nextId]
          /\ nextId' = nextId + 1
          /\ pending' = pending \cup {nextId}
          /\ UNCHANGED <<taken, slot, outgoing, receiver, replies, first,
                         closed, failing, closes>>
      BY <1>2 DEF Insert, NextId, wireVars, endVars
    <2>2. /\ nextId \in Nat \ {0} /\ id \in [Call -> Nat]
          /\ phase \in [Call -> Phase] /\ pending \in SUBSET Nat
      BY <1>t DEF TypeOK
    <2>3. /\ \A x \in Call : phase'[x] = IF x = k THEN "queueing" ELSE phase[x]
          /\ \A x \in Call : id'[x] = IF x = k THEN nextId ELSE id[x]
      BY <2>1, <2>2
    <2>4. TypeOK'
      BY <1>t, <2>1 DEF TypeOK, Phase, Running
    <2>5. IdsUnique'
      <3>1. \A x \in Call : id[x] < nextId
        BY <1>t DEF IdsUnique
      <3>2. \A x \in Call : id'[x] < nextId'
        BY <2>1, <2>2, <2>3, <3>1
      <3>3. \A x \in Call : phase'[x] \in {"new", "admitted"} => slot'[x] = None
        BY <1>t, <2>1, <2>3 DEF IdsUnique
      <3>4. \A x \in Call : phase'[x] \in Running \cup {"answered"} => id'[x] # 0
        BY <1>t, <2>1, <2>2, <2>3 DEF IdsUnique
      <3>5. \A j, x \in Call : id'[j] = id'[x] /\ id'[j] # 0 => j = x
        BY <1>t, <2>2, <2>3, <3>1 DEF IdsUnique
      <3> QED
        BY <3>2, <3>3, <3>4, <3>5 DEF IdsUnique
    <2>6. TakenOnce'
      <3>1. \A a \in taken : a[1] \in Nat
        BY <1>t DEF TypeOK
      <3> QED
        BY <1>t, <2>1, <2>2, <3>1 DEF TakenOnce
    <2>7. EntryOrAnswer'
      <3>1. ASSUME NEW i \in pending'
            PROVE  \E x \in Call : id'[x] = i /\ phase'[x] \in Running
        <4>1. CASE i = nextId
          BY <2>3, <4>1 DEF Running
        <4>2. CASE i \in pending
          <5>1. PICK x \in Call : id[x] = i /\ phase[x] \in Running
            BY <1>t, <4>2 DEF EntryOrAnswer
          <5>2. x # k
            BY <2>1, <5>1 DEF Running
          <5> QED
            BY <2>3, <5>1, <5>2
        <4> QED
          BY <2>1, <4>1, <4>2
      <3>2. ASSUME NEW x \in Call, x # k, phase'[x] \in Running
            PROVE  /\ phase[x] \in Running /\ id'[x] = id[x]
                   /\ id[x] \in pending' <=> id[x] \in pending
        <4>1. id[x] < nextId /\ id[x] \in Nat
          BY <1>t, <2>2 DEF IdsUnique
        <4> QED
          BY <2>1, <2>2, <2>3, <3>2, <4>1
      <3>3. id'[k] = nextId /\ nextId \in pending' /\ slot[k] = None
        BY <1>t, <2>1, <2>3 DEF IdsUnique
      <3>4. \A a \in taken : a[1] # nextId
        BY <1>t, <2>2 DEF TakenOnce, TypeOK
      <3>5. UNCHANGED <<taken, slot>>
        BY <2>1
      <3> QED
        BY <1>t, <3>1, <3>2, <3>3, <3>4, <3>5 DEF EntryOrAnswer
    <2>8. RepliesFirst'
      <3>1. \A i \in Ids : i \in Nat
        BY DEF Ids
      <3>2. \A i \in Ids : i \in pending' \/ i >= nextId' => first'[i] = None
        BY <1>t, <2>1, <2>2, <3>1 DEF RepliesFirst
      <3>3. ASSUME NEW x \in Call, slot'[x] \notin {None, Closed}
            PROVE  id'[x] \in Ids /\ slot'[x] = first'[id'[x]]
        <4>1. slot[k] = None
          BY <1>t, <2>1 DEF IdsUnique
        <4>2. x # k /\ id'[x] = id[x]
          BY <2>1, <2>3, <3>3, <4>1
        <4> QED
          BY <1>t, <2>1, <3>3, <4>2 DEF RepliesFirst
      <3> QED
        BY <1>t, <2>1, <2>3, <3>2, <3>3 DEF RepliesFirst
    <2> QED
      BY <2>4, <2>5, <2>6, <2>7, <2>8 DEF ReplyInv, CallInv
  <1>3. ASSUME NEW k \in Call, Send(k) PROVE ReplyInv'
    <2>1. /\ phase[k] = "queueing" /\ Len(outgoing) < Buffer
          /\ phase' = [phase EXCEPT ![k] = "waiting"]
          /\ outgoing' = Append(outgoing, id[k])
          /\ UNCHANGED <<id, nextId, pending, taken, slot, receiver, replies,
                         first, closed, failing, closes>>
      BY <1>3 DEF Send, tableVars, endVars
    <2>2. \A x \in Call : phase'[x] = IF x = k THEN "waiting" ELSE phase[x]
      BY <1>t, <2>1 DEF TypeOK
    <2>3. TypeOK'
      <3>1. outgoing' \in Seq(Nat) /\ Len(outgoing') <= Buffer
        BY <1>t, <2>1, BoundFacts DEF TypeOK
      <3> QED
        BY <1>t, <2>1, <3>1 DEF TypeOK, Phase, Running
    <2>4. \A x \in Call : phase'[x] \in Running <=> phase[x] \in Running
      BY <2>1, <2>2 DEF Running
    <2>5. IdsUnique'
      BY <1>t, <2>1, <2>2 DEF IdsUnique, Running
    <2>6. TakenOnce'
      BY <1>t, <2>1 DEF TakenOnce
    <2>7. EntryOrAnswer'
      BY <1>t, <2>1, <2>4 DEF EntryOrAnswer
    <2>8. RepliesFirst'
      BY <1>t, <2>1, <2>2 DEF RepliesFirst
    <2> QED
      BY <2>3, <2>5, <2>6, <2>7, <2>8 DEF ReplyInv, CallInv
  <1>4. ASSUME NEW k \in Call,
               SendFails(k) \/ Receive(k) \/ TimeOut(k) \/ Cancel(k)
        PROVE  ReplyInv'
    <2>1. CASE SendFails(k)
      BY <2>1, EndInv DEF SendFails, Ended, Running
    <2>2. CASE Receive(k)
      BY <2>2, EndInv DEF Receive, Ended, Running
    <2>3. CASE TimeOut(k)
      BY <2>3, EndInv DEF TimeOut, Stuck, Ended, Running
    <2>4. CASE Cancel(k)
      BY <2>4, EndInv DEF Cancel, Ended, Running
    <2> QED
      BY <1>4, <2>1, <2>2, <2>3, <2>4
  <1>5. ASSUME Forward \/ Disconnect PROVE ReplyInv'
    <2>1. /\ UNCHANGED <<phase, id, nextId, pending, taken, slot, replies,
                         first, closed, failing, closes>>
      BY <1>5 DEF Forward, Disconnect, tableVars, endVars
    <2>2. outgoing' \in Seq(Nat) /\ Len(outgoing') <= Buffer
      <3>1. outgoing \in Seq(Nat) /\ Len(outgoing) <= Buffer /\ Buffer \in Nat
        BY <1>t, BoundFacts DEF TypeOK
      <3>2. CASE outgoing' = <<>>
        BY <3>1, <3>2
      <3>3. CASE outgoing # <<>> /\ outgoing' = Tail(outgoing)
        <4>1. Tail(outgoing) \in Seq(Nat)
          BY <3>1, <3>3
        <4>2. Len(Tail(outgoing)) = Len(outgoing) - 1 /\ Len(outgoing) \in Nat
          BY <3>1, <3>3
        <4> QED
          BY <3>1, <3>3, <4>1, <4>2
      <3> QED
        BY <1>5, <3>2, <3>3 DEF Forward, Disconnect
    <2>3. receiver' \in BOOLEAN
      <3>1. CASE Forward
        BY <1>t, <3>1 DEF Forward, TypeOK
      <3>2. CASE Disconnect
        BY <3>2 DEF Disconnect
      <3> QED
        BY <1>5, <3>1, <3>2
    <2>4. TypeOK'
      BY <1>t, <2>1, <2>2, <2>3 DEF TypeOK
    <2> QED
      BY <1>t, <2>1, <2>4
      DEF ReplyInv, CallInv, IdsUnique, TakenOnce, EntryOrAnswer, RepliesFirst
  <1>6. ASSUME NEW i \in Ids, Resolve(i) PROVE ReplyInv'
    <2>1. /\ UNCHANGED <<phase, id, nextId, slot, outgoing, receiver, closed,
                         failing, closes>>
          /\ replies' = replies + 1
          /\ first' = [first EXCEPT ![i] =
                 IF i < nextId /\ first[i] = None THEN Reply(replies + 1) ELSE first[i]]
      BY <1>6 DEF Resolve, endVars
    <2>2. /\ i \in Nat /\ nextId \in Nat /\ replies \in Nat
          /\ first \in [Ids -> Answer]
      BY <1>t DEF TypeOK, Ids
    <2> DEFINE new == Reply(replies + 1)
    <2>3. new \in Answer /\ new # None /\ new # Closed
      BY <2>2, AnswerFacts
    <2> HIDE DEF new
    <2>4. \A x \in Ids : first'[x] = IF x = i /\ i < nextId /\ first[i] = None
                                     THEN new ELSE first[x]
      BY <2>1, <2>2 DEF new
    <2>5. first' \in [Ids -> Answer]
      BY <2>1, <2>2, <2>3 DEF new
    <2>6. CASE i \in pending
      <3>1. pending' = pending \ {i} /\ taken' = taken \cup {<<i, new>>}
        BY <1>6, <2>6 DEF Resolve, new
      <3>2. 0 < i /\ i < nextId /\ first[i] = None
        <4>1. PICK k \in Call : id[k] = i /\ phase[k] \in Running
          BY <1>t, <2>6 DEF EntryOrAnswer
        <4>2. i < nextId /\ i # 0
          BY <1>t, <4>1 DEF IdsUnique
        <4> QED
          BY <1>t, <2>2, <2>6, <4>2 DEF RepliesFirst
      <3>3. \A a \in taken : a[1] # i
        BY <1>t, <2>6 DEF TakenOnce
      <3>4. TypeOK'
        BY <1>t, <2>1, <2>2, <2>3, <2>5, <3>1 DEF TypeOK
      <3>5. IdsUnique'
        BY <1>t, <2>1 DEF IdsUnique
      <3>6. TakenOnce'
        BY <1>t, <2>1, <2>3, <3>1, <3>2, <3>3 DEF TakenOnce
      <3>7. EntryOrAnswer'
        <4>1. \A x \in pending' : \E k \in Call : id'[k] = x /\ phase'[k] \in Running
          BY <1>t, <2>1, <3>1 DEF EntryOrAnswer
        <4>2. ASSUME NEW k \in Call, phase'[k] \in Running
              PROVE  \/ /\ id'[k] \in pending' /\ slot'[k] = None
                        /\ \A a \in taken' : a[1] # id'[k]
                     \/ /\ id'[k] \notin pending' /\ slot'[k] = None
                        /\ \E a \in taken' : a[1] = id'[k]
                     \/ /\ id'[k] \notin pending' /\ slot'[k] # None
                        /\ \A a \in taken' : a[1] # id'[k]
          <5>1. phase[k] \in Running /\ id'[k] = id[k] /\ slot'[k] = slot[k]
            BY <2>1, <4>2
          <5>2. CASE id[k] = i
            <6>1. slot[k] = None /\ i \notin pending'
              BY <1>t, <2>6, <3>1, <5>1, <5>2 DEF EntryOrAnswer
            <6>2. <<i, new>> \in taken' /\ <<i, new>>[1] = i
              BY <3>1
            <6> QED
              BY <5>1, <5>2, <6>1, <6>2
          <5>3. CASE id[k] # i
            BY <1>t, <3>1, <5>1, <5>3 DEF EntryOrAnswer
          <5> QED
            BY <5>2, <5>3
        <4> QED
          BY <4>1, <4>2 DEF EntryOrAnswer
      <3>8. RepliesFirst'
        <4>1. \A x \in Ids : x \in pending' \/ x >= nextId' => first'[x] = None
          BY <1>t, <2>1, <2>2, <2>4, <3>1, <3>2 DEF RepliesFirst, Ids
        <4>2. \A a \in taken' : a[2] # Closed => a[1] \in Ids /\ a[2] = first'[a[1]]
          BY <1>t, <2>4, <3>1, <3>2, <3>3 DEF RepliesFirst
        <4>3. ASSUME NEW k \in Call, slot'[k] \notin {None, Closed}
              PROVE  id'[k] \in Ids /\ slot'[k] = first'[id'[k]]
          <5>1. id[k] \in Ids /\ slot[k] = first[id[k]] /\ slot[k] # None
            BY <1>t, <2>1, <4>3 DEF RepliesFirst
          <5> QED
            BY <2>1, <2>4, <3>2, <5>1
        <4> QED
          BY <1>t, <2>1, <4>1, <4>2, <4>3 DEF RepliesFirst
      <3> QED
        BY <3>4, <3>5, <3>6, <3>7, <3>8 DEF ReplyInv, CallInv
    <2>7. CASE i \notin pending
      <3>1. UNCHANGED <<pending, taken>>
        BY <1>6, <2>7 DEF Resolve
      <3>2. TypeOK'
        BY <1>t, <2>1, <2>2, <2>5, <3>1 DEF TypeOK
      <3>3. RepliesFirst'
        <4>1. \A x \in Ids : x \in pending' \/ x >= nextId' => first'[x] = None
          BY <1>t, <2>1, <2>2, <2>4, <2>7, <3>1 DEF RepliesFirst, Ids
        <4>2. ASSUME NEW a \in taken', a[2] # Closed
              PROVE  a[1] \in Ids /\ a[2] = first'[a[1]]
          <5>1. a[1] \in Ids /\ a[2] = first[a[1]] /\ a[2] # None
            BY <1>t, <3>1, <4>2 DEF RepliesFirst, TakenOnce
          <5> QED
            BY <2>4, <5>1
        <4>3. ASSUME NEW k \in Call, slot'[k] \notin {None, Closed}
              PROVE  id'[k] \in Ids /\ slot'[k] = first'[id'[k]]
          <5>1. id[k] \in Ids /\ slot[k] = first[id[k]] /\ slot[k] # None
            BY <1>t, <2>1, <4>3 DEF RepliesFirst
          <5> QED
            BY <2>1, <2>4, <5>1
        <4> QED
          BY <1>t, <2>1, <4>1, <4>2, <4>3 DEF RepliesFirst
      <3> QED
        BY <1>t, <2>1, <3>1, <3>2, <3>3
        DEF ReplyInv, CallInv, IdsUnique, TakenOnce, EntryOrAnswer
    <2> QED
      BY <2>6, <2>7
  <1>7. ASSUME NEW p \in taken, Deliver(p[1], p[2]) PROVE ReplyInv'
    <2> DEFINE i == p[1]
               answer == p[2]
    <2>1. /\ taken' = taken \ {<<i, answer>>}
          /\ slot' = [k \in Call |->
                        IF id[k] = i /\ phase[k] \in Running THEN answer ELSE slot[k]]
          /\ UNCHANGED <<phase, id, nextId, pending, outgoing, receiver,
                         replies, first, closed, failing, closes>>
      BY <1>7 DEF Deliver, tableVars, wireVars, endVars
    <2>2. p = <<i, answer>> /\ i \in Nat /\ answer \in Answer
      BY <1>t DEF TypeOK
    <2>3. 0 < i /\ i < nextId /\ i \notin pending /\ answer # None
      BY <1>t DEF TakenOnce
    <2>4. \A a \in taken : a \in taken' <=> a[1] # i
      BY <1>t, <2>1, <2>2 DEF TakenOnce
    <2>5. answer # Closed => i \in Ids /\ answer = first[i]
      BY <1>t DEF RepliesFirst
    <2>6. taken' \subseteq taken
      BY <2>1
    <2>7. TypeOK'
      BY <1>t, <2>1, <2>2, <2>6 DEF TypeOK
    <2> HIDE DEF i, answer
    <2>8. IdsUnique'
      BY <1>t, <2>1 DEF IdsUnique, Running
    <2>9. TakenOnce'
      BY <1>t, <2>1, <2>6 DEF TakenOnce
    <2>10. EntryOrAnswer'
      <3>1. ASSUME NEW k \in Call, phase'[k] \in Running
            PROVE  \/ /\ id'[k] \in pending' /\ slot'[k] = None
                      /\ \A a \in taken' : a[1] # id'[k]
                   \/ /\ id'[k] \notin pending' /\ slot'[k] = None
                      /\ \E a \in taken' : a[1] = id'[k]
                   \/ /\ id'[k] \notin pending' /\ slot'[k] # None
                      /\ \A a \in taken' : a[1] # id'[k]
        <4>1. phase[k] \in Running /\ id'[k] = id[k] /\ pending' = pending
          BY <2>1, <3>1
        <4>2. CASE id[k] = i
          <5>1. slot'[k] # None
            BY <2>1, <2>3, <4>1, <4>2
          <5> QED
            BY <2>3, <2>4, <2>6, <4>1, <4>2, <5>1
        <4>3. CASE id[k] # i
          <5>1. slot'[k] = slot[k]
            BY <2>1, <4>3
          <5> QED
            BY <1>t, <2>4, <2>6, <4>1, <4>3, <5>1 DEF EntryOrAnswer
        <4> QED
          BY <4>2, <4>3
      <3> QED
        BY <1>t, <2>1, <3>1 DEF EntryOrAnswer
    <2>11. RepliesFirst'
      <3>1. ASSUME NEW k \in Call, slot'[k] \notin {None, Closed}
            PROVE  id'[k] \in Ids /\ slot'[k] = first'[id'[k]]
        <4>1. CASE id[k] = i /\ phase[k] \in Running
          BY <2>1, <2>5, <3>1, <4>1
        <4>2. CASE ~ (id[k] = i /\ phase[k] \in Running)
          <5>1. slot'[k] = slot[k]
            BY <2>1, <4>2
          <5> QED
            BY <1>t, <2>1, <3>1, <5>1 DEF RepliesFirst
        <4> QED
          BY <4>1, <4>2
      <3>2. ASSUME NEW k \in Call, phase'[k] = "answered"
            PROVE  slot'[k] \notin {None, Closed}
        BY <1>t, <2>1, <3>2 DEF RepliesFirst, Running
      <3> QED
        BY <1>t, <2>1, <2>6, <3>1, <3>2 DEF RepliesFirst
    <2> QED
      BY <2>7, <2>8, <2>9, <2>10, <2>11 DEF ReplyInv, CallInv
  <1>8. ASSUME FailPending PROVE ReplyInv'
    BY <1>8, <1>t DEF FailPending, tableVars, wireVars, ReplyInv, CallInv,
                      TypeOK, IdsUnique, TakenOnce, EntryOrAnswer, RepliesFirst
  <1>9. ASSUME Drain PROVE ReplyInv'
    <2>1. /\ pending' = {} /\ taken' = taken \cup {<<i, Closed>> : i \in pending}
          /\ closes' = closes + 1 /\ failing' = FALSE
          /\ UNCHANGED <<phase, id, nextId, slot, outgoing, receiver, replies,
                         first, closed>>
      BY <1>9 DEF Drain, wireVars
    <2>2. \A i \in pending : i \in Nat /\ 0 < i /\ i < nextId
      <3>1. SUFFICES ASSUME NEW i \in pending
                     PROVE  i \in Nat /\ 0 < i /\ i < nextId
        OBVIOUS
      <3>2. PICK k \in Call : id[k] = i /\ phase[k] \in Running
        BY <1>t DEF EntryOrAnswer
      <3>3. i \in Nat /\ i < nextId /\ i # 0
        BY <1>t, <3>2 DEF IdsUnique, TypeOK
      <3> QED
        BY <3>3
    <2>3. TypeOK'
      <3>1. closes' \in Nat /\ taken' \in SUBSET (Nat \X Answer)
        BY <1>t, <2>1, <2>2, AnswerFacts DEF TypeOK
      <3>2. failing' \in BOOLEAN /\ pending' \in SUBSET Nat
        BY <2>1
      <3> QED
        BY <1>t, <2>1, <3>1, <3>2 DEF TypeOK
    <2>4. IdsUnique'
      BY <1>t, <2>1 DEF IdsUnique
    <2>5. TakenOnce'
      <3>1. \A a \in taken' : \/ a \in taken
                              \/ a[1] \in pending /\ a = <<a[1], Closed>>
        BY <2>1
      <3>2. \A a \in taken' : 0 < a[1] /\ a[1] < nextId /\ a[2] # None
        BY <1>t, <2>2, <3>1, AnswerFacts DEF TakenOnce
      <3>3. \A a, b \in taken' : a[1] = b[1] => a = b
        BY <1>t, <3>1 DEF TakenOnce
      <3> QED
        BY <2>1, <3>2, <3>3 DEF TakenOnce
    <2>6. EntryOrAnswer'
      <3>1. ASSUME NEW k \in Call, phase'[k] \in Running
            PROVE  \/ /\ id'[k] \notin pending' /\ slot'[k] = None
                      /\ \E a \in taken' : a[1] = id'[k]
                   \/ /\ id'[k] \notin pending' /\ slot'[k] # None
                      /\ \A a \in taken' : a[1] # id'[k]
        <4>1. phase[k] \in Running /\ id'[k] = id[k] /\ slot'[k] = slot[k]
          BY <2>1, <3>1
        <4>2. CASE id[k] \in pending
          <5>1. <<id[k], Closed>> \in taken' /\ <<id[k], Closed>>[1] = id[k]
            BY <2>1, <4>2
          <5>2. slot[k] = None
            BY <1>t, <4>1, <4>2 DEF EntryOrAnswer
          <5> QED
            BY <2>1, <4>1, <5>1, <5>2
        <4>3. CASE id[k] \notin pending
          <5>1. \A a \in taken' : a[1] = id[k] => a \in taken
            BY <2>1, <4>3
          <5>2. taken \subseteq taken'
            BY <2>1
          <5> QED
            BY <1>t, <2>1, <4>1, <4>3, <5>1, <5>2 DEF EntryOrAnswer
        <4> QED
          BY <4>2, <4>3
      <3> QED
        BY <2>1, <3>1 DEF EntryOrAnswer
    <2>7. RepliesFirst'
      <3>1. \A a \in taken' : a[2] # Closed => a \in taken
        BY <2>1
      <3> QED
        BY <1>t, <2>1, <3>1 DEF RepliesFirst
    <2> QED
      BY <2>3, <2>4, <2>5, <2>6, <2>7 DEF ReplyInv, CallInv
  <1>10. CASE UNCHANGED vars
    <2>1. TypeOK'
      BY <1>10, <1>t DEF vars, TypeOK
    <2> QED
      BY <1>10, <1>t, <2>1 DEF vars, ReplyInv, CallInv, IdsUnique, TakenOnce,
                               EntryOrAnswer, RepliesFirst
  <1> QED
    BY <1>1, <1>2, <1>3, <1>4, <1>5, <1>6, <1>7, <1>8, <1>9, <1>10
    DEF Next, Advance

LEMMA CallInvariant == Spec => []ReplyInv
  BY InitInv, StepInv, PTL DEF Spec

\* Every running call is in the pending table, or has its answer on the way, or
\* has it already, and the table holds nobody else: for any number of calls,
\* replies, timeouts, cancellations and session ends.
THEOREM NothingLeaks == Spec => []EntryOrAnswer
  BY CallInvariant, PTL DEF ReplyInv, CallInv

\* A call is answered with the first reply to its own id.
THEOREM FirstReplyAlwaysWins == Spec => []FirstReplyWins
  <1>1. ReplyInv => FirstReplyWins
    BY DEF ReplyInv, RepliesFirst, FirstReplyWins
  <1> QED
    BY <1>1, CallInvariant, PTL

=============================================================================

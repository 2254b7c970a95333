-------------------------- MODULE SubscriptionsProofs --------------------------
(* Proofs about Subscriptions for any keys, topics and bounds.                *)
(* `Survives` is proved when the application unsubscribes no handle of an     *)
(* ended group whose key it has subscribed again.  `SidesAgree` needs, in     *)
(* addition, that keys have topics of their own and that no reader            *)
(* unsubscribes in the callback of a server reset.  The refinement of Feed    *)
(* needs no such condition.                                                   *)
EXTENDS Subscriptions, SequenceTheorems, FiniteSetTheorems, TLAPS

-----------------------------------------------------------------------------
\* The operators on the client.

LEMMA Constants ==
  /\ MaxGroups \in Nat /\ NoGroup \in Group
  /\ NoGroup.epoch = 0 /\ NoGroup.at = 0 /\ NoGroup.subs = 0 /\ ~NoGroup.told /\ ~NoGroup.pending
  /\ \A k \in Key : TopicOf[k] \in Topic
  <1>1. MaxGroups \in Nat /\ \A k \in Key : TopicOf[k] \in Topic
    BY SubscriptionsAssumption
  <1>2. (CHOOSE k \in Key : TRUE) \in Key
    BY SubscriptionsAssumption
  <1>3. NoGroup \in Group
    BY <1>2 DEF NoGroup, Group
  <1>4. NoGroup.epoch = 0 /\ NoGroup.at = 0 /\ NoGroup.subs = 0 /\ ~NoGroup.told /\ ~NoGroup.pending
    BY DEF NoGroup
  <1> QED
    BY <1>1, <1>3, <1>4

\* The types of a client's fields.
LEMMA ClientFields ==
  ASSUME NEW c \in Client
  PROVE  /\ c.groups \in [Key -> Nat] /\ c.grp \in [Gid -> Group]
         /\ c.byTopic \in [Topic -> Nat] /\ c.early \in [Topic -> Seq(Sent)]
         /\ c.out \in Seq(Asked)
         /\ \A g \in Gid : /\ c.grp[g] \in Group /\ c.grp[g].key \in Key
                           /\ TopicOfGroup(c, g) \in Topic
  <1>1. /\ c.groups \in [Key -> Nat] /\ c.grp \in [Gid -> Group]
        /\ c.byTopic \in [Topic -> Nat] /\ c.early \in [Topic -> Seq(Sent)]
        /\ c.out \in Seq(Asked)
    BY DEF Client
  <1>2. \A g \in Gid : c.grp[g] \in Group /\ c.grp[g].key \in Key
    BY <1>1 DEF Group
  <1> QED
    BY <1>1, <1>2, Constants DEF TopicOfGroup

\* d is c with less: the same readers, at the same places, and no new names.
Sheds(c, d) ==
  /\ d \in Client /\ d.early = c.early
  /\ \A g \in Gid :
        /\ d.grp[g].key = c.grp[g].key /\ d.grp[g].acked = c.grp[g].acked
        /\ d.grp[g].epoch = c.grp[g].epoch /\ d.grp[g].seq = c.grp[g].seq
        /\ d.grp[g].at = c.grp[g].at /\ d.grp[g].told = c.grp[g].told
        /\ d.grp[g].over = c.grp[g].over /\ d.grp[g].subs <= c.grp[g].subs
  /\ \A k \in Key : d.groups[k] \in {0, c.groups[k]}
  /\ \A t \in Topic : d.byTopic[t] \in {0, c.byTopic[t]}

LEMMA ShedsRefl ==
  ASSUME NEW c \in Client
  PROVE  Sheds(c, c)
  <1>1. \A g \in Gid : c.grp[g].subs \in Nat
    BY ClientFields DEF Group
  <1> QED
    BY <1>1 DEF Sheds

LEMMA ShedsTrans ==
  ASSUME NEW c \in Client, NEW d, NEW e, Sheds(c, d), Sheds(d, e)
  PROVE  Sheds(c, e)
  <1>0. d \in Client /\ e \in Client
    BY DEF Sheds
  <1>1. \A g \in Gid : c.grp[g].subs \in Nat /\ d.grp[g].subs \in Nat /\ e.grp[g].subs \in Nat
    BY <1>0, ClientFields DEF Group
  <1>2. ASSUME NEW g \in Gid PROVE e.grp[g].subs <= c.grp[g].subs
    BY <1>1 DEF Sheds
  <1> QED
    BY <1>2 DEF Sheds

LEMMA DropFacts ==
  ASSUME NEW c \in Client, NEW g \in Gid
  PROVE  LET d == Drop(c, g)
             t == TopicOfGroup(c, g)
         IN  /\ d \in Client /\ d.grp = c.grp /\ d.early = c.early /\ d.out = c.out
             /\ d.groups = [c.groups EXCEPT ![c.grp[g].key] = 0]
             /\ d.byTopic = [c.byTopic EXCEPT
                               ![t] = IF c.grp[g].acked /\ @ = g THEN 0 ELSE @]
             /\ Sheds(c, d)
  <1> DEFINE t == TopicOfGroup(c, g)
             groups == [c.groups EXCEPT ![c.grp[g].key] = 0]
             byTopic == [c.byTopic EXCEPT
                           ![t] = IF c.grp[g].acked /\ @ = g THEN 0 ELSE @]
             mid == [c EXCEPT !.groups = groups]
             d == [mid EXCEPT !.byTopic = byTopic]
  <1>1. Drop(c, g) = d
    BY DEF Drop, Client
  <1>2. groups \in [Key -> Nat] /\ byTopic \in [Topic -> Nat]
    BY ClientFields
  <1>3. \A k \in Key : groups[k] \in {0, c.groups[k]}
    BY ClientFields
  <1>4. \A u \in Topic : byTopic[u] \in {0, c.byTopic[u]}
    BY ClientFields
  <1> HIDE DEF groups, byTopic
  <1>5. mid \in Client /\ mid.groups = groups /\ mid.grp = c.grp /\ mid.early = c.early
        /\ mid.out = c.out /\ mid.byTopic = c.byTopic
    BY <1>2 DEF Client
  <1> HIDE DEF mid
  <1>6. d \in Client /\ d.groups = groups /\ d.grp = c.grp /\ d.early = c.early
        /\ d.out = c.out /\ d.byTopic = byTopic
    BY <1>2, <1>5 DEF Client
  <1> HIDE DEF d
  <1>7. Sheds(c, d)
    <2>1. \A h \in Gid : c.grp[h].subs \in Nat
      BY ClientFields DEF Group
    <2> QED
      BY <1>3, <1>4, <1>6, <2>1 DEF Sheds
  <1> QED
    BY <1>1, <1>6, <1>7 DEF groups, byTopic

\* One field of one group is changed.
LEMMA GroupFacts ==
  ASSUME NEW c \in Client, NEW g \in Gid, NEW r \in Group
  PROVE  LET d == [c EXCEPT !.grp = [c.grp EXCEPT ![g] = r]]
         IN  /\ d \in Client /\ d.groups = c.groups /\ d.byTopic = c.byTopic
             /\ d.early = c.early /\ d.out = c.out
             /\ d.grp[g] = r /\ \A h \in Gid : h # g => d.grp[h] = c.grp[h]
  <1> DEFINE grp == [c.grp EXCEPT ![g] = r]
  <1>1. grp \in [Gid -> Group] /\ grp[g] = r /\ \A h \in Gid : h # g => grp[h] = c.grp[h]
    BY ClientFields
  <1> HIDE DEF grp
  <1>2. LET d == [c EXCEPT !.grp = grp]
        IN  /\ d \in Client /\ d.groups = c.groups /\ d.byTopic = c.byTopic
            /\ d.early = c.early /\ d.out = c.out /\ d.grp = grp
    BY <1>1 DEF Client
  <1> QED
    BY <1>1, <1>2 DEF grp

LEMMA SendFacts ==
  ASSUME NEW c \in Client, NEW g \in Gid
  PROVE  LET d == Send(c, g)
         IN  /\ d \in Client /\ d.groups = c.groups /\ d.byTopic = c.byTopic
             /\ Sheds(c, d)
             /\ \A h \in Gid : d.grp[h].subs = c.grp[h].subs
             /\ d.grp[g].pending /\ \A h \in Gid : h # g => d.grp[h] = c.grp[h]
             /\ \E x \in Asked : /\ x.group = g /\ d.out = Append(c.out, x)
                                 /\ x.kind = "subscribe" /\ x.topic = TopicOfGroup(c, g)
  <1> DEFINE r == [c.grp[g] EXCEPT !.pending = TRUE]
             x == [kind |-> "subscribe", group |-> g, topic |-> TopicOfGroup(c, g)]
             mid == [c EXCEPT !.grp = [c.grp EXCEPT ![g] = r]]
             d == [mid EXCEPT !.out = Append(c.out, x)]
  <1>0. c.grp[g] \in Group /\ g \in Nat
    BY ClientFields, Constants DEF Gid
  <1>1. Send(c, g) = d
    BY <1>0 DEF Send, Client
  <1>2. /\ r \in Group /\ r.pending = TRUE /\ r.key = c.grp[g].key
        /\ r.acked = c.grp[g].acked /\ r.epoch = c.grp[g].epoch /\ r.seq = c.grp[g].seq
        /\ r.at = c.grp[g].at /\ r.told = c.grp[g].told /\ r.over = c.grp[g].over
        /\ r.subs = c.grp[g].subs
    BY <1>0 DEF Group
  <1>3. x \in Asked /\ x.group = g /\ x.kind = "subscribe" /\ x.topic = TopicOfGroup(c, g)
    BY <1>0, ClientFields DEF Asked
  <1> HIDE DEF r, x
  <1>4. Append(c.out, x) \in Seq(Asked)
    BY <1>3, ClientFields
  <1>5. /\ mid \in Client /\ mid.groups = c.groups /\ mid.byTopic = c.byTopic
        /\ mid.early = c.early /\ mid.out = c.out
        /\ mid.grp[g] = r /\ \A h \in Gid : h # g => mid.grp[h] = c.grp[h]
    BY <1>2, GroupFacts
  <1> HIDE DEF mid
  <1>6. /\ d \in Client /\ d.groups = c.groups /\ d.byTopic = c.byTopic
        /\ d.early = c.early /\ d.out = Append(c.out, x) /\ d.grp = mid.grp
    BY <1>4, <1>5 DEF Client
  <1> HIDE DEF d
  <1>7. \A h \in Gid : c.grp[h].subs \in Nat
    BY ClientFields DEF Group
  <1>8. Sheds(c, d)
    BY <1>2, <1>5, <1>6, <1>7 DEF Sheds
  <1>9. (\A h \in Gid : d.grp[h].subs = c.grp[h].subs) /\ d.grp[g].pending
    BY <1>2, <1>5, <1>6
  <1> QED
    BY <1>1, <1>3, <1>5, <1>6, <1>8, <1>9

LEMMA SendUnsubscribeFacts ==
  ASSUME NEW c \in Client, NEW t \in Topic
  PROVE  LET d == SendUnsubscribe(c, t)
         IN  /\ d \in Client /\ d.groups = c.groups /\ d.byTopic = c.byTopic
             /\ d.grp = c.grp /\ Sheds(c, d)
             /\ \E x \in Asked : x.kind = "unsubscribe" /\ x.topic = t /\ d.out = Append(c.out, x)
  <1> DEFINE x == [kind |-> "unsubscribe", group |-> 0, topic |-> t]
             d == [c EXCEPT !.out = Append(c.out, x)]
  <1>1. SendUnsubscribe(c, t) = d
    BY DEF SendUnsubscribe
  <1>2. x \in Asked /\ x.kind = "unsubscribe" /\ x.topic = t
    BY DEF Asked
  <1> HIDE DEF x
  <1>3. Append(c.out, x) \in Seq(Asked)
    BY <1>2, ClientFields
  <1>4. /\ d \in Client /\ d.groups = c.groups /\ d.byTopic = c.byTopic
        /\ d.early = c.early /\ d.out = Append(c.out, x) /\ d.grp = c.grp
    BY <1>3 DEF Client
  <1> HIDE DEF d
  <1>5. \A h \in Gid : c.grp[h].subs \in Nat
    BY ClientFields DEF Group
  <1>6. Sheds(c, d)
    BY <1>4, <1>5 DEF Sheds
  <1> QED
    BY <1>1, <1>2, <1>4, <1>6

\* What sheds keeps its names right.
LEMMA ShedsLinked ==
  ASSUME NEW c \in Client, NEW d, Sheds(c, d), NEW K \in SUBSET Gid, Linked(c, K)
  PROVE  Linked(d, K)
  <1>1. ASSUME NEW k \in Key, d.groups[k] # 0
        PROVE  d.groups[k] \in K /\ d.grp[d.groups[k]].key = k
    <2>1. d.groups[k] = c.groups[k]
      BY <1>1 DEF Sheds
    <2>2. c.groups[k] \in K /\ c.grp[c.groups[k]].key = k
      BY <1>1, <2>1 DEF Linked
    <2> QED
      BY <2>1, <2>2 DEF Sheds
  <1>2. ASSUME NEW t \in Topic, d.byTopic[t] # 0
        PROVE  /\ d.byTopic[t] \in K /\ TopicOfGroup(d, d.byTopic[t]) = t
               /\ d.grp[d.byTopic[t]].acked /\ d.grp[d.byTopic[t]].epoch # 0
    <2>1. d.byTopic[t] = c.byTopic[t]
      BY <1>2 DEF Sheds
    <2>2. /\ c.byTopic[t] \in K /\ TopicOfGroup(c, c.byTopic[t]) = t
          /\ c.grp[c.byTopic[t]].acked /\ c.grp[c.byTopic[t]].epoch # 0
      BY <1>2, <2>1 DEF Linked
    <2>3. c.byTopic[t] \in Gid
      BY <2>2
    <2> QED
      BY <2>1, <2>2, <2>3 DEF Sheds, TopicOfGroup
  <1> QED
    BY <1>1, <1>2 DEF Linked

\* A group that its key names, or whose key names none, is dropped: the others
\* stay alive and dispatched.
LEMMA DropGood ==
  ASSUME NEW c \in Client, NEW g \in Gid, NEW K \in SUBSET Gid, Linked(c, K),
         Dispatched(c), c.groups[c.grp[g].key] \in {0, g}
  PROVE  /\ Dispatched(Drop(c, g))
         /\ \A L \in SUBSET K : Alive(c, L) => Alive(Drop(c, g), L \ {g})
  <1> DEFINE d == Drop(c, g)
  <1>0. 0 \notin Gid
    BY DEF Gid
  <1>1. /\ d.grp = c.grp
        /\ d.groups = [c.groups EXCEPT ![c.grp[g].key] = 0]
        /\ d.byTopic = [c.byTopic EXCEPT
                          ![TopicOfGroup(c, g)] = IF c.grp[g].acked /\ @ = g THEN 0 ELSE @]
    BY DropFacts
  <1>2. c.groups \in [Key -> Nat] /\ c.byTopic \in [Topic -> Nat]
        /\ \A h \in Gid : c.grp[h].key \in Key /\ TopicOfGroup(c, h) \in Topic
    BY ClientFields
  <1> HIDE DEF d
  <1>3. ASSUME NEW t \in Topic, d.byTopic[t] # 0
        PROVE  d.groups[d.grp[d.byTopic[t]].key] = d.byTopic[t]
    <2>1. d.byTopic[t] = c.byTopic[t]
      BY <1>1, <1>2, <1>3
    <2> DEFINE h == c.byTopic[t]
    <2>2. /\ h \in K /\ TopicOfGroup(c, h) = t /\ c.grp[h].acked
          /\ c.groups[c.grp[h].key] = h
      BY <1>3, <2>1 DEF Linked, Dispatched
    <2>3. h # g
      BY <1>0, <1>1, <1>2, <1>3, <2>1, <2>2
    <2>4. c.grp[h].key # c.grp[g].key
      BY <1>0, <2>2, <2>3
    <2> QED
      BY <1>1, <1>2, <2>1, <2>2, <2>4
  <1>4. ASSUME NEW L \in SUBSET K, Alive(c, L), NEW h \in L \ {g},
               d.grp[h].subs > 0, ~d.grp[h].over
        PROVE  d.groups[d.grp[h].key] = h
    <2>1. c.groups[c.grp[h].key] = h
      BY <1>1, <1>4 DEF Alive
    <2>2. c.grp[h].key # c.grp[g].key
      BY <1>0, <1>4, <2>1
    <2> QED
      BY <1>1, <1>2, <2>1, <2>2
  <1> QED
    BY <1>3, <1>4 DEF Dispatched, Alive, d

\* One more frame that asks for nothing, or for a known group.
LEMMA AsksAppend ==
  ASSUME NEW s \in Seq(Asked), NEW x \in Asked, NEW K, AsksFor(s, K),
         x.kind = "unsubscribe" \/ x.group \in K
  PROVE  AsksFor(Append(s, x), K)
  <1> DEFINE t == Append(s, x)
  <1>1. /\ DOMAIN t = 1..Len(s) + 1 /\ t[Len(s) + 1] = x /\ Len(s) \in Nat
        /\ \A i \in 1..Len(s) : t[i] = s[i]
        /\ DOMAIN s = 1..Len(s)
    OBVIOUS
  <1> HIDE DEF t
  <1>2. \A i \in DOMAIN t : i \in DOMAIN s \/ i = Len(s) + 1
    BY <1>1
  <1>3. AsksFor(t, K)
    BY <1>1, <1>2 DEF AsksFor
  <1> QED
    BY <1>3 DEF t

\* Only the number of handles of g changes.
LEMMA SubsFacts ==
  ASSUME NEW c \in Client, NEW g \in Gid, NEW n \in Nat
  PROVE  LET d == [c EXCEPT !.grp[g].subs = n]
         IN  /\ d \in Client /\ d.groups = c.groups /\ d.byTopic = c.byTopic
             /\ d.early = c.early /\ d.out = c.out
             /\ d.grp[g].subs = n /\ d.grp[g].key = c.grp[g].key
             /\ d.grp[g].acked = c.grp[g].acked /\ d.grp[g].over = c.grp[g].over
             /\ d.grp[g].epoch = c.grp[g].epoch /\ d.grp[g].seq = c.grp[g].seq
             /\ d.grp[g].at = c.grp[g].at /\ d.grp[g].told = c.grp[g].told
             /\ d.grp[g].pending = c.grp[g].pending
             /\ \A h \in Gid : h # g => d.grp[h] = c.grp[h]
             /\ n <= c.grp[g].subs => Sheds(c, d)
  <1> DEFINE r == [c.grp[g] EXCEPT !.subs = n]
             d == [c EXCEPT !.grp = [c.grp EXCEPT ![g] = r]]
  <1>0. c.grp[g] \in Group /\ \A h \in Gid : c.grp[h].subs \in Nat
    BY ClientFields DEF Group
  <1>1. [c EXCEPT !.grp[g].subs = n] = d
    BY <1>0 DEF Client
  <1>2. /\ r \in Group /\ r.subs = n /\ r.key = c.grp[g].key
        /\ r.acked = c.grp[g].acked /\ r.epoch = c.grp[g].epoch /\ r.seq = c.grp[g].seq
        /\ r.at = c.grp[g].at /\ r.told = c.grp[g].told /\ r.over = c.grp[g].over
        /\ r.pending = c.grp[g].pending
    BY <1>0 DEF Group
  <1> HIDE DEF r
  <1>3. /\ d \in Client /\ d.groups = c.groups /\ d.byTopic = c.byTopic
        /\ d.early = c.early /\ d.out = c.out
        /\ d.grp[g] = r /\ \A h \in Gid : h # g => d.grp[h] = c.grp[h]
    BY <1>2, GroupFacts
  <1> HIDE DEF d
  <1>4. n <= c.grp[g].subs => Sheds(c, d)
    BY <1>0, <1>2, <1>3 DEF Sheds
  <1> QED
    BY <1>1, <1>2, <1>3, <1>4

\* A client whose groups are alive and dispatched by their names.
Good(c, known) == Linked(c, known) /\ Alive(c, known) /\ Dispatched(c)

LEMMA RemoveHandleFacts ==
  ASSUME NEW c \in Client, NEW g \in Gid, NEW n \in Nat, n <= c.grp[g].subs,
         NEW isReady \in BOOLEAN
  PROVE  LET d == RemoveHandle(c, g, n, isReady)
         IN  /\ Sheds(c, d)
             /\ \A K : AsksFor(c.out, K) => AsksFor(d.out, K)
             /\ \A K \in SUBSET Gid :
                   Good(c, K) /\ c.groups[c.grp[g].key] \in {0, g} => Good(d, K)
  <1> DEFINE left == [c EXCEPT !.grp[g].subs = n]
             less == Drop(left, g)
             t == TopicOfGroup(c, g)
             d == RemoveHandle(c, g, n, isReady)
  <1>0. c.grp[g].subs \in Nat /\ t \in Topic /\ \A h \in Gid : c.grp[h].key \in Key
    BY ClientFields DEF Group
  <1>1. /\ left \in Client /\ left.groups = c.groups /\ left.byTopic = c.byTopic
        /\ left.out = c.out /\ left.grp[g].subs = n
        /\ left.grp[g].key = c.grp[g].key /\ left.grp[g].over = c.grp[g].over
        /\ \A h \in Gid : h # g => left.grp[h] = c.grp[h]
        /\ Sheds(c, left)
    BY SubsFacts
  <1>2. \/ d = left
        \/ n = 0 /\ d = SendUnsubscribe(less, t)
        \/ n = 0 /\ d = less
    BY DEF RemoveHandle
  <1> HIDE DEF d, left
  <1>3. less \in Client /\ less.out = c.out /\ less.grp = left.grp /\ Sheds(left, less)
    BY <1>1, DropFacts
  <1>4. ASSUME NEW K \in SUBSET Gid, Good(c, K), c.groups[c.grp[g].key] \in {0, g}
        PROVE  Good(left, K) /\ (n = 0 => Good(less, K))
    <2>1. Linked(left, K)
      BY <1>1, <1>4, ShedsLinked DEF Good
    <2>2. \A h \in Gid : /\ left.grp[h].key = c.grp[h].key
                         /\ left.grp[h].over = c.grp[h].over
                         /\ left.grp[h].subs <= c.grp[h].subs
                         /\ c.grp[h].subs \in Nat /\ left.grp[h].subs \in Nat
      BY <1>1, ClientFields DEF Sheds, Group
    <2>3. Dispatched(left)
      <3>1. \A u \in Topic : c.byTopic[u] # 0 => c.byTopic[u] \in Gid
        BY <1>4 DEF Good, Linked
      <3> QED
        BY <1>1, <1>4, <2>2, <3>1 DEF Good, Dispatched
    <2>4. Alive(left, K)
      <3>1. ASSUME NEW h \in K, left.grp[h].subs > 0, ~left.grp[h].over
            PROVE  left.groups[left.grp[h].key] = h
        BY <1>1, <1>4, <2>2, <3>1 DEF Good, Alive
      <3> QED
        BY <3>1 DEF Alive
    <2>5. ASSUME n = 0 PROVE Good(less, K)
      <3>1. left.groups[left.grp[g].key] \in {0, g}
        BY <1>1, <1>4
      <3>2. Dispatched(less) /\ Alive(less, K \ {g})
        BY <1>1, <2>1, <2>3, <2>4, <3>1, DropGood
      <3>3. less.grp[g].subs = 0
        BY <1>1, <1>3, <2>5
      <3>4. Alive(less, K)
        BY <3>2, <3>3 DEF Alive
      <3> QED
        BY <1>1, <1>3, <2>1, <3>2, <3>4, ShedsLinked DEF Good
    <2> QED
      BY <2>1, <2>3, <2>4, <2>5 DEF Good
  <1>5. Sheds(c, less)
    BY <1>1, <1>3, ShedsTrans
  <1>6. CASE d = left
    BY <1>1, <1>4, <1>6 DEF d
  <1>7. CASE n = 0 /\ d = less
    BY <1>3, <1>4, <1>5, <1>7 DEF d
  <1>8. CASE n = 0 /\ d = SendUnsubscribe(less, t)
    <2> HIDE DEF t, less
    <2>1. /\ d \in Client /\ d.groups = less.groups /\ d.byTopic = less.byTopic
          /\ d.grp = less.grp /\ Sheds(less, d)
          /\ \E x \in Asked : x.kind = "unsubscribe" /\ d.out = Append(less.out, x)
      BY <1>0, <1>3, <1>8, SendUnsubscribeFacts
    <2>2. Sheds(c, d)
      BY <1>5, <2>1, ShedsTrans
    <2>3. ASSUME NEW K, AsksFor(c.out, K) PROVE AsksFor(d.out, K)
      BY <1>3, <2>1, <2>3, AsksAppend, ClientFields
    <2>4. ASSUME NEW K \in SUBSET Gid, Good(less, K) PROVE Good(d, K)
      BY <2>1, <2>4 DEF Good, Linked, Alive, Dispatched, TopicOfGroup
    <2> QED
      BY <1>4, <1>8, <2>2, <2>3, <2>4 DEF d
  <1> QED
    BY <1>2, <1>6, <1>7, <1>8 DEF d

LEMMA CallbackFacts ==
  ASSUME NEW c \in Client, NEW g \in Gid, NEW leave \in BOOLEAN
  PROVE  LET d == Callback(c, g, leave)
         IN  /\ Sheds(c, d)
             /\ \A K : AsksFor(c.out, K) => AsksFor(d.out, K)
             /\ \A K \in SUBSET Gid :
                   Good(c, K) /\ c.groups[c.grp[g].key] \in {0, g} => Good(d, K)
  <1> DEFINE d == Callback(c, g, leave)
  <1>1. c.grp[g].subs \in Nat /\ 0 \in Nat
    BY ClientFields DEF Group
  <1>2. CASE d = c
    BY <1>2, ShedsRefl
  <1>3. CASE d = RemoveHandle(c, g, 0, TRUE)
    <2>1. 0 <= c.grp[g].subs /\ TRUE \in BOOLEAN
      BY <1>1
    <2> HIDE DEF d
    <2>2. /\ Sheds(c, d)
          /\ \A K : AsksFor(c.out, K) => AsksFor(d.out, K)
          /\ \A K \in SUBSET Gid :
                Good(c, K) /\ c.groups[c.grp[g].key] \in {0, g} => Good(d, K)
      BY <1>1, <1>3, <2>1, RemoveHandleFacts
    <2> QED
      BY <2>2 DEF d
  <1> QED
    BY <1>2, <1>3 DEF Callback

\* What sheds no name keeps the client good.
LEMMA ShedsGood ==
  ASSUME NEW c \in Client, NEW d, Sheds(c, d), d.groups = c.groups,
         d.byTopic = c.byTopic, NEW K \in SUBSET Gid, Good(c, K)
  PROVE  Good(d, K)
  <1>1. Linked(d, K)
    BY ShedsLinked DEF Good
  <1>2. \A h \in Gid : /\ d.grp[h].key = c.grp[h].key /\ d.grp[h].over = c.grp[h].over
                       /\ d.grp[h].subs <= c.grp[h].subs
                       /\ c.grp[h].subs \in Nat /\ d.grp[h].subs \in Nat
    BY ClientFields DEF Sheds, Group
  <1>3. Dispatched(d)
    <2>1. \A u \in Topic : c.byTopic[u] # 0 => c.byTopic[u] \in Gid
      BY DEF Good, Linked
    <2> QED
      BY <1>2, <2>1 DEF Good, Dispatched
  <1>4. ASSUME NEW h \in K, d.grp[h].subs > 0, ~d.grp[h].over
        PROVE  d.groups[d.grp[h].key] = h
    BY <1>2, <1>4 DEF Good, Alive
  <1> QED
    BY <1>1, <1>3, <1>4 DEF Good, Alive

\* An answer has come, whatever it is.
Unset(c, g) == [c EXCEPT !.grp[g].pending = FALSE]

LEMMA PendingFacts ==
  ASSUME NEW c \in Client, NEW g \in Gid
  PROVE  LET d == Unset(c, g)
         IN  /\ Sheds(c, d) /\ d.groups = c.groups /\ d.byTopic = c.byTopic
             /\ d.out = c.out
             /\ \A h \in Gid : d.grp[h].subs = c.grp[h].subs
             /\ ~d.grp[g].pending /\ \A h \in Gid : h # g => d.grp[h] = c.grp[h]
  <1> DEFINE r == [c.grp[g] EXCEPT !.pending = FALSE]
             d == [c EXCEPT !.grp = [c.grp EXCEPT ![g] = r]]
  <1>0. c.grp[g] \in Group /\ \A h \in Gid : c.grp[h].subs \in Nat
    BY ClientFields DEF Group
  <1>1. Unset(c, g) = d
    BY <1>0 DEF Client, Unset
  <1>2. /\ r \in Group /\ r.subs = c.grp[g].subs /\ r.key = c.grp[g].key
        /\ r.acked = c.grp[g].acked /\ r.epoch = c.grp[g].epoch /\ r.seq = c.grp[g].seq
        /\ r.at = c.grp[g].at /\ r.told = c.grp[g].told /\ r.over = c.grp[g].over
        /\ ~r.pending
    BY <1>0 DEF Group
  <1> HIDE DEF r
  <1>3. /\ d \in Client /\ d.groups = c.groups /\ d.byTopic = c.byTopic
        /\ d.early = c.early /\ d.out = c.out
        /\ d.grp[g] = r /\ \A h \in Gid : h # g => d.grp[h] = c.grp[h]
    BY <1>2, GroupFacts
  <1> HIDE DEF d
  <1>4. Sheds(c, d)
    BY <1>0, <1>2, <1>3 DEF Sheds
  <1> QED
    BY <1>1, <1>2, <1>3, <1>4

\* d is c with the readers of g at another place.
Turns(c, d, g) ==
  /\ d \in Client /\ d.groups = c.groups /\ d.byTopic = c.byTopic
  /\ d.early = c.early /\ d.out = c.out
  /\ d.grp[g].key = c.grp[g].key /\ d.grp[g].over = c.grp[g].over
  /\ d.grp[g].subs = c.grp[g].subs /\ d.grp[g].pending = c.grp[g].pending
  /\ (c.grp[g].acked => d.grp[g].acked)
  /\ \A h \in Gid : h # g => d.grp[h] = c.grp[h]

LEMMA TurnsTrans ==
  ASSUME NEW c, NEW d, NEW e, NEW g, Turns(c, d, g), Turns(d, e, g)
  PROVE  Turns(c, e, g)
  BY DEF Turns

LEMMA TurnsGood ==
  ASSUME NEW c \in Client, NEW d, NEW g \in Gid, Turns(c, d, g), d.grp[g].epoch # 0,
         NEW K \in SUBSET Gid
  PROVE  /\ Linked(c, K) => Linked(d, K)
         /\ Good(c, K) => Good(d, K)
  <1>1. \A h \in Gid : d.grp[h].key = c.grp[h].key /\ d.grp[h].over = c.grp[h].over
                       /\ d.grp[h].subs = c.grp[h].subs
                       /\ (c.grp[h].acked => d.grp[h].acked)
                       /\ (c.grp[h].epoch # 0 => d.grp[h].epoch # 0)
    BY DEF Turns
  <1>2. d.groups = c.groups /\ d.byTopic = c.byTopic
    BY DEF Turns
  <1>3. ASSUME Linked(c, K) PROVE Linked(d, K)
    <2>1. \A k \in Key : c.groups[k] # 0 => c.groups[k] \in K /\ c.groups[k] \in Gid
      BY <1>3 DEF Linked
    <2>2. \A t \in Topic : c.byTopic[t] # 0 => c.byTopic[t] \in K /\ c.byTopic[t] \in Gid
      BY <1>3 DEF Linked
    <2> QED
      BY <1>1, <1>2, <1>3, <2>1, <2>2 DEF Linked, TopicOfGroup
  <1>4. ASSUME Good(c, K) PROVE Good(d, K)
    <2>1. \A t \in Topic : c.byTopic[t] # 0 => c.byTopic[t] \in Gid
      BY <1>4 DEF Good, Linked
    <2>2. Dispatched(d)
      BY <1>1, <1>2, <1>4, <2>1 DEF Good, Dispatched
    <2>3. Alive(d, K)
      BY <1>1, <1>2, <1>4 DEF Good, Alive
    <2> QED
      BY <1>3, <1>4, <2>2, <2>3 DEF Good
  <1> QED
    BY <1>3, <1>4

Placed(c, g, e, s) == [c EXCEPT !.grp[g].epoch = e, !.grp[g].seq = s]

LEMMA PlaceFacts ==
  ASSUME NEW c \in Client, NEW g \in Gid, NEW e \in Nat, NEW s \in Nat
  PROVE  LET d == Placed(c, g, e, s)
         IN  /\ Turns(c, d, g) /\ d.grp[g].epoch = e /\ d.grp[g].seq = s
             /\ d.grp[g].at = c.grp[g].at /\ d.grp[g].told = c.grp[g].told
  <1> DEFINE q == [c.grp[g] EXCEPT !.epoch = e]
             r == [q EXCEPT !.seq = s]
             d == [c EXCEPT !.grp = [c.grp EXCEPT ![g] = r]]
  <1>0. c.grp[g] \in Group
    BY ClientFields
  <1>1. Placed(c, g, e, s) = d
    BY <1>0, ClientFields DEF Client, Placed
  <1>2. /\ r \in Group /\ r.subs = c.grp[g].subs /\ r.key = c.grp[g].key
        /\ r.acked = c.grp[g].acked /\ r.epoch = e /\ r.seq = s
        /\ r.at = c.grp[g].at /\ r.told = c.grp[g].told /\ r.over = c.grp[g].over
        /\ r.pending = c.grp[g].pending
    BY <1>0 DEF Group
  <1> HIDE DEF r
  <1>3. /\ d \in Client /\ d.groups = c.groups /\ d.byTopic = c.byTopic
        /\ d.early = c.early /\ d.out = c.out
        /\ d.grp[g] = r /\ \A h \in Gid : h # g => d.grp[h] = c.grp[h]
    BY <1>2, GroupFacts
  <1> HIDE DEF d
  <1> QED
    BY <1>1, <1>2, <1>3 DEF Turns

LEMMA AtFacts ==
  ASSUME NEW c \in Client, NEW g \in Gid, NEW p \in Nat
  PROVE  LET d == [c EXCEPT !.grp[g].at = p]
         IN  /\ Turns(c, d, g) /\ d.grp[g].epoch = c.grp[g].epoch
             /\ d.grp[g].seq = c.grp[g].seq
             /\ d.grp[g].at = p /\ d.grp[g].told = c.grp[g].told
  <1> DEFINE r == [c.grp[g] EXCEPT !.at = p]
             d == [c EXCEPT !.grp = [c.grp EXCEPT ![g] = r]]
  <1>0. c.grp[g] \in Group
    BY ClientFields
  <1>1. [c EXCEPT !.grp[g].at = p] = d
    BY <1>0, ClientFields DEF Client
  <1>2. /\ r \in Group /\ r.subs = c.grp[g].subs /\ r.key = c.grp[g].key
        /\ r.acked = c.grp[g].acked /\ r.epoch = c.grp[g].epoch /\ r.seq = c.grp[g].seq
        /\ r.at = p /\ r.told = c.grp[g].told /\ r.over = c.grp[g].over
        /\ r.pending = c.grp[g].pending
    BY <1>0 DEF Group
  <1> HIDE DEF r
  <1>3. /\ d \in Client /\ d.groups = c.groups /\ d.byTopic = c.byTopic
        /\ d.early = c.early /\ d.out = c.out
        /\ d.grp[g] = r /\ \A h \in Gid : h # g => d.grp[h] = c.grp[h]
    BY <1>2, GroupFacts
  <1> HIDE DEF d
  <1> QED
    BY <1>1, <1>2, <1>3 DEF Turns

LEMMA TellFacts ==
  ASSUME NEW c \in Client, NEW g \in Gid, NEW f \in Sent
  PROVE  LET d == TellGap(c, g, f)
         IN  /\ Turns(c, d, g) /\ d.grp[g].epoch = c.grp[g].epoch
             /\ d.grp[g].seq = c.grp[g].seq
             /\ d.grp[g].at = f.pos /\ d.grp[g].told # c.grp[g].told
  <1> DEFINE q == [c.grp[g] EXCEPT !.told = ~c.grp[g].told]
             r == [q EXCEPT !.at = f.pos]
             d == [c EXCEPT !.grp = [c.grp EXCEPT ![g] = r]]
  <1>0. c.grp[g] \in Group /\ f.pos \in Nat
    BY ClientFields DEF Sent
  <1>1. TellGap(c, g, f) = d
    BY <1>0, ClientFields DEF TellGap, Client
  <1>2. (~c.grp[g].told) \in BOOLEAN
    OBVIOUS
  <1>3. /\ q \in Group /\ q.subs = c.grp[g].subs /\ q.key = c.grp[g].key
        /\ q.acked = c.grp[g].acked /\ q.epoch = c.grp[g].epoch /\ q.seq = c.grp[g].seq
        /\ q.at = c.grp[g].at /\ q.told = ~c.grp[g].told /\ q.over = c.grp[g].over
        /\ q.pending = c.grp[g].pending
    BY <1>0, <1>2 DEF Group
  <1> HIDE DEF q
  <1>4. /\ r \in Group /\ r.subs = q.subs /\ r.key = q.key
        /\ r.acked = q.acked /\ r.epoch = q.epoch /\ r.seq = q.seq
        /\ r.at = f.pos /\ r.told = q.told /\ r.over = q.over
        /\ r.pending = q.pending
    BY <1>0, <1>3 DEF Group
  <1>5. r.told # c.grp[g].told
    BY <1>3, <1>4
  <1> HIDE DEF r
  <1>6. /\ d \in Client /\ d.groups = c.groups /\ d.byTopic = c.byTopic
        /\ d.early = c.early /\ d.out = c.out
        /\ d.grp[g] = r /\ \A h \in Gid : h # g => d.grp[h] = c.grp[h]
    BY <1>4, GroupFacts
  <1> HIDE DEF d
  <1> QED
    BY <1>1, <1>3, <1>4, <1>5, <1>6 DEF Turns

-----------------------------------------------------------------------------
\* The handlers of the server's frames.

Same(c, d, g) ==
  /\ d.grp[g].epoch = c.grp[g].epoch /\ d.grp[g].seq = c.grp[g].seq
  /\ d.grp[g].at = c.grp[g].at /\ d.grp[g].told = c.grp[g].told

At(d, g, f) == d.grp[g].epoch = f.epoch /\ d.grp[g].seq = f.seq /\ d.grp[g].at = f.pos

\* What the frame f may do to the readers of g: they are told of a gap, handed
\* the next message or acknowledged, and are at f then; or they are told that
\* the server ended the subscription and stay in the epoch they know.
Change(c, d, g, f) ==
  /\ TopicOfGroup(c, g) = f.topic /\ f.kind \in Telling
  /\ \/ c.grp[g].epoch # 0 /\ At(d, g, f) /\ d.grp[g].told # c.grp[g].told
     \/ /\ c.grp[g].epoch # 0 /\ At(d, g, f) /\ d.grp[g].told = c.grp[g].told
        /\ f.epoch = c.grp[g].epoch /\ f.seq = c.grp[g].seq + 1
     \/ c.grp[g].epoch = 0 /\ At(d, g, f) /\ d.grp[g].told = c.grp[g].told
     \/ /\ c.grp[g].epoch # 0 /\ d.grp[g].told # c.grp[g].told
        /\ f.kind = "unsubscribed_reset" /\ d.grp[g].at = f.pos
        /\ d.grp[g].epoch = c.grp[g].epoch /\ d.grp[g].seq = c.grp[g].seq

\* Handling f leaves c as d.
Handled(c, d, f, K) ==
  /\ d \in Client
  /\ \A g \in Gid : d.grp[g].key = c.grp[g].key
  /\ \A g \in Gid : Same(c, d, g) \/ (g \in K /\ Change(c, d, g, f))
  /\ \A t \in Topic : \/ d.early[t] \in {c.early[t], <<>>}
                      \/ /\ t = f.topic /\ f.kind = "publish"
                         /\ d.early[t] = Append(c.early[t], f)
  /\ Linked(d, K) /\ AsksFor(d.out, K)
  /\ Good(c, K) => Good(d, K)

LEMMA SheddingHandled ==
  ASSUME NEW c \in Client, NEW d, NEW f, Sheds(c, d), NEW K \in SUBSET Gid, Linked(c, K),
         AsksFor(d.out, K), Good(c, K) => Good(d, K)
  PROVE  Handled(c, d, f, K)
  <1>1. Linked(d, K)
    BY ShedsLinked
  <1>2. d.early \in [Topic -> Seq(Sent)]
    BY ClientFields DEF Sheds
  <1> QED
    BY <1>1, <1>2 DEF Handled, Sheds, Same

\* The readers of g are moved, and may leave in the callback.
LEMMA TurnCallback ==
  ASSUME NEW c \in Client, NEW K \in SUBSET Gid, NEW g \in K, NEW m, Turns(c, m, g),
         m.grp[g].epoch # 0, Linked(c, K), AsksFor(c.out, K),
         Good(c, K) => c.groups[c.grp[g].key] \in {0, g},
         NEW leave \in BOOLEAN, NEW d, d = Callback(m, g, leave), NEW f, Change(c, m, g, f)
  PROVE  Handled(c, d, f, K) /\ Sheds(m, d)
  <1>0. m \in Client /\ g \in Gid
    BY DEF Turns
  <1>1. /\ Sheds(m, d)
        /\ AsksFor(m.out, K) => AsksFor(d.out, K)
        /\ Good(m, K) /\ m.groups[m.grp[g].key] \in {0, g} => Good(d, K)
    BY <1>0, CallbackFacts
  <1>2. Linked(m, K) /\ (Good(c, K) => Good(m, K))
    BY <1>0, TurnsGood
  <1>3. /\ m.groups = c.groups /\ m.grp[g].key = c.grp[g].key /\ m.out = c.out
        /\ m.early = c.early /\ \A h \in Gid : h # g => m.grp[h] = c.grp[h]
    BY DEF Turns
  <1>4. Linked(d, K) /\ AsksFor(d.out, K) /\ (Good(c, K) => Good(d, K))
    BY <1>0, <1>1, <1>2, <1>3, ShedsLinked
  <1>5. /\ d \in Client /\ d.early = m.early
        /\ \A h \in Gid :
             /\ d.grp[h].key = m.grp[h].key /\ d.grp[h].epoch = m.grp[h].epoch
             /\ d.grp[h].seq = m.grp[h].seq /\ d.grp[h].at = m.grp[h].at
             /\ d.grp[h].told = m.grp[h].told
    BY <1>1 DEF Sheds
  <1>6. \A h \in Gid : h # g => Same(c, d, h)
    BY <1>3, <1>5 DEF Same
  <1>7. Change(c, d, g, f)
    BY <1>0, <1>5 DEF Change, At
  <1>8. \A t \in Topic : d.early[t] = c.early[t]
    BY <1>3, <1>5
  <1>9. \A h \in Gid : d.grp[h].key = c.grp[h].key
    BY <1>3, <1>5
  <1> QED
    BY <1>1, <1>4, <1>5, <1>6, <1>7, <1>8, <1>9 DEF Handled

\* The group a topic names.
LEMMA NamedFacts ==
  ASSUME NEW c \in Client, NEW K \in SUBSET Gid, Linked(c, K), NEW t \in Topic,
         c.byTopic[t] # 0
  PROVE  /\ c.byTopic[t] \in K /\ TopicOfGroup(c, c.byTopic[t]) = t
         /\ c.grp[c.byTopic[t]].epoch # 0
         /\ Good(c, K) => c.groups[c.grp[c.byTopic[t]].key] \in {0, c.byTopic[t]}
  BY DEF Linked, Good, Dispatched

LEMMA OnPublishFacts ==
  ASSUME NEW c \in Client, NEW K \in SUBSET Gid, Linked(c, K), AsksFor(c.out, K),
         NEW f \in Sent, f.kind = "publish", f.epoch # 0, NEW leave \in BOOLEAN
  PROVE  Handled(c, OnPublish(c, f, leave), f, K)
  <1> DEFINE g == c.byTopic[f.topic]
             d == OnPublish(c, f, leave)
  <1>0. f.topic \in Topic /\ f.epoch \in Nat /\ f.seq \in Nat /\ f.pos \in Nat
    BY DEF Sent
  <1>1. CASE g = 0
    <2>1. CASE d = c
      BY <2>1, ShedsRefl, SheddingHandled
    <2>2. CASE d = [c EXCEPT !.early[f.topic] = Append(@, f)]
      <3> DEFINE early == [c.early EXCEPT ![f.topic] = Append(c.early[f.topic], f)]
      <3>1. d = [c EXCEPT !.early = early]
        BY <2>2 DEF Client
      <3>2. /\ early \in [Topic -> Seq(Sent)]
            /\ early[f.topic] = Append(c.early[f.topic], f)
            /\ \A t \in Topic : t # f.topic => early[t] = c.early[t]
        BY <1>0, ClientFields
      <3> HIDE DEF early, d
      <3>3. /\ d \in Client /\ d.early = early /\ d.groups = c.groups /\ d.grp = c.grp
            /\ d.byTopic = c.byTopic /\ d.out = c.out
        BY <3>1, <3>2 DEF Client
      <3>4. Linked(d, K) /\ AsksFor(d.out, K) /\ (Good(c, K) => Good(d, K))
        BY <3>3 DEF Linked, Good, Alive, Dispatched, TopicOfGroup
      <3>5. Handled(c, d, f, K)
        BY <3>2, <3>3, <3>4 DEF Handled, Same
      <3> QED
        BY <3>5 DEF d
    <2> QED
      BY <1>1, <2>1, <2>2 DEF OnPublish
  <1>2. CASE g # 0
    <2> DEFINE gap == f.epoch # c.grp[g].epoch \/ f.seq # c.grp[g].seq + 1
               moved == Placed(c, g, f.epoch, f.seq)
               m == IF gap THEN TellGap(moved, g, f) ELSE [moved EXCEPT !.grp[g].at = f.pos]
    <2>1. d = Callback(m, g, leave)
      BY <1>2 DEF OnPublish, Placed
    <2>2. /\ g \in K /\ g \in Gid /\ TopicOfGroup(c, g) = f.topic /\ c.grp[g].epoch # 0
          /\ Good(c, K) => c.groups[c.grp[g].key] \in {0, g}
      BY <1>0, <1>2, NamedFacts
    <2> HIDE DEF g
    <2>3. /\ Turns(c, moved, g) /\ moved.grp[g].epoch = f.epoch
          /\ moved.grp[g].seq = f.seq /\ moved.grp[g].told = c.grp[g].told
      BY <1>0, <2>2, PlaceFacts
    <2> HIDE DEF moved
    <2>4. moved \in Client
      BY <2>3 DEF Turns
    <2>5. CASE gap
      <3>1. /\ Turns(moved, m, g) /\ m.grp[g].epoch = f.epoch /\ m.grp[g].seq = f.seq
            /\ m.grp[g].at = f.pos /\ m.grp[g].told # c.grp[g].told
        BY <2>2, <2>3, <2>4, <2>5, TellFacts
      <3> HIDE DEF m, d
      <3>2. Turns(c, m, g)
        BY <2>3, <3>1, TurnsTrans
      <3>3. Change(c, m, g, f)
        BY <2>2, <3>1 DEF Change, At, Telling
      <3>4. Handled(c, d, f, K)
        BY <2>1, <2>2, <3>1, <3>2, <3>3, TurnCallback
      <3> QED
        BY <3>4 DEF d
    <2>6. CASE ~gap
      <3>1. /\ Turns(moved, m, g) /\ m.grp[g].epoch = f.epoch /\ m.grp[g].seq = f.seq
            /\ m.grp[g].at = f.pos /\ m.grp[g].told = c.grp[g].told
        BY <1>0, <2>2, <2>3, <2>4, <2>6, AtFacts
      <3> HIDE DEF m, d
      <3>2. Turns(c, m, g)
        BY <2>3, <3>1, TurnsTrans
      <3>3. Change(c, m, g, f)
        BY <2>2, <2>6, <3>1 DEF Change, At, Telling
      <3>4. Handled(c, d, f, K)
        BY <2>1, <2>2, <3>1, <3>2, <3>3, TurnCallback
      <3> QED
        BY <3>4 DEF d
    <2> QED
      BY <2>5, <2>6
  <1> QED
    BY <1>1, <1>2

LEMMA OnResetFacts ==
  ASSUME NEW c \in Client, NEW K \in SUBSET Gid, Linked(c, K), AsksFor(c.out, K),
         NEW f \in Sent, f.kind = "reset", f.epoch # 0, NEW leave \in BOOLEAN
  PROVE  Handled(c, OnReset(c, f, leave), f, K)
  <1> DEFINE g == c.byTopic[f.topic]
             d == OnReset(c, f, leave)
  <1>0. f.topic \in Topic /\ f.epoch \in Nat /\ f.seq \in Nat /\ f.pos \in Nat
    BY DEF Sent
  <1>1. CASE g = 0
    BY <1>1, ShedsRefl, SheddingHandled DEF OnReset
  <1>2. CASE g # 0
    <2> DEFINE moved == Placed(c, g, f.epoch, f.seq)
               m == TellGap(moved, g, f)
    <2>1. d = Callback(m, g, leave)
      BY <1>2 DEF OnReset, Placed
    <2>2. /\ g \in K /\ g \in Gid /\ TopicOfGroup(c, g) = f.topic /\ c.grp[g].epoch # 0
          /\ Good(c, K) => c.groups[c.grp[g].key] \in {0, g}
      BY <1>0, <1>2, NamedFacts
    <2> HIDE DEF g
    <2>3. /\ Turns(c, moved, g) /\ moved.grp[g].epoch = f.epoch
          /\ moved.grp[g].seq = f.seq /\ moved.grp[g].told = c.grp[g].told
      BY <1>0, <2>2, PlaceFacts
    <2> HIDE DEF moved
    <2>4. moved \in Client
      BY <2>3 DEF Turns
    <2>5. /\ Turns(moved, m, g) /\ m.grp[g].epoch = f.epoch /\ m.grp[g].seq = f.seq
          /\ m.grp[g].at = f.pos /\ m.grp[g].told # c.grp[g].told
      BY <2>2, <2>3, <2>4, TellFacts
    <2> HIDE DEF m, d
    <2>6. Turns(c, m, g)
      BY <2>3, <2>5, TurnsTrans
    <2>7. Change(c, m, g, f)
      BY <2>2, <2>5 DEF Change, At, Telling
    <2>8. Handled(c, d, f, K)
      BY <2>1, <2>2, <2>5, <2>6, <2>7, TurnCallback
    <2> QED
      BY <2>8 DEF d
  <1> QED
    BY <1>1, <1>2

\* Handling a frame after, and before, something is shed.
LEMMA ShedsThenHandled ==
  ASSUME NEW c \in Client, NEW m, NEW d, NEW f, NEW K \in SUBSET Gid, Sheds(c, m),
         Good(c, K) => Good(m, K), Handled(m, d, f, K)
  PROVE  Handled(c, d, f, K)
  <1>1. /\ m.early = c.early
        /\ \A g \in Gid :
             /\ m.grp[g].key = c.grp[g].key /\ m.grp[g].epoch = c.grp[g].epoch
             /\ m.grp[g].seq = c.grp[g].seq /\ m.grp[g].at = c.grp[g].at
             /\ m.grp[g].told = c.grp[g].told
    BY DEF Sheds
  <1>2. ASSUME NEW g \in Gid, Same(m, d, g) PROVE Same(c, d, g)
    BY <1>1, <1>2 DEF Same
  <1>3. ASSUME NEW g \in Gid, Change(m, d, g, f) PROVE Change(c, d, g, f)
    BY <1>1, <1>3 DEF Change, TopicOfGroup
  <1>4. \A g \in Gid : d.grp[g].key = c.grp[g].key
    BY <1>1 DEF Handled
  <1>5. \A g \in Gid : Same(c, d, g) \/ (g \in K /\ Change(c, d, g, f))
    BY <1>2, <1>3 DEF Handled
  <1> QED
    BY <1>1, <1>4, <1>5 DEF Handled

LEMMA HandledThenSheds ==
  ASSUME NEW c \in Client, NEW m, NEW d, NEW f, NEW K \in SUBSET Gid, Handled(c, m, f, K),
         Sheds(m, d), Good(m, K) => Good(d, K), AsksFor(d.out, K)
  PROVE  Handled(c, d, f, K)
  <1>0. m \in Client /\ Linked(m, K)
    BY DEF Handled
  <1>1. /\ d \in Client /\ d.early = m.early
        /\ \A g \in Gid :
             /\ d.grp[g].key = m.grp[g].key /\ d.grp[g].epoch = m.grp[g].epoch
             /\ d.grp[g].seq = m.grp[g].seq /\ d.grp[g].at = m.grp[g].at
             /\ d.grp[g].told = m.grp[g].told
    BY DEF Sheds
  <1>2. ASSUME NEW g \in Gid, Same(c, m, g) PROVE Same(c, d, g)
    BY <1>1, <1>2 DEF Same
  <1>3. ASSUME NEW g \in Gid, Change(c, m, g, f) PROVE Change(c, d, g, f)
    BY <1>1, <1>3 DEF Change, At
  <1>4. \A g \in Gid : d.grp[g].key = c.grp[g].key
    BY <1>1 DEF Handled
  <1>5. \A g \in Gid : Same(c, d, g) \/ (g \in K /\ Change(c, d, g, f))
    BY <1>2, <1>3 DEF Handled
  <1>6. Linked(d, K)
    BY <1>0, ShedsLinked
  <1> QED
    BY <1>1, <1>4, <1>5, <1>6 DEF Handled

\* The end of a subscription, with an error or a kick.
Ended(c, g) == [Drop(c, g) EXCEPT !.grp[g].over = TRUE]

LEMMA EndedFacts ==
  ASSUME NEW c \in Client, NEW K \in SUBSET Gid, NEW g \in K, Linked(c, K),
         AsksFor(c.out, K), Good(c, K) => c.groups[c.grp[g].key] \in {0, g}, NEW f
  PROVE  Handled(c, Ended(c, g), f, K)
  <1> DEFINE less == Drop(c, g)
             r == [less.grp[g] EXCEPT !.over = TRUE]
             d == [less EXCEPT !.grp = [less.grp EXCEPT ![g] = r]]
  <1>0. /\ less \in Client /\ less.grp = c.grp /\ less.early = c.early /\ less.out = c.out
        /\ Sheds(c, less) /\ less.grp[g] \in Group
    BY DropFacts, ClientFields
  <1>1. Ended(c, g) = d
    BY <1>0, ClientFields DEF Client, Ended
  <1>2. Linked(less, K)
    BY <1>0, ShedsLinked
  <1>3. ASSUME Good(c, K) PROVE Dispatched(less) /\ Alive(less, K \ {g})
    BY <1>3, DropGood DEF Good
  <1> HIDE DEF less
  <1>4. /\ r \in Group /\ r.subs = c.grp[g].subs /\ r.key = c.grp[g].key
        /\ r.acked = c.grp[g].acked /\ r.epoch = c.grp[g].epoch /\ r.seq = c.grp[g].seq
        /\ r.at = c.grp[g].at /\ r.told = c.grp[g].told /\ r.over = TRUE
    BY <1>0 DEF Group
  <1> HIDE DEF r
  <1>5. /\ d \in Client /\ d.groups = less.groups /\ d.byTopic = less.byTopic
        /\ d.early = less.early /\ d.out = less.out
        /\ d.grp[g] = r /\ \A h \in Gid : h # g => d.grp[h] = less.grp[h]
    BY <1>0, <1>4, GroupFacts
  <1> HIDE DEF d
  <1>6. \A h \in Gid : /\ d.grp[h].key = less.grp[h].key
                       /\ d.grp[h].acked = less.grp[h].acked
                       /\ d.grp[h].epoch = less.grp[h].epoch
                       /\ Same(c, d, h) /\ less.grp[h].key = c.grp[h].key
    BY <1>0, <1>4, <1>5 DEF Same
  <1>7. Linked(d, K)
    <2>1. \A k \in Key : less.groups[k] # 0 => less.groups[k] \in Gid
      BY <1>2 DEF Linked
    <2>2. \A t \in Topic : less.byTopic[t] # 0 => less.byTopic[t] \in Gid
      BY <1>2 DEF Linked
    <2> QED
      BY <1>2, <1>5, <1>6, <2>1, <2>2 DEF Linked, TopicOfGroup
  <1>8. ASSUME Good(c, K) PROVE Good(d, K)
    <2>1. \A t \in Topic : less.byTopic[t] # 0 => less.byTopic[t] \in Gid
      BY <1>2 DEF Linked
    <2>2. Dispatched(d)
      BY <1>3, <1>5, <1>6, <1>8, <2>1 DEF Dispatched
    <2>3. Alive(d, K)
      BY <1>3, <1>4, <1>5, <1>8 DEF Alive
    <2> QED
      BY <1>7, <2>2, <2>3 DEF Good
  <1>9. Handled(c, d, f, K)
    BY <1>0, <1>5, <1>6, <1>7, <1>8 DEF Handled
  <1> QED
    BY <1>1, <1>9

LEMMA UnsetFacts ==
  ASSUME NEW c \in Client, NEW K \in SUBSET Gid, NEW g \in K
  PROVE  LET u == Unset(c, g)
         IN  /\ u \in Client /\ Sheds(c, u) /\ u.groups = c.groups
             /\ u.byTopic = c.byTopic /\ u.out = c.out
             /\ \A h \in Gid : u.grp[h].subs = c.grp[h].subs /\ u.grp[h].key = c.grp[h].key
             /\ ~u.grp[g].pending /\ \A h \in Gid : h # g => u.grp[h] = c.grp[h]
             /\ Good(c, K) => Good(u, K)
             /\ Linked(c, K) => Linked(u, K)
  <1> DEFINE u == Unset(c, g)
  <1>1. /\ Sheds(c, u) /\ u.groups = c.groups /\ u.byTopic = c.byTopic /\ u.out = c.out
        /\ \A h \in Gid : u.grp[h].subs = c.grp[h].subs
    BY PendingFacts
  <1>p. ~u.grp[g].pending /\ \A h \in Gid : h # g => u.grp[h] = c.grp[h]
    BY PendingFacts
  <1> HIDE DEF u
  <1>2. Good(c, K) => Good(u, K)
    BY <1>1, ShedsGood
  <1>3. u \in Client /\ \A h \in Gid : u.grp[h].key = c.grp[h].key
    BY <1>1 DEF Sheds
  <1>4. Linked(c, K) => Linked(u, K)
    BY <1>1, ShedsLinked
  <1> QED
    BY <1>1, <1>2, <1>3, <1>4, <1>p DEF u

LEMMA OnErrorFacts ==
  ASSUME NEW c \in Client, NEW K \in SUBSET Gid, Linked(c, K), AsksFor(c.out, K),
         NEW f, f.group \in K
  PROVE  Handled(c, OnError(c, f), f, K)
  <1> DEFINE g == f.group
             u == Unset(c, g)
  <1>1. /\ u \in Client /\ Sheds(c, u) /\ u.groups = c.groups /\ u.out = c.out
        /\ u.grp[g].key = c.grp[g].key
        /\ Good(c, K) => Good(u, K)
        /\ Linked(u, K)
    BY UnsetFacts
  <1>2. OnError(c, f) = IF c.groups[c.grp[g].key] # g THEN u ELSE Ended(u, g)
    BY DEF OnError, Unset, Ended
  <1> HIDE DEF u
  <1>3. CASE c.groups[c.grp[g].key] # g
    BY <1>1, <1>2, <1>3, SheddingHandled
  <1>4. CASE c.groups[c.grp[g].key] = g
    <2>1. Handled(u, Ended(u, g), f, K)
      BY <1>1, <1>4, EndedFacts
    <2> QED
      BY <1>1, <1>2, <1>4, <2>1, ShedsThenHandled
  <1> QED
    BY <1>3, <1>4

\* A kick ends the group its topic names.
LEMMA KickEnds ==
  ASSUME NEW c \in Client, NEW f \in Sent, NEW g \in Gid, g = c.byTopic[f.topic], g # 0,
         TopicOfGroup(c, g) = f.topic, c.grp[g].acked
  PROVE  OnKick(c, f) = Ended(c, g)
  <1> DEFINE groups == [c.groups EXCEPT ![c.grp[g].key] = 0]
             byTopic == [c.byTopic EXCEPT ![f.topic] = 0]
             one == [c EXCEPT !.byTopic = byTopic]
             two == [one EXCEPT !.groups = groups]
             less == Drop(c, g)
  <1>2. byTopic = [c.byTopic EXCEPT
                     ![f.topic] = IF c.grp[g].acked /\ @ = g THEN 0 ELSE @]
    BY ClientFields
  <1>3. less.byTopic = byTopic /\ less.groups = groups /\ less.grp = c.grp
        /\ less.early = c.early /\ less.out = c.out /\ less \in Client
    BY <1>2, DropFacts
  <1>4. OnKick(c, f) = [two EXCEPT !.grp[g].over = TRUE]
    BY DEF OnKick, Client
  <1> HIDE DEF groups, byTopic, less
  <1>5. /\ two.byTopic = byTopic /\ two.groups = groups /\ two.grp = c.grp
        /\ two.early = c.early /\ two.out = c.out
        /\ DOMAIN two = DOMAIN c /\ two \in Client
    <2>1. groups \in [Key -> Nat] /\ byTopic \in [Topic -> Nat]
      BY <1>3 DEF Client
    <2> QED
      BY <2>1 DEF Client
  <1> HIDE DEF one, two
  <1>6. two = less
    <2>1. \A x \in Client : x = [groups |-> x.groups, grp |-> x.grp, byTopic |-> x.byTopic,
                                early |-> x.early, out |-> x.out]
      BY DEF Client
    <2> QED
      BY <1>3, <1>5, <2>1
  <1> QED
    BY <1>4, <1>6 DEF Ended, less

LEMMA OnKickFacts ==
  ASSUME NEW c \in Client, NEW K \in SUBSET Gid, Linked(c, K), AsksFor(c.out, K),
         NEW f \in Sent
  PROVE  Handled(c, OnKick(c, f), f, K)
  <1> DEFINE g == c.byTopic[f.topic]
  <1>0. f.topic \in Topic
    BY DEF Sent
  <1>1. CASE g = 0
    BY <1>1, ShedsRefl, SheddingHandled DEF OnKick
  <1>2. CASE g # 0
    <2>1. /\ g \in K /\ TopicOfGroup(c, g) = f.topic /\ c.grp[g].acked
          /\ Good(c, K) => c.groups[c.grp[g].key] \in {0, g}
      BY <1>0, <1>2, NamedFacts DEF Linked
    <2>2. OnKick(c, f) = Ended(c, g)
      BY <1>2, <2>1, KickEnds
    <2> QED
      BY <2>1, <2>2, EndedFacts
  <1> QED
    BY <1>1, <1>2

\* A topic names no group any more, or another one.
LEMMA TopicFacts ==
  ASSUME NEW c \in Client, NEW t \in Topic, NEW g \in Nat
  PROVE  LET d == [c EXCEPT !.byTopic[t] = g]
         IN  /\ d \in Client /\ d.groups = c.groups /\ d.grp = c.grp /\ d.early = c.early
             /\ d.out = c.out /\ d.byTopic[t] = g
             /\ \A u \in Topic : u # t => d.byTopic[u] = c.byTopic[u]
  <1> DEFINE byTopic == [c.byTopic EXCEPT ![t] = g]
             d == [c EXCEPT !.byTopic = byTopic]
  <1>1. byTopic \in [Topic -> Nat] /\ byTopic[t] = g
        /\ \A u \in Topic : u # t => byTopic[u] = c.byTopic[u]
    BY ClientFields
  <1> HIDE DEF byTopic
  <1>2. /\ d \in Client /\ d.groups = c.groups /\ d.grp = c.grp /\ d.early = c.early
        /\ d.out = c.out /\ d.byTopic = byTopic
    BY <1>1 DEF Client
  <1> HIDE DEF d
  <1> QED
    BY <1>1, <1>2 DEF d, byTopic

\* The order of the two assignments does not matter.
Unnamed(c, t) == [c EXCEPT !.byTopic[t] = 0]

LEMMA TellUnnamed ==
  ASSUME NEW c \in Client, NEW t \in Topic, NEW g \in Gid, NEW f \in Sent
  PROVE  TellGap(Unnamed(c, t), g, f) = Unnamed(TellGap(c, g, f), t)
  <1> DEFINE q == [c.grp[g] EXCEPT !.told = ~c.grp[g].told]
             r == [q EXCEPT !.at = f.pos]
             grp == [c.grp EXCEPT ![g] = r]
             byTopic == [c.byTopic EXCEPT ![t] = 0]
             v == [c EXCEPT !.byTopic = byTopic]
  <1>0. c.grp[g] \in Group /\ c.grp \in [Gid -> Group]
    BY ClientFields
  <1>1. v.grp = c.grp /\ DOMAIN v = DOMAIN c
    BY DEF Client
  <1>2. TellGap(c, g, f) = [c EXCEPT !.grp = grp]
    BY <1>0 DEF TellGap, Client
  <1>3. TellGap(v, g, f) = [v EXCEPT !.grp = grp]
    BY <1>0, <1>1 DEF TellGap, Client
  <1> HIDE DEF grp, byTopic
  <1>4. [v EXCEPT !.grp = grp] = [[c EXCEPT !.grp = grp] EXCEPT !.byTopic = byTopic]
    BY DEF Client
  <1>5. [c EXCEPT !.grp = grp].byTopic = c.byTopic
    BY DEF Client
  <1> QED
    BY <1>2, <1>3, <1>4, <1>5 DEF byTopic, Unnamed

LEMMA OnUnsubscribedResetFacts ==
  ASSUME NEW c \in Client, NEW K \in SUBSET Gid, Linked(c, K), AsksFor(c.out, K),
         NEW f \in Sent, f.kind = "unsubscribed_reset", NEW leave \in BOOLEAN,
         NEW isReady \in BOOLEAN
  PROVE  Handled(c, OnUnsubscribedReset(c, f, isReady, leave), f, K)
  <1> DEFINE g == c.byTopic[f.topic]
             d == OnUnsubscribedReset(c, f, isReady, leave)
  <1>0. f.topic \in Topic /\ 0 \in Nat
    BY DEF Sent
  <1>1. CASE g = 0
    BY <1>1, ShedsRefl, SheddingHandled DEF OnUnsubscribedReset
  <1>2. CASE g # 0
    <2> DEFINE m == TellGap(c, g, f)
               v == Unnamed(m, f.topic)
               told == Callback(v, g, leave)
    <2>1. /\ g \in K /\ g \in Gid /\ TopicOfGroup(c, g) = f.topic /\ c.grp[g].epoch # 0
          /\ Good(c, K) => c.groups[c.grp[g].key] \in {0, g}
      BY <1>0, <1>2, NamedFacts
    <2>2. d = IF isReady THEN Send(told, g) ELSE told
      <3> DEFINE w == TellGap(Unnamed(c, f.topic), g, f)
      <3>1. d = LET x == Callback(w, g, leave) IN IF isReady THEN Send(x, g) ELSE x
        BY <1>2 DEF OnUnsubscribedReset, Unnamed
      <3>2. w = v
        BY <1>0, <2>1, TellUnnamed
      <3> HIDE DEF w, v, d, g
      <3> QED
        BY <3>1, <3>2
    <2> HIDE DEF g
    <2>3. /\ Turns(c, m, g) /\ m.grp[g].epoch = c.grp[g].epoch /\ m.grp[g].seq = c.grp[g].seq
          /\ m.grp[g].at = f.pos /\ m.grp[g].told # c.grp[g].told
      BY <2>1, TellFacts
    <2> HIDE DEF m, told, d
    <2>4. Change(c, m, g, f)
      BY <2>1, <2>3 DEF Change, Telling, TopicOfGroup
    <2>5. Handled(c, m, f, K) /\ m \in Client /\ Linked(m, K) /\ AsksFor(m.out, K)
      <3>1. m = Callback(m, g, FALSE) /\ FALSE \in BOOLEAN
        BY DEF Callback
      <3>2. Handled(c, m, f, K)
        BY <2>1, <2>3, <2>4, <3>1, TurnCallback
      <3> QED
        BY <3>2 DEF Handled
    <2>6. /\ v \in Client /\ v.groups = m.groups /\ v.grp = m.grp /\ v.early = m.early
          /\ v.out = m.out /\ v.byTopic[f.topic] = 0
          /\ \A u \in Topic : u # f.topic => v.byTopic[u] = m.byTopic[u]
      BY <1>0, <2>5, TopicFacts DEF Unnamed
    <2> HIDE DEF v
    <2>7. Sheds(m, v)
      <3>1. \A h \in Gid : m.grp[h].subs \in Nat
        BY <2>5, ClientFields DEF Group
      <3> QED
        BY <2>6, <3>1 DEF Sheds
    <2>8. ASSUME Good(m, K)
          PROVE  Good(v, K) /\ v.groups[v.grp[g].key] \in {0, g}
      <3>1. Linked(v, K)
        BY <2>5, <2>7, ShedsLinked
      <3>2. m.byTopic[f.topic] = g
        BY <2>3 DEF Turns, g
      <3>3. m.groups[m.grp[g].key] = g
        BY <1>0, <1>2, <2>8, <3>2 DEF Good, Dispatched, g
      <3> QED
        BY <2>6, <2>8, <3>1, <3>3 DEF Good, Alive, Dispatched
    <2>9. /\ Sheds(v, told) /\ AsksFor(told.out, K)
          /\ Good(v, K) /\ v.groups[v.grp[g].key] \in {0, g} => Good(told, K)
      BY <2>1, <2>5, <2>6, CallbackFacts DEF told
    <2>10. Sheds(m, told)
      BY <2>5, <2>7, <2>9, ShedsTrans
    <2>11. Handled(c, told, f, K)
      BY <2>5, <2>8, <2>9, <2>10, HandledThenSheds
    <2>12. ASSUME isReady PROVE Handled(c, d, f, K)
      <3>0. told \in Client /\ AsksFor(told.out, K) /\ told.out \in Seq(Asked)
        BY <2>11, ClientFields DEF Handled
      <3>1. /\ d \in Client /\ d.groups = told.groups /\ d.byTopic = told.byTopic
            /\ Sheds(told, d)
            /\ \E x \in Asked : x.group = g /\ d.out = Append(told.out, x)
        BY <2>1, <2>2, <2>12, <3>0, SendFacts
      <3>2. AsksFor(d.out, K)
        BY <2>1, <3>0, <3>1, AsksAppend
      <3>3. Good(told, K) => Good(d, K)
        BY <3>0, <3>1, ShedsGood
      <3> QED
        BY <2>11, <3>1, <3>2, <3>3, HandledThenSheds
    <2>13. Handled(c, d, f, K)
      BY <2>2, <2>11, <2>12
    <2> QED
      BY <2>13 DEF d
  <1> QED
    BY <1>1, <1>2

\* The buffer of the topic is emptied.
LEMMA EmptiedFacts ==
  ASSUME NEW c \in Client, NEW m, NEW f \in Sent, NEW K \in SUBSET Gid, Handled(c, m, f, K)
  PROVE  Handled(c, [m EXCEPT !.early[f.topic] = <<>>], f, K)
  <1> DEFINE early == [m.early EXCEPT ![f.topic] = <<>>]
             d == [m EXCEPT !.early = early]
  <1>0. m \in Client /\ f.topic \in Topic
    BY DEF Handled, Sent
  <1>1. <<>> \in Seq(Sent)
    OBVIOUS
  <1>2. /\ early \in [Topic -> Seq(Sent)]
        /\ \A t \in Topic : early[t] = IF t = f.topic THEN <<>> ELSE m.early[t]
    BY <1>0, <1>1, ClientFields
  <1> HIDE DEF early
  <1>3. /\ d \in Client /\ d.groups = m.groups /\ d.grp = m.grp /\ d.byTopic = m.byTopic
        /\ d.out = m.out /\ d.early = early
    BY <1>0, <1>2 DEF Client
  <1> HIDE DEF d
  <1>4. Linked(d, K) /\ AsksFor(d.out, K) /\ (Good(c, K) => Good(d, K))
    BY <1>3 DEF Handled, Linked, Good, Alive, Dispatched, TopicOfGroup
  <1>5. \A g \in Gid : Same(c, d, g) \/ (g \in K /\ Change(c, d, g, f))
    BY <1>3 DEF Handled, Same, Change, At
  <1>6. \A t \in Topic : \/ d.early[t] \in {c.early[t], <<>>}
                         \/ /\ t = f.topic /\ f.kind = "publish"
                            /\ d.early[t] = Append(c.early[t], f)
    BY <1>2, <1>3 DEF Handled
  <1>7. \A g \in Gid : d.grp[g].key = c.grp[g].key
    BY <1>3 DEF Handled
  <1>8. Handled(c, d, f, K)
    BY <1>3, <1>4, <1>5, <1>6, <1>7 DEF Handled
  <1> QED
    BY <1>8 DEF d, early

\* Nothing in the buffer is newer than the ack.
LEMMA ReplayFacts ==
  ASSUME NEW c \in Client, NEW m, NEW f \in Sent, f.kind # "publish",
         NEW K \in SUBSET Gid, Handled(c, m, f, K),
         \A i \in DOMAIN c.early[f.topic] : ~Newer(c.early[f.topic][i], f)
  PROVE  Handled(c, Replay(m, f), f, K)
  <1>1. m.early[f.topic] \in {c.early[f.topic], <<>>}
    BY DEF Handled, Sent
  <1>2. \A i \in DOMAIN m.early[f.topic] : ~Newer(m.early[f.topic][i], f)
    BY <1>1
  <1>3. Replay(m, f) = [m EXCEPT !.early[f.topic] = <<>>]
    BY <1>2 DEF Replay
  <1> QED
    BY <1>3, EmptiedFacts

Acked(c, g, f, at) ==
  [c EXCEPT !.byTopic[f.topic] = g,
            !.grp[g] = [@ EXCEPT !.acked = TRUE, !.epoch = f.epoch, !.seq = f.seq,
                                 !.at = at]]

LEMMA AckedFields ==
  ASSUME NEW c \in Client, NEW g \in Gid, NEW f \in Sent, NEW at \in Nat
  PROVE  LET a == Acked(c, g, f, at)
         IN  /\ a \in Client /\ a.groups = c.groups /\ a.early = c.early /\ a.out = c.out
             /\ a.byTopic[f.topic] = g
             /\ \A u \in Topic : u # f.topic => a.byTopic[u] = c.byTopic[u]
             /\ \A h \in Gid : h # g => a.grp[h] = c.grp[h]
             /\ a.grp[g].key = c.grp[g].key /\ a.grp[g].over = c.grp[g].over
             /\ a.grp[g].subs = c.grp[g].subs /\ a.grp[g].told = c.grp[g].told
             /\ a.grp[g].acked /\ a.grp[g].epoch = f.epoch /\ a.grp[g].seq = f.seq
             /\ a.grp[g].at = at /\ a.grp[g].pending = c.grp[g].pending
  <1> DEFINE p == [c.grp[g] EXCEPT !.acked = TRUE]
             q == [p EXCEPT !.epoch = f.epoch]
             r == [q EXCEPT !.seq = f.seq]
             s == [r EXCEPT !.at = at]
             two == [c EXCEPT !.byTopic[f.topic] = g]
             a == [two EXCEPT !.grp = [two.grp EXCEPT ![g] = s]]
  <1>0. /\ c.grp[g] \in Group /\ f.topic \in Topic /\ f.epoch \in Nat /\ f.seq \in Nat
        /\ f.pos \in Nat /\ g \in Nat
    BY ClientFields, Constants DEF Sent, Gid
  <1>3. /\ two \in Client /\ two.groups = c.groups /\ two.grp = c.grp
        /\ two.early = c.early /\ two.out = c.out /\ two.byTopic[f.topic] = g
        /\ \A u \in Topic : u # f.topic => two.byTopic[u] = c.byTopic[u]
    BY <1>0, TopicFacts
  <1>4. Acked(c, g, f, at) = a
    <2> DEFINE fix(x) == [x EXCEPT !.acked = TRUE, !.epoch = f.epoch, !.seq = f.seq,
                                   !.at = at]
    <2>1. fix(c.grp[g]) = s
      OBVIOUS
    <2>2. Acked(c, g, f, at) = [two EXCEPT !.grp = [two.grp EXCEPT ![g] = fix(two.grp[g])]]
      BY DEF Acked
    <2> HIDE DEF fix, two, s
    <2> QED
      BY <1>3, <2>1, <2>2
  <1> HIDE DEF two
  <1>5. /\ s \in Group /\ s.subs = c.grp[g].subs /\ s.key = c.grp[g].key
        /\ s.acked = TRUE /\ s.epoch = f.epoch /\ s.seq = f.seq
        /\ s.at = at /\ s.told = c.grp[g].told /\ s.over = c.grp[g].over
        /\ s.pending = c.grp[g].pending
    BY <1>0 DEF Group
  <1> HIDE DEF s
  <1>6. /\ a \in Client /\ a.groups = two.groups /\ a.byTopic = two.byTopic
        /\ a.early = two.early /\ a.out = two.out
        /\ a.grp[g] = s /\ \A h \in Gid : h # g => a.grp[h] = two.grp[h]
    BY <1>3, <1>5, GroupFacts
  <1> HIDE DEF a
  <1> QED
    BY <1>3, <1>4, <1>5, <1>6

LEMMA AckedGood ==
  ASSUME NEW c \in Client, NEW K \in SUBSET Gid, NEW g \in K, NEW f \in Sent,
         NEW at \in Nat, Linked(c, K), TopicOfGroup(c, g) = f.topic, f.epoch # 0,
         c.groups[c.grp[g].key] = g
  PROVE  LET a == Acked(c, g, f, at)
         IN  Linked(a, K) /\ (Good(c, K) => Good(a, K))
  <1> DEFINE a == Acked(c, g, f, at)
  <1>0. f.topic \in Topic /\ g \in Gid
    BY DEF Sent
  <1>1. /\ a \in Client /\ a.groups = c.groups /\ a.byTopic[f.topic] = g
        /\ \A u \in Topic : u # f.topic => a.byTopic[u] = c.byTopic[u]
        /\ \A h \in Gid : h # g => a.grp[h] = c.grp[h]
        /\ a.grp[g].key = c.grp[g].key /\ a.grp[g].over = c.grp[g].over
        /\ a.grp[g].subs = c.grp[g].subs
        /\ a.grp[g].acked /\ a.grp[g].epoch = f.epoch
    BY <1>0, AckedFields
  <1> HIDE DEF a
  <1>2. \A h \in Gid : /\ a.grp[h].key = c.grp[h].key /\ a.grp[h].over = c.grp[h].over
                       /\ a.grp[h].subs = c.grp[h].subs
                       /\ (c.grp[h].acked => a.grp[h].acked)
                       /\ (c.grp[h].epoch # 0 => a.grp[h].epoch # 0)
                       /\ TopicOfGroup(a, h) = TopicOfGroup(c, h)
    BY <1>1 DEF TopicOfGroup
  <1>3. \A k \in Key : c.groups[k] # 0 => c.groups[k] \in K /\ c.groups[k] \in Gid
                                          /\ c.grp[c.groups[k]].key = k
    BY DEF Linked
  <1>4. \A u \in Topic : c.byTopic[u] # 0 =>
             /\ c.byTopic[u] \in K /\ c.byTopic[u] \in Gid /\ TopicOfGroup(c, c.byTopic[u]) = u
             /\ c.grp[c.byTopic[u]].acked /\ c.grp[c.byTopic[u]].epoch # 0
    BY DEF Linked
  <1>5. ASSUME NEW k \in Key, a.groups[k] # 0
        PROVE  a.groups[k] \in K /\ a.grp[a.groups[k]].key = k
    BY <1>1, <1>2, <1>3, <1>5
  <1>6. ASSUME NEW u \in Topic, a.byTopic[u] # 0
        PROVE  /\ a.byTopic[u] \in K /\ TopicOfGroup(a, a.byTopic[u]) = u
               /\ a.grp[a.byTopic[u]].acked /\ a.grp[a.byTopic[u]].epoch # 0
    <2>1. CASE u = f.topic
      BY <1>0, <1>1, <1>2, <2>1
    <2>2. CASE u # f.topic
      BY <1>1, <1>2, <1>4, <1>6, <2>2
    <2> QED
      BY <2>1, <2>2
  <1>7. Linked(a, K)
    BY <1>5, <1>6 DEF Linked
  <1>8. ASSUME Good(c, K) PROVE Good(a, K)
    <2>1. ASSUME NEW u \in Topic, a.byTopic[u] # 0
          PROVE  a.groups[a.grp[a.byTopic[u]].key] = a.byTopic[u]
      <3>1. CASE u = f.topic
        BY <1>0, <1>1, <3>1
      <3>2. CASE u # f.topic
        BY <1>1, <1>2, <1>4, <1>8, <2>1, <3>2 DEF Good, Dispatched
      <3> QED
        BY <3>1, <3>2
    <2>2. Alive(a, K)
      BY <1>1, <1>2, <1>8 DEF Good, Alive
    <2> QED
      BY <1>7, <2>1, <2>2 DEF Good, Dispatched
  <1> QED
    BY <1>7, <1>8 DEF a

LEMMA OnAckFacts ==
  ASSUME NEW c \in Client, NEW K \in SUBSET Gid, Linked(c, K), AsksFor(c.out, K),
         NEW f \in Sent, f.kind = "ack", f.epoch # 0, f.group \in K,
         TopicOfGroup(c, f.group) = f.topic,
         \A i \in DOMAIN c.early[f.topic] : ~Newer(c.early[f.topic][i], f),
         NEW leave \in BOOLEAN, NEW isReady \in BOOLEAN
  PROVE  Handled(c, OnAck(c, f, isReady, leave), f, K)
  <1> DEFINE g == f.group
             u == Unset(c, g)
             first == c.grp[g].epoch = 0
             moved == ~first /\ (f.epoch # c.grp[g].epoch \/ f.seq # c.grp[g].seq)
             at == IF first THEN f.pos ELSE c.grp[g].at
             a == Acked(u, g, f, at)
             d == OnAck(c, f, isReady, leave)
             told == IF moved THEN Callback(TellGap(a, g, f), g, leave) ELSE a
  <1>0. /\ f.topic \in Topic /\ f.epoch \in Nat /\ f.seq \in Nat /\ f.pos \in Nat
        /\ g \in Gid /\ at \in Nat
    BY ClientFields DEF Sent, Group
  <1>1. /\ u \in Client /\ Sheds(c, u) /\ u.groups = c.groups
        /\ u.byTopic = c.byTopic /\ u.out = c.out
        /\ \A h \in Gid : u.grp[h].subs = c.grp[h].subs /\ u.grp[h].key = c.grp[h].key
        /\ (Good(c, K) => Good(u, K)) /\ Linked(u, K)
    BY UnsetFacts
  <1>2. d = IF c.groups[c.grp[g].key] # g THEN u
            ELSE IF c.grp[g].subs = 0
                 THEN IF isReady THEN SendUnsubscribe(Drop(u, g), f.topic) ELSE Drop(u, g)
            ELSE Replay(told, f)
    BY DEF OnAck, Unset, Acked
  <1> HIDE DEF u, at, d
  <1>3. CASE c.groups[c.grp[g].key] # g
    <2>1. Handled(c, d, f, K)
      BY <1>1, <1>2, <1>3, SheddingHandled
    <2> QED
      BY <2>1 DEF d
  <1>4. CASE c.groups[c.grp[g].key] = g /\ c.grp[g].subs = 0
    <2> DEFINE less == Drop(u, g)
    <2>1. /\ less \in Client /\ less.grp = u.grp /\ less.out = u.out /\ Sheds(u, less)
      BY <1>0, <1>1, DropFacts
    <2>2. ASSUME Good(u, K) PROVE Good(less, K)
      <3>1. u.groups[u.grp[g].key] \in {0, g} /\ u.grp[g].subs = 0
        BY <1>0, <1>1, <1>4
      <3>2. Dispatched(less) /\ Alive(less, K \ {g})
        BY <1>0, <1>1, <2>2, <3>1, DropGood DEF Good
      <3>3. Alive(less, K)
        BY <2>1, <3>1, <3>2 DEF Alive
      <3>4. Linked(less, K)
        BY <1>1, <2>1, ShedsLinked
      <3> QED
        BY <3>2, <3>3, <3>4 DEF Good
    <2> HIDE DEF less
    <2>3. Sheds(c, less) /\ (Good(c, K) => Good(less, K)) /\ AsksFor(less.out, K)
      BY <1>1, <2>1, <2>2, ShedsTrans
    <2>4. Handled(c, less, f, K)
      BY <2>3, SheddingHandled
    <2>5. CASE d = less
      BY <2>4, <2>5 DEF d
    <2>6. CASE d = SendUnsubscribe(less, f.topic)
      <3>1. /\ d \in Client /\ d.groups = less.groups /\ d.byTopic = less.byTopic
            /\ Sheds(less, d)
            /\ \E x \in Asked : x.kind = "unsubscribe" /\ d.out = Append(less.out, x)
        BY <1>0, <2>1, <2>6, SendUnsubscribeFacts
      <3>2. AsksFor(d.out, K)
        BY <2>1, <2>3, <3>1, AsksAppend, ClientFields
      <3>3. Good(less, K) => Good(d, K)
        BY <2>1, <3>1, ShedsGood
      <3>4. Handled(c, d, f, K)
        BY <2>4, <3>1, <3>2, <3>3, HandledThenSheds
      <3> QED
        BY <3>4 DEF d
    <2> QED
      BY <1>2, <1>4, <2>5, <2>6 DEF less
  <1>5. CASE c.groups[c.grp[g].key] = g /\ c.grp[g].subs # 0
    <2>1. d = Replay(told, f)
      BY <1>2, <1>5
    <2>2. /\ u.grp[g].epoch = c.grp[g].epoch /\ u.grp[g].seq = c.grp[g].seq
          /\ u.grp[g].at = c.grp[g].at /\ TopicOfGroup(u, g) = f.topic /\ u.early = c.early
          /\ u.groups[u.grp[g].key] = g
      BY <1>0, <1>1, <1>5 DEF Sheds, TopicOfGroup
    <2>g. g \in K /\ g \in Gid
      BY <1>0
    <2> HIDE DEF g
    <2>3. /\ a \in Client /\ a.groups = u.groups /\ a.early = u.early /\ a.out = u.out
          /\ \A h \in Gid : h # g => a.grp[h] = u.grp[h]
          /\ a.grp[g].key = u.grp[g].key /\ a.grp[g].told = u.grp[g].told
          /\ a.grp[g].epoch = f.epoch /\ a.grp[g].seq = f.seq /\ a.grp[g].at = at
      <3>1. f \in Sent /\ g \in Gid /\ at \in Nat /\ u \in Client
        BY <1>0, <1>1, <2>g
      <3> QED
        BY ONLY <3>1, AckedFields
    <2>4. Linked(a, K) /\ (Good(u, K) => Good(a, K))
      BY <1>0, <1>1, <2>g, <2>2, AckedGood
    <2> HIDE DEF a
    <2>5. (\A h \in Gid : h # g => Same(u, a, h)) /\ \A h \in Gid : a.grp[h].key = u.grp[h].key
      BY <2>3 DEF Same
    <2>6. CASE ~moved
      <3>1. Same(u, a, g) \/ Change(u, a, g, f)
        <4>1. CASE first
          BY <2>2, <2>3, <4>1 DEF Change, At, Telling, at
        <4>2. CASE ~first
          BY <2>2, <2>3, <2>6, <4>2 DEF Same, at
        <4> QED
          BY <4>1, <4>2
      <3>2. Handled(u, a, f, K)
        BY <1>1, <2>g, <2>3, <2>4, <2>5, <3>1 DEF Handled
      <3>3. told = a
        BY <2>6
      <3> QED
        <4>1. Handled(c, told, f, K)
          BY <1>1, <3>2, <3>3, ShedsThenHandled
        <4> HIDE DEF told
        <4>2. Handled(c, d, f, K)
          BY <2>1, <4>1, ReplayFacts
        <4> QED
          BY <4>2 DEF d
    <2>7. CASE moved
      <3> DEFINE m == TellGap(a, g, f)
      <3>1. told = Callback(m, g, leave)
        BY <2>7
      <3>2. /\ Turns(a, m, g) /\ m.grp[g].epoch = f.epoch /\ m.grp[g].seq = f.seq
            /\ m.grp[g].at = f.pos /\ m.grp[g].told # a.grp[g].told
        BY <1>0, <2>g, <2>3, TellFacts
      <3> HIDE DEF m
      <3>3. Change(a, m, g, f)
        BY <2>2, <2>3, <3>2 DEF Change, At, Telling, TopicOfGroup
      <3>4. Good(a, K) => a.groups[a.grp[g].key] \in {0, g}
        BY <2>2, <2>3
      <3>5. Handled(a, told, f, K) /\ Sheds(m, told)
        BY <1>1, <2>g, <2>3, <2>4, <3>1, <3>2, <3>3, <3>4, TurnCallback
      <3> HIDE DEF told
      <3>6. /\ told.grp[g].epoch = f.epoch /\ told.grp[g].seq = f.seq
            /\ told.grp[g].at = f.pos /\ told.grp[g].told # u.grp[g].told
        BY <2>g, <2>3, <3>2, <3>5 DEF Sheds
      <3>7. Change(u, told, g, f)
        BY <2>2, <2>7, <3>6 DEF Change, At, Telling
      <3>8. told.early = u.early
        BY <2>3, <3>2, <3>5 DEF Sheds, Turns
      <3>9. \A h \in Gid : /\ told.grp[h].key = u.grp[h].key
                           /\ h # g => Same(u, told, h)
        <4>1. \A h \in Gid : m.grp[h].key = u.grp[h].key
          BY <2>3, <3>2 DEF Turns
        <4>2. \A h \in Gid : h # g => Same(u, m, h)
          BY <2>3, <3>2 DEF Turns, Same
        <4> QED
          BY <3>5, <4>1, <4>2 DEF Sheds, Same
      <3>10. Handled(u, told, f, K)
        BY <2>g, <2>4, <3>5, <3>7, <3>8, <3>9 DEF Handled
      <3>11. Handled(c, told, f, K)
        BY <1>1, <3>10, ShedsThenHandled
      <3>12. Handled(c, d, f, K)
        BY <2>1, <3>11, ReplayFacts
      <3> QED
        BY <3>12 DEF d
    <2> QED
      BY <2>6, <2>7
  <1> QED
    BY <1>3, <1>4, <1>5

-----------------------------------------------------------------------------
\* The client's own operations.

\* What the handler wrote is on the wire.
Flushed(c) == [c EXCEPT !.out = <<>>]

LEMMA FlushedFacts ==
  ASSUME NEW c \in Client
  PROVE  LET d == Flushed(c)
         IN  /\ d \in Client /\ d.groups = c.groups /\ d.grp = c.grp
             /\ d.byTopic = c.byTopic /\ d.early = c.early /\ d.out = <<>>
             /\ \A K : (Linked(c, K) => Linked(d, K)) /\ (Good(c, K) => Good(d, K))
  <1> DEFINE d == Flushed(c)
  <1>1. <<>> \in Seq(Asked)
    OBVIOUS
  <1>2. /\ d \in Client /\ d.groups = c.groups /\ d.grp = c.grp
        /\ d.byTopic = c.byTopic /\ d.early = c.early /\ d.out = <<>>
    BY <1>1 DEF Flushed, Client
  <1> HIDE DEF d
  <1>3. \A K : (Linked(c, K) => Linked(d, K)) /\ (Good(c, K) => Good(d, K))
    BY <1>2 DEF Linked, Good, Alive, Dispatched, TopicOfGroup
  <1> QED
    BY <1>2, <1>3 DEF d

\* d is c with its readers where they were; K are the groups of c, L those of d.
Kept(c, d, K, L) ==
  /\ d \in Client
  /\ \A g \in Gid :
        /\ d.grp[g].epoch = c.grp[g].epoch /\ d.grp[g].at = c.grp[g].at
        /\ d.grp[g].told = c.grp[g].told
        /\ c.grp[g].epoch # 0 => d.grp[g].seq = c.grp[g].seq
  /\ \A g \in K : d.grp[g].key = c.grp[g].key
  /\ \A t \in Topic : d.early[t] \in {c.early[t], <<>>}
  /\ Linked(d, L) /\ AsksFor(d.out, L)

LEMMA ShedsKept ==
  ASSUME NEW c \in Client, NEW d, Sheds(c, d), NEW K \in SUBSET Gid, Linked(c, K),
         AsksFor(d.out, K)
  PROVE  Kept(c, d, K, K)
  <1>1. Linked(d, K)
    BY ShedsLinked
  <1> QED
    BY <1>1 DEF Kept, Sheds

LEMMA KeptThenSheds ==
  ASSUME NEW c \in Client, NEW m, NEW d, NEW K \in SUBSET Gid, NEW L \in SUBSET Gid,
         Kept(c, m, K, L), Sheds(m, d), AsksFor(d.out, L)
  PROVE  Kept(c, d, K, L)
  <1>1. m \in Client /\ Linked(m, L)
    BY DEF Kept
  <1>2. Linked(d, L)
    BY <1>1, ShedsLinked
  <1> QED
    BY <1>2 DEF Kept, Sheds

LEMMA AsksNothing ==
  ASSUME NEW K
  PROVE  AsksFor(<<>>, K)
  BY DEF AsksFor

\* A key gets its group n.
New(c, k, n) ==
  [c EXCEPT !.groups[k] = n, !.grp[n] = [NoGroup EXCEPT !.key = k, !.subs = 1]]

LEMMA NewFacts ==
  ASSUME NEW c \in Client, NEW k \in Key, NEW n \in Gid
  PROVE  LET d == New(c, k, n)
         IN  /\ d \in Client /\ d.byTopic = c.byTopic /\ d.early = c.early /\ d.out = c.out
             /\ d.groups[k] = n /\ \A j \in Key : j # k => d.groups[j] = c.groups[j]
             /\ d.grp[n].key = k /\ d.grp[n].epoch = 0 /\ d.grp[n].at = 0
             /\ ~d.grp[n].told /\ ~d.grp[n].pending
             /\ \A h \in Gid : h # n => d.grp[h] = c.grp[h]
  <1> DEFINE p == [NoGroup EXCEPT !.key = k]
             r == [p EXCEPT !.subs = 1]
             groups == [c.groups EXCEPT ![k] = n]
             one == [c EXCEPT !.groups = groups]
             d == [one EXCEPT !.grp = [one.grp EXCEPT ![n] = r]]
  <1>0. NoGroup \in Group /\ n \in Nat
    BY Constants DEF Gid
  <1>1. r \in Group /\ r.key = k /\ r.epoch = NoGroup.epoch /\ r.at = NoGroup.at
        /\ r.told = NoGroup.told /\ r.pending = NoGroup.pending
    BY <1>0 DEF Group
  <1>2. /\ groups \in [Key -> Nat] /\ groups[k] = n
        /\ \A j \in Key : j # k => groups[j] = c.groups[j]
    BY <1>0, ClientFields
  <1>3. New(c, k, n) = d
    BY DEF New, Client
  <1>4. r.epoch = 0 /\ r.at = 0 /\ ~r.told /\ ~r.pending
    BY <1>1 DEF NoGroup
  <1> HIDE DEF groups, r
  <1>5. /\ one \in Client /\ one.groups = groups /\ one.grp = c.grp
        /\ one.byTopic = c.byTopic /\ one.early = c.early /\ one.out = c.out
    BY <1>2 DEF Client
  <1> HIDE DEF one
  <1>6. /\ d \in Client /\ d.groups = one.groups /\ d.byTopic = one.byTopic
        /\ d.early = one.early /\ d.out = one.out
        /\ d.grp[n] = r /\ \A h \in Gid : h # n => d.grp[h] = one.grp[h]
    BY <1>1, <1>5, GroupFacts
  <1> HIDE DEF d
  <1> QED
    BY <1>1, <1>2, <1>3, <1>4, <1>5, <1>6

LEMMA NewKept ==
  ASSUME NEW c \in Client, NEW k \in Key, NEW n \in Gid, c.groups[k] = 0,
         NEW K \in SUBSET Gid, n \notin K, Linked(c, K), AsksFor(c.out, K),
         c.grp[n].epoch = 0, c.grp[n].at = 0, ~c.grp[n].told
  PROVE  LET d == New(c, k, n)
             L == K \union {n}
         IN  Kept(c, d, K, L) /\ (Good(c, K) => Good(d, L))
  <1> DEFINE d == New(c, k, n)
             L == K \union {n}
  <1>1. /\ d \in Client /\ d.byTopic = c.byTopic /\ d.early = c.early /\ d.out = c.out
        /\ d.groups[k] = n /\ \A j \in Key : j # k => d.groups[j] = c.groups[j]
        /\ d.grp[n].key = k /\ d.grp[n].epoch = 0 /\ d.grp[n].at = 0
        /\ ~d.grp[n].told
        /\ \A h \in Gid : h # n => d.grp[h] = c.grp[h]
    <2>1. c \in Client /\ k \in Key /\ n \in Gid
      OBVIOUS
    <2> QED
      BY ONLY <2>1, NewFacts
  <1> HIDE DEF d
  <1>2. d.grp[n].told = c.grp[n].told
    <2>1. d.grp[n].told \in BOOLEAN /\ c.grp[n].told \in BOOLEAN
      BY <1>1, ClientFields DEF Group
    <2> QED
      BY <1>1, <2>1
  <1>3. \A h \in K : h \in Gid /\ h # n
    OBVIOUS
  <1>4. /\ \A j \in Key : c.groups[j] # 0 => c.groups[j] \in K /\ c.grp[c.groups[j]].key = j
        /\ \A t \in Topic : c.byTopic[t] # 0 =>
             /\ c.byTopic[t] \in K /\ TopicOfGroup(c, c.byTopic[t]) = t
             /\ c.grp[c.byTopic[t]].acked /\ c.grp[c.byTopic[t]].epoch # 0
    BY DEF Linked
  <1>5. ASSUME NEW j \in Key, d.groups[j] # 0
        PROVE  d.groups[j] \in L /\ d.grp[d.groups[j]].key = j
    BY <1>1, <1>3, <1>4, <1>5
  <1>6. ASSUME NEW t \in Topic, d.byTopic[t] # 0
        PROVE  /\ d.byTopic[t] \in L /\ TopicOfGroup(d, d.byTopic[t]) = t
               /\ d.grp[d.byTopic[t]].acked /\ d.grp[d.byTopic[t]].epoch # 0
    BY <1>1, <1>3, <1>4, <1>6 DEF TopicOfGroup
  <1>7. Linked(d, L)
    BY <1>5, <1>6 DEF Linked
  <1>8. AsksFor(d.out, L)
    BY <1>1 DEF AsksFor
  <1>9. Kept(c, d, K, L)
    BY <1>1, <1>2, <1>3, <1>7, <1>8 DEF Kept
  <1>10. ASSUME Good(c, K) PROVE Good(d, L)
    <2>1. ASSUME NEW t \in Topic, d.byTopic[t] # 0
          PROVE  d.groups[d.grp[d.byTopic[t]].key] = d.byTopic[t]
      <3>1. /\ c.byTopic[t] \in K /\ c.groups[c.grp[c.byTopic[t]].key] = c.byTopic[t]
            /\ c.grp[c.byTopic[t]].key \in Key
        BY <1>1, <1>4, <1>10, <2>1, ClientFields DEF Good, Dispatched
      <3> QED
        BY <1>1, <1>3, <2>1, <3>1
    <2>2. ASSUME NEW h \in L, d.grp[h].subs > 0, ~d.grp[h].over
          PROVE  d.groups[d.grp[h].key] = h
      <3>1. CASE h = n
        BY <1>1, <3>1
      <3>2. CASE h # n
        <4>1. h \in K /\ d.grp[h] = c.grp[h] /\ c.grp[h].key \in Key
          BY <1>1, <1>3, <3>2, ClientFields
        <4>2. c.groups[c.grp[h].key] = h
          BY <1>10, <2>2, <4>1 DEF Good, Alive
        <4>3. h # 0
          BY <4>1 DEF Gid
        <4> QED
          BY <1>1, <4>1, <4>2, <4>3
      <3> QED
        BY <3>1, <3>2
    <2> QED
      BY <1>7, <2>1, <2>2 DEF Good, Alive, Dispatched
  <1> QED
    BY <1>9, <1>10 DEF d

\* One more handle of g.
LEMMA MoreKept ==
  ASSUME NEW c \in Client, NEW g \in Gid, c.groups[c.grp[g].key] = g,
         NEW K \in SUBSET Gid, Linked(c, K), AsksFor(c.out, K)
  PROVE  LET d == [c EXCEPT !.grp[g].subs = c.grp[g].subs + 1]
         IN  Kept(c, d, K, K) /\ (Good(c, K) => Good(d, K))
  <1> DEFINE n == c.grp[g].subs + 1
             d == [c EXCEPT !.grp[g].subs = n]
  <1>1. n \in Nat
    BY ClientFields DEF Group
  <1> HIDE DEF n
  <1>2. /\ d \in Client /\ d.groups = c.groups /\ d.byTopic = c.byTopic
        /\ d.early = c.early /\ d.out = c.out
        /\ d.grp[g].key = c.grp[g].key
        /\ d.grp[g].acked = c.grp[g].acked /\ d.grp[g].over = c.grp[g].over
        /\ d.grp[g].epoch = c.grp[g].epoch /\ d.grp[g].seq = c.grp[g].seq
        /\ d.grp[g].at = c.grp[g].at /\ d.grp[g].told = c.grp[g].told
        /\ \A h \in Gid : h # g => d.grp[h] = c.grp[h]
    BY <1>1, SubsFacts
  <1> HIDE DEF d
  <1>3. \A h \in Gid : /\ d.grp[h].key = c.grp[h].key /\ d.grp[h].over = c.grp[h].over
                       /\ d.grp[h].acked = c.grp[h].acked
                       /\ d.grp[h].epoch = c.grp[h].epoch /\ d.grp[h].seq = c.grp[h].seq
                       /\ d.grp[h].at = c.grp[h].at /\ d.grp[h].told = c.grp[h].told
    BY <1>2
  <1>4. /\ \A k \in Key : c.groups[k] # 0 => c.groups[k] \in Gid
        /\ \A t \in Topic : c.byTopic[t] # 0 => c.byTopic[t] \in Gid
    BY DEF Linked
  <1>5. Linked(d, K)
    BY <1>2, <1>3, <1>4 DEF Linked, TopicOfGroup
  <1>6. Kept(c, d, K, K)
    BY <1>2, <1>3, <1>5 DEF Kept
  <1>7. ASSUME Good(c, K) PROVE Good(d, K)
    <2>1. Dispatched(d)
      BY <1>2, <1>3, <1>4, <1>7 DEF Good, Dispatched
    <2>2. Alive(d, K)
      BY <1>2, <1>7 DEF Good, Alive
    <2> QED
      BY <1>5, <2>1, <2>2 DEF Good
  <1> QED
    BY <1>6, <1>7 DEF d, n

Pended(grp, S, b) == [g \in Gid |-> IF g \in S THEN [grp[g] EXCEPT !.pending = b] ELSE grp[g]]

LEMMA PendedFacts ==
  ASSUME NEW grp \in [Gid -> Group], NEW S, NEW b \in BOOLEAN
  PROVE  LET new == Pended(grp, S, b)
         IN  /\ new \in [Gid -> Group]
             /\ \A g \in Gid :
                  /\ new[g].key = grp[g].key /\ new[g].subs = grp[g].subs
                  /\ new[g].acked = grp[g].acked /\ new[g].over = grp[g].over
                  /\ new[g].epoch = grp[g].epoch /\ new[g].seq = grp[g].seq
                  /\ new[g].at = grp[g].at /\ new[g].told = grp[g].told
  <1> DEFINE new == Pended(grp, S, b)
  <1>1. ASSUME NEW g \in Gid
        PROVE  /\ new[g] \in Group
               /\ new[g].key = grp[g].key /\ new[g].subs = grp[g].subs
               /\ new[g].acked = grp[g].acked /\ new[g].over = grp[g].over
               /\ new[g].epoch = grp[g].epoch /\ new[g].seq = grp[g].seq
               /\ new[g].at = grp[g].at /\ new[g].told = grp[g].told
    <2>1. grp[g] \in Group
      OBVIOUS
    <2>2. CASE g \in S
      <3>1. new[g] = [grp[g] EXCEPT !.pending = b]
        BY <2>2 DEF Pended
      <3> QED
        BY <2>1, <3>1 DEF Group
    <2>3. CASE g \notin S
      BY <2>1, <2>3 DEF Pended
    <2> QED
      BY <2>2, <2>3
  <1>2. new = [g \in Gid |-> new[g]]
    BY DEF Pended
  <1> HIDE DEF new
  <1>3. new \in [Gid -> Group]
    BY <1>1, <1>2
  <1> QED
    BY <1>1, <1>3 DEF new

LEMMA PendedPending ==
  ASSUME NEW grp \in [Gid -> Group], NEW S, NEW b \in BOOLEAN, NEW g \in Gid
  PROVE  /\ g \in S => Pended(grp, S, b)[g].pending = b
         /\ g \notin S => Pended(grp, S, b)[g] = grp[g]
  <1>1. grp[g] \in Group
    OBVIOUS
  <1>2. [grp[g] EXCEPT !.pending = b].pending = b
    BY <1>1 DEF Group
  <1> QED
    BY <1>2 DEF Pended

\* What resubscribe() asks for.
Requests(c, order) ==
  [i \in DOMAIN order |-> [kind |-> "subscribe", group |-> c.groups[order[i]],
                           topic |-> TopicOf[order[i]]]]

\* d is c with its live groups, and no other, waiting for an answer.
Resumes(c, d, order) ==
  /\ d.groups = [k \in Key |-> IF k \in Live(c) THEN c.groups[k] ELSE 0]
  /\ d.byTopic = c.byTopic /\ d.out = Requests(c, order)
  /\ \A g \in Gid :
        /\ d.grp[g].key = c.grp[g].key
        /\ (\E k \in Live(c) : c.groups[k] = g) => d.grp[g].pending
        /\ ~(\E k \in Live(c) : c.groups[k] = g) => d.grp[g] = c.grp[g]

LEMMA ResubscribeFacts ==
  ASSUME NEW c \in Client, c.out = <<>>, NEW order \in SetToSeqs(Live(c)),
         NEW K \in SUBSET Gid, Linked(c, K)
  PROVE  LET d == Resubscribe(c, order)
         IN  /\ d \in Client
             /\ Kept(c, d, K, K)
             /\ Good(c, K) /\ (\A t \in Topic : c.byTopic[t] = 0) => Good(d, K)
             /\ Resumes(c, d, order)
  <1> DEFINE S == {g \in Gid : \E k \in Live(c) : c.groups[k] = g}
             groups == [k \in Key |-> IF k \in Live(c) THEN c.groups[k] ELSE 0]
             grp == Pended(c.grp, S, TRUE)
             asks == Requests(c, order)
             one == [c EXCEPT !.groups = groups]
             two == [one EXCEPT !.grp = grp]
             d == [two EXCEPT !.out = asks]
  <1>0. Live(c) \in SUBSET Key /\ IsFiniteSet(Live(c)) /\ Cardinality(Live(c)) \in Nat
    <2>1. Live(c) \in SUBSET Key
      BY DEF Live
    <2> QED
      BY <2>1, SubscriptionsAssumption, FS_Subset, FS_CardinalityType
  <1>1. order \in Seq(Key) /\ \A i \in DOMAIN order : order[i] \in Live(c)
    <2>1. order \in [1 .. Cardinality(Live(c)) -> Live(c)]
      BY DEF SetToSeqs
    <2> HIDE DEF Live
    <2> QED
      BY <1>0, <2>1
  <1>2. /\ groups \in [Key -> Nat] /\ \A k \in Key : groups[k] \in {0, c.groups[k]}
        /\ \A k \in Live(c) : groups[k] = c.groups[k]
    BY <1>0, ClientFields
  <1>3. /\ grp \in [Gid -> Group]
        /\ \A g \in Gid :
             /\ grp[g].key = c.grp[g].key /\ grp[g].subs = c.grp[g].subs
             /\ grp[g].acked = c.grp[g].acked /\ grp[g].over = c.grp[g].over
             /\ grp[g].epoch = c.grp[g].epoch /\ grp[g].seq = c.grp[g].seq
             /\ grp[g].at = c.grp[g].at /\ grp[g].told = c.grp[g].told
    <2>1. c.grp \in [Gid -> Group] /\ TRUE \in BOOLEAN
      BY ClientFields
    <2> HIDE DEF S
    <2> QED
      BY ONLY <2>1, PendedFacts, ZenonT(30)
  <1>p. ASSUME NEW g \in Gid
        PROVE  /\ (\E k \in Live(c) : c.groups[k] = g) => grp[g].pending
               /\ ~(\E k \in Live(c) : c.groups[k] = g) => grp[g] = c.grp[g]
    <2>1. c.grp[g] \in Group
      BY ClientFields
    <2>2. [c.grp[g] EXCEPT !.pending = TRUE].pending
      BY <2>1 DEF Group
    <2> QED
      BY <2>2 DEF Pended
  <1>4. asks \in Seq(Asked) /\ \A i \in DOMAIN asks : asks[i].group \in K
    <2>1. ASSUME NEW i \in DOMAIN order
          PROVE  /\ [kind |-> "subscribe", group |-> c.groups[order[i]],
                     topic |-> TopicOf[order[i]]] \in Asked
                 /\ c.groups[order[i]] \in K
      <3>1. order[i] \in Key /\ c.groups[order[i]] # 0
        BY <1>0, <1>1 DEF Live
      <3>2. c.groups[order[i]] \in K /\ c.groups[order[i]] \in Nat /\ TopicOf[order[i]] \in Topic
        BY <3>1, ClientFields, Constants DEF Linked
      <3> QED
        BY <3>2 DEF Asked
    <2>2. DOMAIN order = 1 .. Len(order) /\ Len(order) \in Nat
      BY <1>1
    <2> QED
      BY <2>1, <2>2 DEF Requests
  <1>5. Resubscribe(c, order) = d
    <2>1. <<>> \o asks = asks
      BY <1>4
    <2>2. grp = [g \in Gid |-> IF \E k \in Live(c) : c.groups[k] = g
                              THEN [c.grp[g] EXCEPT !.pending = TRUE] ELSE c.grp[g]]
      BY DEF Pended
    <2>3. Resubscribe(c, order) =
            [[[c EXCEPT !.groups = [k \in Key |-> IF k \in Live(c) THEN c.groups[k] ELSE 0]]
               EXCEPT !.grp = [g \in Gid |-> IF \E k \in Live(c) : c.groups[k] = g
                                 THEN [c.grp[g] EXCEPT !.pending = TRUE] ELSE c.grp[g]]]
               EXCEPT !.out = <<>> \o asks]
      BY DEF Resubscribe, Requests, Client
    <2> HIDE DEF grp, asks
    <2> QED
      BY <2>1, <2>2, <2>3
  <1> HIDE DEF groups, grp, asks
  <1>6. /\ one \in Client /\ one.groups = groups /\ one.byTopic = c.byTopic
        /\ one.early = c.early
    BY <1>2 DEF Client
  <1> HIDE DEF one
  <1>7. /\ two \in Client /\ two.groups = groups /\ two.byTopic = c.byTopic
        /\ two.early = c.early /\ two.grp = grp
    BY <1>3, <1>6 DEF Client
  <1> HIDE DEF two
  <1>8. /\ d \in Client /\ d.groups = groups /\ d.byTopic = c.byTopic
        /\ d.early = c.early /\ d.grp = grp /\ d.out = asks
    BY <1>4, <1>7 DEF Client
  <1> HIDE DEF d
  <1>r. Resumes(c, d, order)
    <2>1. d.groups = [k \in Key |-> IF k \in Live(c) THEN c.groups[k] ELSE 0]
      BY <1>8 DEF groups
    <2>2. d.out = Requests(c, order)
      BY <1>8 DEF asks
    <2> QED
      BY <1>3, <1>p, <1>8, <2>1, <2>2 DEF Resumes
  <1>9. Sheds(c, d)
    <2>1. \A g \in Gid : c.grp[g].subs \in Nat
      BY ClientFields DEF Group
    <2> QED
      BY <1>2, <1>3, <1>8, <2>1 DEF Sheds
  <1>10. AsksFor(d.out, K)
    BY <1>4, <1>8 DEF AsksFor
  <1>11. Kept(c, d, K, K)
    BY <1>9, <1>10, ShedsKept
  <1>12. ASSUME Good(c, K), \A t \in Topic : c.byTopic[t] = 0 PROVE Good(d, K)
    <2>1. ASSUME NEW g \in K, d.grp[g].subs > 0, ~d.grp[g].over
          PROVE  d.groups[d.grp[g].key] = g
      <3>1. /\ g \in Gid /\ c.grp[g].subs > 0 /\ ~c.grp[g].over /\ c.grp[g].key \in Key
            /\ d.grp[g].key = c.grp[g].key
        BY <1>3, <1>8, <2>1, ClientFields
      <3>2. c.groups[c.grp[g].key] = g
        BY <1>12, <3>1 DEF Good, Alive
      <3>3. g # 0
        BY <3>1 DEF Gid
      <3>4. c.grp[g].key \in Live(c)
        BY <3>1, <3>2, <3>3 DEF Live
      <3> QED
        BY <1>2, <1>8, <3>1, <3>2, <3>4
    <2>2. Dispatched(d)
      BY <1>8, <1>12 DEF Dispatched
    <2>3. Linked(d, K)
      BY <1>11 DEF Kept
    <2> QED
      BY <2>1, <2>2, <2>3 DEF Good, Alive
  <1> QED
    BY <1>5, <1>8, <1>11, <1>12, <1>r

Settled(grp, S) == Pended(grp, S, FALSE)

\* The buffers and the topics' names are gone, and `groups` is what it is now.
Quieted(c, d, groups, grp) ==
  /\ d \in Client /\ d.groups = groups /\ d.grp = grp /\ d.out = c.out
  /\ d.byTopic = [t \in Topic |-> 0] /\ d.early = [t \in Topic |-> <<>>]

LEMMA QuietFacts ==
  ASSUME NEW c \in Client, NEW groups \in [Key -> Nat], NEW grp \in [Gid -> Group], NEW d,
         d = [groups |-> groups, grp |-> grp, byTopic |-> [t \in Topic |-> 0],
              early |-> [t \in Topic |-> <<>>], out |-> c.out]
  PROVE  Quieted(c, d, groups, grp)
  <1>1. [t \in Topic |-> 0] \in [Topic -> Nat] /\ [t \in Topic |-> <<>>] \in [Topic -> Seq(Sent)]
    OBVIOUS
  <1>2. c.out \in Seq(Asked)
    BY ClientFields
  <1> QED
    BY <1>1, <1>2 DEF Quieted, Client

LEMMA DisconnectedFacts ==
  ASSUME NEW c \in Client
  PROVE  LET current == {c.groups[k] : k \in Key}
         IN  /\ Quieted(c, Disconnected(c), c.groups, Settled(c.grp, current))
             /\ Quieted(c, Clear(Disconnected(c)), [k \in Key |-> 0],
                        Settled(c.grp, current))
  <1> DEFINE current == {c.groups[k] : k \in Key}
             grp == Pended(c.grp, current, FALSE)
             byTopic == [t \in Topic |-> 0]
             early == [t \in Topic |-> <<>>]
             groups == [k \in Key |-> 0]
             d == [groups |-> c.groups, grp |-> grp, byTopic |-> byTopic,
                   early |-> early, out |-> c.out]
             e == [groups |-> groups, grp |-> grp, byTopic |-> byTopic,
                   early |-> early, out |-> c.out]
  <1>1. c.groups \in [Key -> Nat] /\ groups \in [Key -> Nat]
    BY ClientFields
  <1>2. grp \in [Gid -> Group]
    <2>1. c.grp \in [Gid -> Group] /\ FALSE \in BOOLEAN
      BY ClientFields
    <2> HIDE DEF current
    <2> QED
      BY ONLY <2>1, PendedFacts, ZenonT(30)
  <1>3. \A x \in Client : x = [groups |-> x.groups, grp |-> x.grp, byTopic |-> x.byTopic,
                              early |-> x.early, out |-> x.out]
    BY DEF Client
  <1>4. Disconnected(c) = d
    <2>1. grp = [g \in Gid |-> IF g \in current THEN [c.grp[g] EXCEPT !.pending = FALSE]
                               ELSE c.grp[g]]
      BY DEF Pended
    <2>2. Disconnected(c) = [[[c EXCEPT !.byTopic = byTopic] EXCEPT !.early = early] EXCEPT
            !.grp = [g \in Gid |-> IF g \in current THEN [c.grp[g] EXCEPT !.pending = FALSE]
                                   ELSE c.grp[g]]]
      BY DEF Disconnected, Client
    <2> HIDE DEF grp, byTopic, early
    <2>3. Disconnected(c) = [[[c EXCEPT !.byTopic = byTopic] EXCEPT !.early = early] EXCEPT
                              !.grp = grp]
      BY <2>1, <2>2
    <2> QED
      BY <2>3 DEF Client
  <1>5. Clear(d) = e
    <2> HIDE DEF grp
    <2>1. Clear(d) = [[[d EXCEPT !.groups = groups] EXCEPT !.byTopic = byTopic]
                       EXCEPT !.early = early]
      BY DEF Clear
    <2> HIDE DEF groups, byTopic, early
    <2> QED
      BY <2>1
  <1> HIDE DEF grp
  <1>6. Quieted(c, d, c.groups, grp)
    BY <1>1, <1>2, QuietFacts
  <1>7. Quieted(c, e, groups, grp)
    BY <1>1, <1>2, QuietFacts
  <1> QED
    BY <1>4, <1>5, <1>6, <1>7 DEF grp, Settled

LEMMA QuietedKept ==
  ASSUME NEW c \in Client, c.out = <<>>, NEW K \in SUBSET Gid, Linked(c, K), NEW S,
         NEW groups, \A k \in Key : groups[k] \in {0, c.groups[k]}, NEW d,
         Quieted(c, d, groups, Settled(c.grp, S))
  PROVE  /\ Kept(c, d, K, K) /\ Dispatched(d) /\ d.out = <<>>
         /\ \A t \in Topic : d.byTopic[t] = 0 /\ d.early[t] = <<>>
         /\ groups = c.groups /\ Alive(c, K) => Alive(d, K)
  <1> DEFINE grp == Settled(c.grp, S)
  <1>1. \A g \in Gid :
             /\ grp[g].key = c.grp[g].key /\ grp[g].subs = c.grp[g].subs
             /\ grp[g].acked = c.grp[g].acked /\ grp[g].over = c.grp[g].over
             /\ grp[g].epoch = c.grp[g].epoch /\ grp[g].seq = c.grp[g].seq
             /\ grp[g].at = c.grp[g].at /\ grp[g].told = c.grp[g].told
    <2>1. c.grp \in [Gid -> Group] /\ FALSE \in BOOLEAN
      BY ClientFields
    <2> DEFINE new == Pended(c.grp, S, FALSE)
    <2>2. \A g \in Gid :
             /\ new[g].key = c.grp[g].key /\ new[g].subs = c.grp[g].subs
             /\ new[g].acked = c.grp[g].acked /\ new[g].over = c.grp[g].over
             /\ new[g].epoch = c.grp[g].epoch /\ new[g].seq = c.grp[g].seq
             /\ new[g].at = c.grp[g].at /\ new[g].told = c.grp[g].told
      BY ONLY <2>1, PendedFacts, ZenonT(30)
    <2>3. grp = new
      BY DEF Settled
    <2> HIDE DEF new
    <2> QED
      BY <2>2, <2>3
  <1> HIDE DEF grp
  <1>2. /\ d \in Client /\ d.groups = groups /\ d.grp = grp /\ d.out = <<>>
        /\ \A t \in Topic : d.byTopic[t] = 0 /\ d.early[t] = <<>>
    BY DEF Quieted, grp
  <1>3. ASSUME NEW k \in Key, d.groups[k] # 0
        PROVE  d.groups[k] \in K /\ d.grp[d.groups[k]].key = k
    <2>1. d.groups[k] = c.groups[k]
      BY <1>2, <1>3
    <2>2. c.groups[k] \in K /\ c.grp[c.groups[k]].key = k
      BY <1>3, <2>1 DEF Linked
    <2> QED
      BY <1>1, <1>2, <2>1, <2>2
  <1>4. Linked(d, K)
    BY <1>2, <1>3 DEF Linked
  <1>5. AsksFor(d.out, K)
    BY <1>2, AsksNothing
  <1>6. \A g \in Gid : /\ d.grp[g].epoch = c.grp[g].epoch /\ d.grp[g].at = c.grp[g].at
                       /\ d.grp[g].told = c.grp[g].told /\ d.grp[g].seq = c.grp[g].seq
                       /\ d.grp[g].key = c.grp[g].key
    BY <1>1, <1>2
  <1>7. Kept(c, d, K, K)
    BY <1>2, <1>4, <1>5, <1>6 DEF Kept
  <1>8. Dispatched(d)
    BY <1>2 DEF Dispatched
  <1>9. ASSUME groups = c.groups, Alive(c, K) PROVE Alive(d, K)
    <2>1. d.groups = c.groups
      BY <1>2, <1>9
    <2>2. \A g \in K : /\ d.grp[g].key = c.grp[g].key /\ d.grp[g].subs = c.grp[g].subs
                       /\ d.grp[g].over = c.grp[g].over
      BY <1>1, <1>2
    <2> QED
      BY <1>9, <2>1, <2>2 DEF Alive
  <1> QED
    BY <1>2, <1>7, <1>8, <1>9

-----------------------------------------------------------------------------
\* The order of the streams.

Hubs == [next : Nat, pos : [Topic -> Nat], held : SUBSET Topic,
         cursor : [Topic -> [epoch : Nat, seq : Nat]]]

Numbers(m) == m.epoch \in Nat /\ m.seq \in Nat /\ m.pos \in Nat

LEMMA HubFields ==
  ASSUME NEW h \in Hubs
  PROVE  /\ h.next \in Nat /\ h.held \in SUBSET Topic
         /\ \A t \in Topic : /\ h.pos[t] \in Nat /\ h.cursor[t].epoch \in Nat
                             /\ h.cursor[t].seq \in Nat
  <1>1. /\ h.next \in Nat /\ h.held \in SUBSET Topic /\ h.pos \in [Topic -> Nat]
        /\ h.cursor \in [Topic -> [epoch : Nat, seq : Nat]]
    BY DEF Hubs
  <1> QED
    BY <1>1

LEMMA PlaceNumbers ==
  ASSUME NEW c \in Client, NEW K \in SUBSET Gid, NEW t \in Topic, NEW m \in Places(c, K, t)
  PROVE  Numbers(m)
  <1>1. CASE \E g \in K : m = Mark(c, g)
    <2>1. PICK g \in K : m = Mark(c, g)
      BY <1>1
    <2>2. c.grp[g] \in Group
      BY ClientFields
    <2> QED
      BY <2>1, <2>2 DEF Mark, Group, Numbers
  <1>2. CASE \E i \in DOMAIN c.early[t] : m = c.early[t][i]
    <2>1. PICK i \in DOMAIN c.early[t] : m = c.early[t][i]
      BY <1>2
    <2>2. c.early[t] \in Seq(Sent)
      BY ClientFields
    <2>3. m \in Sent
      BY <2>1, <2>2
    <2> QED
      BY <2>3 DEF Sent, Numbers
  <1> QED
    BY <1>1, <1>2 DEF Places

\* The streams only go on: a topic that is held stays in its epoch, as far on
\* by sequence numbers as by messages, or is in an epoch of its own.
Moves(h, i) ==
  /\ h.next <= i.next
  /\ \A t \in Topic :
       /\ h.pos[t] <= i.pos[t]
       /\ t \in i.held =>
            \/ h.next <= i.cursor[t].epoch /\ i.cursor[t].epoch < i.next
            \/ /\ t \in h.held /\ i.cursor[t].epoch = h.cursor[t].epoch
               /\ i.cursor[t].seq + h.pos[t] = h.cursor[t].seq + i.pos[t]

\* The places two records name are the same.
LEMMA SamePlace ==
  ASSUME NEW m, NEW n, m.epoch = n.epoch, m.seq = n.seq, m.pos = n.pos
  PROVE  /\ \A h, t : Past(h, t, m) => Past(h, t, n)
         /\ \A s, i, t : Ahead(s, i, t, m) => Ahead(s, i, t, n)
  BY DEF Past, Ahead, Then

LEMMA PastMoves ==
  ASSUME NEW h \in Hubs, NEW i \in Hubs, Moves(h, i), NEW t \in Topic, NEW m, Numbers(m),
         Past(h, t, m)
  PROVE  Past(i, t, m)
  <1>1. /\ h.next \in Nat /\ i.next \in Nat /\ h.pos[t] \in Nat /\ i.pos[t] \in Nat
        /\ h.cursor[t].epoch \in Nat /\ h.cursor[t].seq \in Nat
        /\ i.cursor[t].epoch \in Nat /\ i.cursor[t].seq \in Nat
    BY HubFields
  <1>2. m.epoch < i.next /\ m.pos <= i.pos[t]
    BY <1>1 DEF Moves, Past, Numbers
  <1>3. ASSUME t \in i.held PROVE Then(m, Spot(i, t))
    <2> DEFINE n == Spot(i, t)
    <2>1. /\ n.epoch = i.cursor[t].epoch /\ n.seq = i.cursor[t].seq /\ n.pos = i.pos[t]
          /\ n.kind # "unsubscribed_reset"
      BY DEF Spot
    <2>2. CASE h.next <= i.cursor[t].epoch
      <3>1. m.epoch < n.epoch /\ m.pos <= n.pos
        BY <1>1, <1>2, <2>1, <2>2 DEF Past, Numbers
      <3> HIDE DEF n
      <3>2. m.epoch <= n.epoch /\ m.epoch # n.epoch
        BY <1>1, <2>1, <3>1 DEF Numbers
      <3> QED
        BY <2>1, <3>1, <3>2 DEF Then, n
    <2>3. CASE /\ t \in h.held /\ i.cursor[t].epoch = h.cursor[t].epoch
               /\ i.cursor[t].seq + h.pos[t] = h.cursor[t].seq + i.pos[t]
      <3> DEFINE o == Spot(h, t)
      <3>1. o.epoch = h.cursor[t].epoch /\ o.seq = h.cursor[t].seq /\ o.pos = h.pos[t]
        BY DEF Spot
      <3>2. Then(m, o)
        BY <2>3 DEF Past
      <3> HIDE DEF o, n
      <3>3. m.epoch <= n.epoch /\ (m.epoch = n.epoch => m.pos + o.seq = o.pos + m.seq)
        BY <2>1, <2>3, <3>1, <3>2 DEF Then
      <3>4. m.pos <= n.pos
        BY <1>2, <2>1
      <3>5. \A a, b, p, q, x, y \in Nat : a + x = p + b /\ y + p = x + q => a + y = q + b
        OBVIOUS
      <3>6. m.epoch = n.epoch => m.pos + n.seq = n.pos + m.seq
        <4>1. /\ m.pos \in Nat /\ m.seq \in Nat /\ o.pos \in Nat /\ n.pos \in Nat
              /\ o.seq \in Nat /\ n.seq \in Nat
          BY <1>1, <2>1, <3>1 DEF Numbers
        <4>2. n.seq + o.pos = o.seq + n.pos
          BY <2>1, <2>3, <3>1
        <4> QED
          BY <3>3, <3>5, <4>1, <4>2
      <3> QED
        BY <2>1, <3>3, <3>4, <3>6 DEF Then, n
    <2> QED
      BY <1>3, <2>2, <2>3 DEF Moves
  <1> QED
    BY <1>2, <1>3 DEF Past

\* What is before all of s is before what is left of it.
Left(s, u) ==
  \/ u = s
  \/ u = <<>>
  \/ s # <<>> /\ u = Tail(s)

LEMMA TailFacts ==
  ASSUME NEW s \in Seq(Sent), s # <<>>
  PROVE  /\ Tail(s) \in Seq(Sent) /\ Head(s) = s[1] /\ 1 \in DOMAIN s /\ Head(s) \in Sent
         /\ \A j \in DOMAIN Tail(s) : /\ j \in Nat /\ j >= 1 /\ j + 1 \in DOMAIN s
                                      /\ Tail(s)[j] = s[j + 1]
  <1>1. /\ Tail(s) \in Seq(Sent) /\ Len(Tail(s)) = Len(s) - 1 /\ Len(s) \in Nat
        /\ Len(s) >= 1 /\ Head(s) = s[1]
    OBVIOUS
  <1>2. DOMAIN s = 1 .. Len(s) /\ DOMAIN Tail(s) = 1 .. Len(s) - 1
    BY <1>1
  <1>3. 1 \in DOMAIN s /\ s[1] \in Sent
    BY <1>1, <1>2
  <1>4. ASSUME NEW j \in DOMAIN Tail(s)
        PROVE  j \in Nat /\ j >= 1 /\ j + 1 \in DOMAIN s /\ Tail(s)[j] = s[j + 1]
    BY <1>1, <1>2
  <1> QED
    BY <1>1, <1>3, <1>4

\* A step of the client: the frames that are left keep their order.
LEMMA ClientOrder ==
  ASSUME NEW c, NEW K, NEW s \in Seq(Sent), NEW h \in Hubs, InOrder(c, K, s, h),
         NEW d \in Client, NEW L \in SUBSET Gid, NEW u, Left(s, u), NEW i \in Hubs, Moves(h, i),
         \A t \in i.held : i.cursor[t].epoch \in 1 .. i.next - 1,
         \A t \in Topic : \A m \in Places(d, L, t) :
            m.epoch # 0 /\ Past(h, t, m) /\ Ahead(u, 1, t, m)
  PROVE  InOrder(d, L, u, i)
  <1>1. ASSUME NEW j \in DOMAIN u, u[j].kind \in Telling
        PROVE  /\ u[j].epoch # 0 /\ Past(i, u[j].topic, u[j])
               /\ Ahead(u, j + 1, u[j].topic, u[j])
    <2>1. CASE u = s
      <3>1. s[j] \in Sent
        BY <1>1, <2>1
      <3>2. s[j].topic \in Topic /\ Numbers(s[j])
        BY <3>1 DEF Sent, Numbers
      <3>3. s[j].epoch # 0 /\ Past(h, s[j].topic, s[j]) /\ Ahead(s, j + 1, s[j].topic, s[j])
        BY <1>1, <2>1 DEF InOrder
      <3> QED
        BY <2>1, <3>2, <3>3, PastMoves
    <2>2. CASE u = <<>>
      BY <1>1, <2>2
    <2>3. CASE s # <<>> /\ u = Tail(s)
      <3>1. j \in Nat /\ j + 1 \in DOMAIN s /\ u[j] = s[j + 1]
        BY <1>1, <2>3, TailFacts
      <3>2. s[j + 1] \in Sent
        BY <3>1
      <3>3. s[j + 1].topic \in Topic /\ Numbers(s[j + 1])
        BY <3>2 DEF Sent, Numbers
      <3>4. /\ s[j + 1].epoch # 0 /\ Past(h, s[j + 1].topic, s[j + 1])
            /\ Ahead(s, j + 1 + 1, s[j + 1].topic, s[j + 1])
        BY <1>1, <3>1 DEF InOrder
      <3>5. Ahead(u, j + 1, u[j].topic, u[j])
        <4>1. ASSUME NEW l \in DOMAIN u, l >= j + 1, u[l].topic = u[j].topic,
                     u[l].kind \in Telling
              PROVE  Then(u[j], u[l])
          <5>1. l \in Nat /\ l + 1 \in DOMAIN s /\ u[l] = s[l + 1]
            BY <2>3, <4>1, TailFacts
          <5>2. l + 1 >= j + 1 + 1
            BY <3>1, <4>1, <5>1
          <5> QED
            BY <3>1, <3>4, <4>1, <5>1, <5>2 DEF Ahead
        <4> QED
          BY <4>1 DEF Ahead
      <3> QED
        BY <3>1, <3>3, <3>4, <3>5, PastMoves
    <2> QED
      BY <2>1, <2>2, <2>3 DEF Left
  <1>2. ASSUME NEW t \in Topic, NEW m \in Places(d, L, t)
        PROVE  m.epoch # 0 /\ Past(i, t, m) /\ Ahead(u, 1, t, m)
    BY <1>2, PlaceNumbers, PastMoves
  <1> QED
    BY <1>1, <1>2 DEF InOrder

\* Readers that stay where they are know nothing new.
LEMMA KeptPlaces ==
  ASSUME NEW c \in Client, NEW d, NEW K \in SUBSET Gid, NEW L \in SUBSET Gid,
         Kept(c, d, K, L), \A g \in L \ K : c.grp[g].epoch = 0, NEW t \in Topic
  PROVE  Places(d, L, t) \subseteq Places(c, K, t)
  <1>1. ASSUME NEW g \in L, d.grp[g].epoch # 0, TopicOfGroup(d, g) = t
        PROVE  Mark(d, g) \in Places(c, K, t)
    <2>1. d.grp[g].epoch = c.grp[g].epoch /\ d.grp[g].at = c.grp[g].at
      BY DEF Kept
    <2>2. g \in K /\ d.grp[g].seq = c.grp[g].seq
      BY <1>1, <2>1 DEF Kept
    <2>3. Mark(d, g) = Mark(c, g)
      BY <2>1, <2>2 DEF Mark
    <2>4. TopicOfGroup(c, g) = t /\ c.grp[g].epoch # 0
      BY <1>1, <2>1, <2>2 DEF Kept, TopicOfGroup
    <2> QED
      BY <2>2, <2>3, <2>4 DEF Places
  <1>2. ASSUME NEW i \in DOMAIN d.early[t] PROVE d.early[t][i] \in Places(c, K, t)
    <2>1. d.early[t] = c.early[t]
      BY <1>2 DEF Kept
    <2> QED
      BY <1>2, <2>1 DEF Places
  <1> QED
    BY <1>1, <1>2 DEF Places

\* Readers that have handled the first frame of s know it too; when it ended
\* their subscription they are at its position, in the epoch they knew.
LEMMA HandledPlaces ==
  ASSUME NEW c \in Client, NEW d, NEW K \in SUBSET Gid, NEW s \in Seq(Sent), s # <<>>,
         NEW h \in Hubs, InOrder(c, K, s, h), Handled(c, d, Head(s), K), NEW t \in Topic,
         NEW m \in Places(d, K, t)
  PROVE  m.epoch # 0 /\ Past(h, t, m) /\ Ahead(Tail(s), 1, t, m)
  <1> DEFINE f == Head(s)
             u == Tail(s)
  <1>1. /\ u \in Seq(Sent) /\ f = s[1] /\ 1 \in DOMAIN s /\ f \in Sent
        /\ \A j \in DOMAIN u : j \in Nat /\ j >= 1 /\ j + 1 \in DOMAIN s /\ u[j] = s[j + 1]
    BY TailFacts
  <1> HIDE DEF f, u
  <1>2. ASSUME NEW x, NEW i \in Nat, i <= 2, Ahead(s, i, t, x) PROVE Ahead(u, 1, t, x)
    <2>1. ASSUME NEW j \in DOMAIN u, u[j].topic = t, u[j].kind \in Telling PROVE Then(x, u[j])
      <3>1. j \in Nat /\ j >= 1 /\ j + 1 \in DOMAIN s /\ u[j] = s[j + 1]
        BY <1>1
      <3>2. j + 1 >= i
        BY <1>2, <3>1
      <3> QED
        BY <1>2, <2>1, <3>1, <3>2 DEF Ahead
    <2> QED
      BY <2>1 DEF Ahead
  <1>3. ASSUME NEW x \in Places(c, K, t)
        PROVE  x.epoch # 0 /\ Past(h, t, x) /\ Ahead(s, 1, t, x) /\ Ahead(u, 1, t, x)
    BY <1>2, <1>3 DEF InOrder
  <1>4. ASSUME f.kind \in Telling, f.topic = t
        PROVE  f.epoch # 0 /\ Past(h, t, f) /\ Ahead(u, 1, t, f)
    <2>1. f.epoch # 0 /\ Past(h, t, f) /\ Ahead(s, 1 + 1, t, f)
      BY <1>1, <1>4 DEF InOrder
    <2>2. Ahead(s, 2, t, f)
      BY <2>1
    <2> QED
      BY <1>2, <2>1, <2>2
  <1>5. ASSUME NEW i \in DOMAIN d.early[t], m = d.early[t][i]
        PROVE  m.epoch # 0 /\ Past(h, t, m) /\ Ahead(u, 1, t, m)
    <2>1. CASE d.early[t] \in {c.early[t], <<>>}
      <3>1. d.early[t] = c.early[t]
        BY <1>5, <2>1
      <3>2. m \in Places(c, K, t)
        BY <1>5, <3>1 DEF Places
      <3> QED
        BY <1>3, <3>2
    <2>2. CASE /\ t = f.topic /\ f.kind = "publish"
               /\ d.early[t] = Append(c.early[t], f)
      <3>1. c.early[t] \in Seq(Sent)
        BY ClientFields
      <3> DEFINE e == c.early[t]
      <3>2. \/ i \in DOMAIN e /\ d.early[t][i] = e[i]
            \/ d.early[t][i] = f
        <4> HIDE DEF e
        <4>1. e \in Seq(Sent) /\ d.early[t] = Append(e, f)
          BY <2>2, <3>1 DEF e
        <4>2. i \in 1 .. Len(e) + 1 /\ Len(e) \in Nat /\ DOMAIN e = 1 .. Len(e)
          BY <1>5, <4>1
        <4>3. CASE i = Len(e) + 1
          BY <4>1, <4>3
        <4>4. CASE i # Len(e) + 1
          <5>1. i \in 1 .. Len(e)
            BY <4>2, <4>4
          <5> QED
            BY <4>1, <4>2, <5>1
        <4> QED
          BY <4>3, <4>4
      <3>3. CASE i \in DOMAIN e /\ d.early[t][i] = e[i]
        <4>1. m \in Places(c, K, t)
          BY <1>5, <3>3 DEF Places
        <4> QED
          BY <1>3, <4>1
      <3>4. CASE d.early[t][i] = f
        BY <1>4, <1>5, <2>2, <3>4 DEF Telling
      <3> QED
        BY <3>2, <3>3, <3>4
    <2> QED
      BY <2>1, <2>2 DEF Handled, f
  <1>6. ASSUME NEW g \in K, d.grp[g].epoch # 0, TopicOfGroup(d, g) = t, m = Mark(d, g)
        PROVE  m.epoch # 0 /\ Past(h, t, m) /\ Ahead(u, 1, t, m)
    <2>0. TopicOfGroup(c, g) = t
      BY <1>6 DEF Handled, TopicOfGroup
    <2>1. /\ m.epoch = d.grp[g].epoch /\ m.seq = d.grp[g].seq /\ m.pos = d.grp[g].at
      BY <1>6 DEF Mark
    <2> DEFINE o == Mark(c, g)
    <2>2. /\ o.epoch = c.grp[g].epoch /\ o.seq = c.grp[g].seq /\ o.pos = c.grp[g].at
      BY DEF Mark
    <2>3. ASSUME c.grp[g].epoch # 0 PROVE o \in Places(c, K, t)
      BY <2>0, <2>3 DEF Places
    <2> HIDE DEF o
    <2>4. CASE Same(c, d, g)
      <3>1. o \in Places(c, K, t)
        BY <1>6, <2>3, <2>4 DEF Same
      <3>2. m.epoch = o.epoch /\ m.seq = o.seq /\ m.pos = o.pos
        BY <2>1, <2>2, <2>4 DEF Same
      <3> QED
        BY <1>3, <1>6, <2>1, <3>1, <3>2, SamePlace
    <2>5. CASE At(d, g, f) /\ f.topic = t /\ f.kind \in Telling
      <3>1. m.epoch = f.epoch /\ m.seq = f.seq /\ m.pos = f.pos
        BY <2>1, <2>5 DEF At
      <3> QED
        BY <1>4, <2>5, <3>1, SamePlace
    <2>6. CASE /\ c.grp[g].epoch # 0 /\ f.topic = t
               /\ f.kind = "unsubscribed_reset" /\ d.grp[g].at = f.pos
               /\ d.grp[g].epoch = c.grp[g].epoch /\ d.grp[g].seq = c.grp[g].seq
      <3>1. o.epoch # 0 /\ Past(h, t, o) /\ Ahead(s, 1, t, o)
        BY <1>3, <2>3, <2>6
      <3>2. Then(o, f)
        BY <1>1, <2>6, <3>1 DEF Ahead, Telling
      <3>3. Numbers(o) /\ Numbers(f) /\ m.epoch = o.epoch /\ m.seq = o.seq /\ m.pos = f.pos
        <4>1. Numbers(o)
          BY <2>3, <2>6, PlaceNumbers
        <4> QED
          BY <1>1, <2>1, <2>2, <2>6, <4>1 DEF Numbers, Sent
      <3>4. m.epoch < f.epoch
        BY <2>6, <3>2, <3>3 DEF Then
      <3>5. Past(h, t, f) /\ Ahead(u, 1, t, f)
        BY <1>4, <2>6 DEF Telling
      <3>6. ASSUME NEW n, n.epoch \in Nat, Then(f, n) PROVE Then(m, n)
        <4>1. m.epoch < n.epoch
          BY <3>3, <3>4, <3>6 DEF Then, Numbers
        <4>2. m.epoch <= n.epoch /\ m.epoch # n.epoch
          BY <3>3, <3>6, <4>1 DEF Numbers
        <4>3. m.pos <= n.pos
          BY <3>3, <3>6 DEF Then
        <4> QED
          BY <4>1, <4>2, <4>3 DEF Then
      <3>7. Ahead(u, 1, t, m)
        <4>0. \A j \in DOMAIN u : u[j] \in Sent
          BY <1>1
        <4>1. \A j \in DOMAIN u : u[j].epoch \in Nat
          BY <4>0 DEF Sent
        <4> QED
          BY <3>5, <3>6, <4>1 DEF Ahead
      <3>8. Past(h, t, m)
        <4>1. Spot(h, t).epoch \in Nat
          BY HubFields DEF Spot
        <4>2. m.epoch < h.next /\ m.pos <= h.pos[t]
          BY <3>1, <3>3, <3>5 DEF Past
        <4> QED
          BY <3>5, <3>6, <4>1, <4>2 DEF Past
      <3> QED
        BY <1>6, <2>1, <3>7, <3>8
    <2>7. Same(c, d, g) \/ Change(c, d, g, f)
      BY DEF Handled, f
    <2> QED
      BY <2>0, <2>4, <2>5, <2>6, <2>7 DEF Change
  <1>7. \/ \E i \in DOMAIN d.early[t] : m = d.early[t][i]
        \/ \E g \in K : d.grp[g].epoch # 0 /\ TopicOfGroup(d, g) = t /\ m = Mark(d, g)
    BY DEF Places
  <1> QED
    BY <1>5, <1>6, <1>7 DEF u

\* What the hub appends: frames of different topics, in the past of the streams
\* as they are now and after all that was in their past before.
Fresh(x, h, i) ==
  x.kind \in Telling =>
    /\ x.epoch # 0 /\ Past(i, x.topic, x)
    /\ \A m : Numbers(m) /\ Past(h, x.topic, m) => Then(m, x)

LEMMA HubOrder ==
  ASSUME NEW c \in Client, NEW K \in SUBSET Gid, NEW s \in Seq(Sent), NEW h \in Hubs,
         InOrder(c, K, s, h), NEW i \in Hubs, Moves(h, i),
         \A t \in i.held : i.cursor[t].epoch \in 1 .. i.next - 1,
         NEW n \in Seq(Sent), \A j \in DOMAIN n : Fresh(n[j], h, i),
         \A j, l \in DOMAIN n : j # l => n[j].topic # n[l].topic
  PROVE  InOrder(c, K, s \o n, i)
  <1> DEFINE u == s \o n
  <1>1. /\ Len(s) \in Nat /\ Len(n) \in Nat /\ DOMAIN s = 1 .. Len(s)
        /\ DOMAIN n = 1 .. Len(n) /\ DOMAIN u = 1 .. Len(s) + Len(n)
        /\ \A j \in 1 .. Len(s) : u[j] = s[j]
        /\ \A j \in 1 .. Len(s) + Len(n) : j > Len(s) => u[j] = n[j - Len(s)]
    OBVIOUS
  <1> HIDE DEF u
  <1>2. ASSUME NEW j \in DOMAIN u
        PROVE  \/ j \in DOMAIN s /\ u[j] = s[j]
               \/ /\ j \in Nat /\ j > Len(s) /\ j - Len(s) \in DOMAIN n
                  /\ u[j] = n[j - Len(s)]
    BY <1>1
  <1>3. ASSUME NEW x, Numbers(x), NEW t \in Topic, Past(h, t, x), NEW p \in Nat, Ahead(s, p, t, x)
        PROVE  Ahead(u, p, t, x)
    <2>1. ASSUME NEW j \in DOMAIN u, j >= p, u[j].topic = t, u[j].kind \in Telling
          PROVE  Then(x, u[j])
      <3>1. CASE j \in DOMAIN s /\ u[j] = s[j]
        BY <1>3, <2>1, <3>1 DEF Ahead
      <3>2. CASE j - Len(s) \in DOMAIN n /\ u[j] = n[j - Len(s)]
        BY <1>3, <2>1, <3>2 DEF Fresh
      <3> QED
        BY <1>2, <2>1, <3>1, <3>2
    <2> QED
      BY <2>1 DEF Ahead
  <1>4. ASSUME NEW j \in DOMAIN u, u[j].kind \in Telling
        PROVE  u[j].epoch # 0 /\ Past(i, u[j].topic, u[j]) /\ Ahead(u, j + 1, u[j].topic, u[j])
    <2>1. CASE j \in DOMAIN s /\ u[j] = s[j]
      <3>1. s[j] \in Sent /\ j + 1 \in Nat
        BY <1>1, <2>1
      <3>2. s[j].topic \in Topic /\ Numbers(s[j])
        BY <3>1 DEF Sent, Numbers
      <3>3. s[j].epoch # 0 /\ Past(h, s[j].topic, s[j]) /\ Ahead(s, j + 1, s[j].topic, s[j])
        BY <1>4, <2>1 DEF InOrder
      <3>4. Ahead(u, j + 1, s[j].topic, s[j])
        BY <1>3, <3>1, <3>2, <3>3
      <3> QED
        BY <2>1, <3>2, <3>3, <3>4, PastMoves
    <2>2. CASE /\ j \in Nat /\ j > Len(s) /\ j - Len(s) \in DOMAIN n
               /\ u[j] = n[j - Len(s)]
      <3>1. u[j].epoch # 0 /\ Past(i, u[j].topic, u[j])
        BY <1>4, <2>2 DEF Fresh
      <3>2. ASSUME NEW l \in DOMAIN u, l >= j + 1, u[l].topic = u[j].topic PROVE FALSE
        <4>1. l \in Nat /\ l > Len(s)
          BY <1>1, <2>2, <3>2
        <4>2. l - Len(s) \in DOMAIN n /\ u[l] = n[l - Len(s)]
          BY <1>1, <1>2, <3>2, <4>1
        <4>3. l - Len(s) # j - Len(s)
          BY <1>1, <2>2, <3>2, <4>1
        <4> QED
          BY <2>2, <3>2, <4>2, <4>3
      <3> QED
        BY <3>1, <3>2 DEF Ahead
    <2> QED
      BY <1>2, <2>1, <2>2
  <1>5. ASSUME NEW t \in Topic, NEW m \in Places(c, K, t)
        PROVE  m.epoch # 0 /\ Past(i, t, m) /\ Ahead(u, 1, t, m)
    <2>1. m.epoch # 0 /\ Past(h, t, m) /\ Ahead(s, 1, t, m)
      BY <1>5 DEF InOrder
    <2>2. Numbers(m)
      BY <1>5, PlaceNumbers
    <2> QED
      BY <1>3, <2>1, <2>2, PastMoves
  <1>6. InOrder(c, K, u, i)
    BY <1>4, <1>5 DEF InOrder
  <1> QED
    BY <1>6 DEF u

\* The frame of the streams' own place, in a topic the node holds, is fresh: an
\* acknowledgement or the next message.
LEMMA SpotFresh ==
  ASSUME NEW h \in Hubs, NEW i \in Hubs, Moves(h, i), NEW x \in Sent,
         x.kind # "unsubscribed_reset", x.topic \in i.held,
         x.epoch = i.cursor[x.topic].epoch, x.seq = i.cursor[x.topic].seq,
         x.pos = i.pos[x.topic], x.epoch \in 1 .. i.next - 1
  PROVE  Fresh(x, h, i)
  <1> DEFINE t == x.topic
             o == Spot(i, t)
  <1>0. t \in Topic /\ i.next \in Nat /\ i.pos[t] \in Nat /\ Numbers(x)
    BY HubFields DEF Sent, Numbers
  <1>1. o.epoch = x.epoch /\ o.seq = x.seq /\ o.pos = x.pos /\ o.kind # "unsubscribed_reset"
    BY DEF Spot
  <1> HIDE DEF o
  <1>2. Then(x, o)
    BY <1>0, <1>1 DEF Then, Numbers
  <1>3. Past(i, t, x)
    BY <1>0, <1>2 DEF Past, Numbers, o
  <1>4. ASSUME NEW m, Numbers(m), Past(h, t, m) PROVE Then(m, x)
    <2>1. Past(i, t, m)
      BY <1>0, <1>4, PastMoves
    <2>2. Then(m, o)
      BY <2>1 DEF Past, o
    <2> QED
      BY <1>1, <2>2 DEF Then
  <1> QED
    BY <1>0, <1>3, <1>4 DEF Fresh

\* The first frame of a new epoch is fresh.
LEMMA EpochFresh ==
  ASSUME NEW h \in Hubs, NEW i \in Hubs, NEW x \in Sent, h.pos[x.topic] <= i.pos[x.topic],
         x.epoch = h.next, x.epoch # 0, x.epoch < i.next, x.pos = i.pos[x.topic],
         x.topic \in i.held => /\ x.epoch = i.cursor[x.topic].epoch
                               /\ x.seq = i.cursor[x.topic].seq
  PROVE  Fresh(x, h, i)
  <1> DEFINE t == x.topic
             o == Spot(i, t)
  <1>0. /\ t \in Topic /\ h.next \in Nat /\ i.next \in Nat /\ h.pos[t] \in Nat
        /\ i.pos[t] \in Nat /\ Numbers(x)
    BY HubFields DEF Sent, Numbers
  <1>1. o.pos = x.pos /\ o.kind # "unsubscribed_reset"
        /\ (t \in i.held => o.epoch = x.epoch /\ o.seq = x.seq)
    BY DEF Spot
  <1> HIDE DEF o
  <1>2. t \in i.held => Then(x, o)
    BY <1>0, <1>1 DEF Then, Numbers
  <1>3. Past(i, t, x)
    BY <1>0, <1>2 DEF Past, Numbers, o
  <1>4. ASSUME NEW m, Numbers(m), Past(h, t, m) PROVE Then(m, x)
    <2>1. m.epoch < x.epoch /\ m.pos <= h.pos[t]
      BY <1>4 DEF Past
    <2>2. m.epoch <= x.epoch /\ m.epoch # x.epoch /\ m.pos <= x.pos
      BY <1>0, <1>4, <2>1 DEF Numbers
    <2> QED
      BY <2>1, <2>2 DEF Then
  <1> QED
    BY <1>0, <1>3, <1>4 DEF Fresh

-----------------------------------------------------------------------------
\* The steps.

StreamInv == TypeOK /\ LinkInv /\ FeedInv

LEMMA StreamsFacts ==
  ASSUME TypeOK
  PROVE  /\ Streams \in Hubs /\ Streams.next = nextEpoch /\ Streams.pos = pos
         /\ Streams.held = {t \in Topic : Held(t)} /\ Streams.cursor = cursor
  BY DEF TypeOK, Streams, Hubs

LEMMA StreamsFactsPrimed ==
  ASSUME TypeOK'
  PROVE  /\ Streams' \in Hubs /\ Streams'.next = nextEpoch' /\ Streams'.pos = pos'
         /\ Streams'.held = {t \in Topic : Held(t)'} /\ Streams'.cursor = cursor'
  BY DEF TypeOK, Streams, Hubs

LEMMA KnownFacts ==
  ASSUME TypeOK
  PROVE  Known \in SUBSET Gid
  <1>1. nextGroup \in 1 .. MaxGroups + 1 /\ MaxGroups \in Nat
    BY Constants DEF TypeOK
  <1> QED
    BY <1>1 DEF Known, Gid

LEMMA KnownFactsPrimed ==
  ASSUME TypeOK'
  PROVE  Known' \in SUBSET Gid
  <1>1. nextGroup' \in 1 .. MaxGroups + 1 /\ MaxGroups \in Nat
    BY Constants DEF TypeOK
  <1>2. Known' = 1 .. nextGroup' - 1
    BY DEF Known
  <1>3. \A n \in 1 .. MaxGroups + 1 : 1 .. n - 1 \in SUBSET Gid
    BY <1>1 DEF Gid
  <1> QED
    BY <1>1, <1>2, <1>3

\* The streams stand still.
LEMMA MovesRefl ==
  ASSUME NEW c, NEW K, NEW s, NEW h \in Hubs, InOrder(c, K, s, h)
  PROVE  Moves(h, h) /\ \A t \in h.held : h.cursor[t].epoch \in 1 .. h.next - 1
  <1>1. h.next \in Nat /\ \A t \in Topic : h.pos[t] \in Nat /\ h.cursor[t].seq \in Nat
    BY HubFields
  <1> QED
    BY <1>1 DEF Moves, InOrder

LEMMA AsksConcat ==
  ASSUME NEW s \in Seq(Asked), NEW n \in Seq(Asked), NEW K, NEW L, K \subseteq L,
         AsksFor(s, K), AsksFor(n, L)
  PROVE  s \o n \in Seq(Asked) /\ AsksFor(s \o n, L)
  <1> DEFINE u == s \o n
  <1>1. /\ Len(s) \in Nat /\ Len(n) \in Nat /\ DOMAIN s = 1 .. Len(s)
        /\ DOMAIN n = 1 .. Len(n) /\ DOMAIN u = 1 .. Len(s) + Len(n)
        /\ \A j \in 1 .. Len(s) : u[j] = s[j]
        /\ \A j \in 1 .. Len(s) + Len(n) : j > Len(s) => u[j] = n[j - Len(s)]
        /\ u \in Seq(Asked)
    OBVIOUS
  <1> HIDE DEF u
  <1>2. ASSUME NEW j \in DOMAIN u
        PROVE  \/ j \in DOMAIN s /\ u[j] = s[j]
               \/ j - Len(s) \in DOMAIN n /\ u[j] = n[j - Len(s)]
    BY <1>1
  <1>3. AsksFor(u, L)
    BY <1>2 DEF AsksFor
  <1> QED
    BY <1>1, <1>3 DEF u

\* The answers on the way, when some are read and the groups keep their keys.
LEMMA AnswersLeft ==
  ASSUME NEW c, NEW d, NEW K, NEW L, K \subseteq L, NEW s \in Seq(Sent), NEW u, Left(s, u),
         AnswersFor(s, c, K), \A g \in K : d.grp[g].key = c.grp[g].key
  PROVE  AnswersFor(u, d, L)
  <1>1. ASSUME NEW j \in DOMAIN u PROVE \E i \in DOMAIN s : u[j] = s[i]
    <2>1. CASE u = s
      BY <2>1
    <2>2. CASE u = <<>>
      BY <2>2
    <2>3. CASE s # <<>> /\ u = Tail(s)
      BY <2>3, TailFacts
    <2> QED
      BY <2>1, <2>2, <2>3 DEF Left
  <1>2. ASSUME NEW j \in DOMAIN u, u[j].kind \in {"ack", "error"}
        PROVE  u[j].group \in L /\ u[j].topic = TopicOfGroup(d, u[j].group)
    <2>1. PICK i \in DOMAIN s : u[j] = s[i]
      BY <1>1
    <2>2. s[i].group \in K /\ s[i].topic = TopicOfGroup(c, s[i].group)
      BY <1>2, <2>1 DEF AnswersFor
    <2> QED
      BY <2>1, <2>2 DEF TopicOfGroup
  <1> QED
    BY <1>2 DEF AnswersFor

\* A step of the client after which its readers are where they were.
LEMMA KeptStep ==
  ASSUME StreamInv, TypeOK', Known \subseteq Known',
         Kept(client, client', Known, Known'),
         AsksFor(toServer', Known'), tasks' \subseteq Known, Left(toClient, toClient'),
         Moves(Streams, Streams'),
         \A t \in Streams'.held : Streams'.cursor[t].epoch \in 1 .. Streams'.next - 1
  PROVE  StreamInv'
  <1>0. /\ client \in Client /\ Known \in SUBSET Gid /\ Known' \in SUBSET Gid
        /\ toClient \in Seq(Sent) /\ client' \in Client
        /\ Streams \in Hubs /\ Streams' \in Hubs
    BY KnownFacts, KnownFactsPrimed, StreamsFacts, StreamsFactsPrimed DEF StreamInv, TypeOK
  <1>1. InOrder(client, Known, toClient, Streams) /\ LinkInv
    BY DEF StreamInv, FeedInv
  <1>2. Unstarted(client', Known')
    <2>1. \A g \in Gid : /\ client'.grp[g].epoch = client.grp[g].epoch
                         /\ client'.grp[g].at = client.grp[g].at
                         /\ client'.grp[g].told = client.grp[g].told
      BY DEF Kept
    <2>2. Unstarted(client, Known)
      BY <1>1 DEF LinkInv
    <2> QED
      BY <2>1, <2>2 DEF Unstarted
  <1>3. \A g \in Known : client'.grp[g].key = client.grp[g].key
    BY DEF Kept
  <1>4. AnswersFor(toClient', client', Known')
    <2>1. AnswersFor(toClient, client, Known)
      BY <1>1 DEF LinkInv
    <2> QED
      BY <1>0, <1>3, <2>1, AnswersLeft
  <1>5. LinkInv'
    <2>1. Linked(client', Known')
      BY DEF Kept
    <2> QED
      BY <1>2, <1>4, <2>1 DEF LinkInv
  <1>6. ASSUME NEW t \in Topic, NEW m \in Places(client', Known', t)
        PROVE  m.epoch # 0 /\ Past(Streams, t, m) /\ Ahead(toClient', 1, t, m)
    <2>1. \A g \in Known' \ Known : client.grp[g].epoch = 0
      BY <1>0, <1>1 DEF LinkInv, Unstarted
    <2>2. m \in Places(client, Known, t)
      BY <1>0, <1>6, <2>1, KeptPlaces
    <2>3. m.epoch # 0 /\ Past(Streams, t, m) /\ Ahead(toClient, 1, t, m)
      BY <1>1, <2>2 DEF InOrder
    <2>4. CASE toClient' = toClient
      BY <2>3, <2>4
    <2>5. CASE toClient' = <<>>
      BY <2>3, <2>5 DEF Ahead
    <2>6. CASE toClient # <<>> /\ toClient' = Tail(toClient)
      <3>1. \A j \in DOMAIN Tail(toClient) : /\ j \in Nat /\ j >= 1 /\ j + 1 \in DOMAIN toClient
                                             /\ Tail(toClient)[j] = toClient[j + 1]
        BY <1>0, <2>6, TailFacts
      <3>2. \A j \in Nat : j >= 1 => j + 1 >= 1
        OBVIOUS
      <3>3. Ahead(Tail(toClient), 1, t, m)
        BY <2>3, <3>1, <3>2 DEF Ahead
      <3> QED
        BY <2>3, <2>6, <3>3
    <2> QED
      BY <2>4, <2>5, <2>6 DEF Left
  <1>7. InOrder(client', Known', toClient', Streams')
    BY <1>0, <1>1, <1>6, ClientOrder
  <1> QED
    BY <1>5, <1>7 DEF StreamInv, FeedInv

\* A step in which the client handles the next frame.
LEMMA HandledStep ==
  ASSUME StreamInv, TypeOK', Known' = Known, toClient # <<>>, toClient' = Tail(toClient),
         Handled(client, client', Head(toClient), Known),
         AsksFor(toServer', Known), tasks' = tasks, Streams' = Streams
  PROVE  StreamInv'
  <1> DEFINE f == Head(toClient)
  <1>0. /\ client \in Client /\ Known \in SUBSET Gid
        /\ toClient \in Seq(Sent) /\ client' \in Client /\ Streams \in Hubs
    BY KnownFacts, StreamsFacts DEF StreamInv, TypeOK
  <1>1. InOrder(client, Known, toClient, Streams) /\ LinkInv
    BY DEF StreamInv, FeedInv
  <1>2. /\ f = toClient[1] /\ 1 \in DOMAIN toClient
    BY <1>0, TailFacts
  <1>3. Unstarted(client', Known)
    <2>1. f.kind \in Telling => f.epoch # 0
      BY <1>1, <1>2 DEF InOrder
    <2> HIDE DEF f
    <2>2. Unstarted(client, Known)
      BY <1>1 DEF LinkInv
    <2>3. ASSUME NEW g \in Gid
          PROVE  /\ client'.grp[g].epoch = 0 => client'.grp[g].at = 0
                 /\ g \notin Known => client'.grp[g].epoch = 0 /\ ~client'.grp[g].told
      <3>1. CASE Same(client, client', g)
        BY <2>2, <3>1 DEF Same, Unstarted
      <3>2. CASE g \in Known /\ Change(client, client', g, f)
        <4>1. client'.grp[g].epoch # 0
          BY <2>1, <3>2 DEF Change, At
        <4> QED
          BY <3>2, <4>1
      <3> QED
        BY <3>1, <3>2 DEF Handled, f
    <2> QED
      BY <2>3 DEF Unstarted
  <1>4. AnswersFor(toClient', client', Known)
    <2>1. AnswersFor(toClient, client, Known) /\ Left(toClient, toClient')
      BY <1>1 DEF LinkInv, Left
    <2>2. \A g \in Known : client'.grp[g].key = client.grp[g].key
      BY <1>0 DEF Handled
    <2> QED
      BY <1>0, <2>1, <2>2, AnswersLeft
  <1>5. LinkInv'
    <2>1. Linked(client', Known) /\ tasks' \subseteq Known
      BY <1>1 DEF Handled, LinkInv
    <2> QED
      BY <1>3, <1>4, <2>1 DEF LinkInv
  <1>6. Left(toClient, toClient') /\ Moves(Streams, Streams)
        /\ \A t \in Streams.held : Streams.cursor[t].epoch \in 1 .. Streams.next - 1
    BY <1>0, <1>1, MovesRefl DEF Left
  <1>7. ASSUME NEW t \in Topic, NEW m \in Places(client', Known, t)
        PROVE  m.epoch # 0 /\ Past(Streams, t, m) /\ Ahead(toClient', 1, t, m)
    BY <1>0, <1>1, <1>7, HandledPlaces
  <1>8. InOrder(client', Known, toClient', Streams)
    BY <1>0, <1>1, <1>6, <1>7, ClientOrder
  <1> QED
    BY <1>5, <1>8 DEF StreamInv, FeedInv

\* A step of the hub.
LEMMA HubStep ==
  ASSUME StreamInv, TypeOK', client' = client, nextGroup' = nextGroup,
         AsksFor(toServer', Known), tasks' \subseteq Known,
         NEW n \in Seq(Sent), toClient' = toClient \o n,
         AnswersFor(n, client, Known), Moves(Streams, Streams'),
         \A t \in Streams'.held : Streams'.cursor[t].epoch \in 1 .. Streams'.next - 1,
         \A j \in DOMAIN n : Fresh(n[j], Streams, Streams'),
         \A j, l \in DOMAIN n : j # l => n[j].topic # n[l].topic
  PROVE  StreamInv'
  <1>0. /\ client \in Client /\ Known \in SUBSET Gid /\ toClient \in Seq(Sent)
        /\ Streams \in Hubs /\ Streams' \in Hubs
    BY KnownFacts, StreamsFacts, StreamsFactsPrimed DEF StreamInv, TypeOK
  <1>1. InOrder(client, Known, toClient, Streams) /\ LinkInv
    BY DEF StreamInv, FeedInv
  <1>2. Known' = Known
    BY DEF Known
  <1>3. AnswersFor(toClient', client, Known)
    <2> DEFINE u == toClient \o n
    <2>1. /\ Len(toClient) \in Nat /\ Len(n) \in Nat /\ DOMAIN toClient = 1 .. Len(toClient)
          /\ DOMAIN n = 1 .. Len(n) /\ DOMAIN u = 1 .. Len(toClient) + Len(n)
          /\ \A j \in 1 .. Len(toClient) : u[j] = toClient[j]
          /\ \A j \in 1 .. Len(toClient) + Len(n) :
                j > Len(toClient) => u[j] = n[j - Len(toClient)]
      BY <1>0
    <2> HIDE DEF u
    <2>2. ASSUME NEW j \in DOMAIN u
          PROVE  \/ j \in DOMAIN toClient /\ u[j] = toClient[j]
                 \/ j - Len(toClient) \in DOMAIN n /\ u[j] = n[j - Len(toClient)]
      BY <2>1
    <2>3. AnswersFor(u, client, Known)
      BY <1>1, <2>2 DEF AnswersFor, LinkInv
    <2> QED
      BY <2>3 DEF u
  <1>4. LinkInv'
    BY <1>1, <1>2, <1>3 DEF LinkInv
  <1>5. InOrder(client, Known, toClient', Streams')
    BY <1>0, <1>1, HubOrder
  <1> QED
    BY <1>2, <1>4, <1>5 DEF StreamInv, FeedInv

\* What the handler wrote goes on the wire.
LEMMA Written ==
  ASSUME TypeOK, LinkInv, NEW d \in Client, Becomes(d), NEW L, Known \subseteq L,
         AsksFor(d.out, L)
  PROVE  /\ client' = Flushed(d) /\ client' \in Client /\ client'.out = <<>>
         /\ toServer' \in Seq(Asked) /\ AsksFor(toServer', L)
         /\ \A K : Good(d, K) => Good(client', K)
         /\ client'.byTopic = d.byTopic
  <1>1. client' = Flushed(d) /\ toServer' = toServer \o d.out
    BY DEF Becomes, Flushed
  <1>2. /\ client' \in Client /\ client'.out = <<>> /\ \A K : Good(d, K) => Good(client', K)
        /\ client'.byTopic = d.byTopic
    BY <1>1, FlushedFacts
  <1>3. toServer \in Seq(Asked) /\ AsksFor(toServer, Known) /\ d.out \in Seq(Asked)
    BY ClientFields DEF TypeOK, LinkInv
  <1>4. toServer' \in Seq(Asked) /\ AsksFor(toServer', L)
    BY <1>1, <1>3, AsksConcat
  <1> QED
    BY <1>1, <1>2, <1>4

LEMMA KeptFlushed ==
  ASSUME NEW c, NEW d, NEW K, NEW L, Kept(c, d, K, L)
  PROVE  Kept(c, Flushed(d), K, L)
  <1> DEFINE e == Flushed(d)
  <1>1. /\ e \in Client /\ e.groups = d.groups /\ e.grp = d.grp
        /\ e.byTopic = d.byTopic /\ e.early = d.early /\ e.out = <<>>
        /\ Linked(e, L)
    BY FlushedFacts DEF Kept
  <1> HIDE DEF e
  <1>2. Kept(c, e, K, L)
    BY <1>1, AsksNothing DEF Kept
  <1> QED
    BY <1>2 DEF e

LEMMA HandledFlushed ==
  ASSUME NEW c, NEW d, NEW f, NEW K, Handled(c, d, f, K)
  PROVE  Handled(c, Flushed(d), f, K)
  <1> DEFINE e == Flushed(d)
  <1>1. /\ e \in Client /\ e.groups = d.groups /\ e.grp = d.grp
        /\ e.byTopic = d.byTopic /\ e.early = d.early /\ e.out = <<>>
        /\ Linked(e, K) /\ (Good(d, K) => Good(e, K))
    BY FlushedFacts DEF Handled
  <1> HIDE DEF e
  <1>2. \A g \in Gid : /\ Same(c, d, g) => Same(c, e, g)
                       /\ Change(c, d, g, f) => Change(c, e, g, f)
    BY <1>1 DEF Same, Change, At
  <1>3. AsksFor(e.out, K)
    BY <1>1, AsksNothing
  <1>4. Handled(c, e, f, K)
    BY <1>1, <1>2, <1>3 DEF Handled
  <1> QED
    BY <1>4 DEF e

\* The hub's variables are unchanged.
LEMMA StreamsSame ==
  ASSUME StreamInv, UNCHANGED serverVars
  PROVE  /\ Streams' = Streams /\ tasks' = tasks /\ Moves(Streams, Streams')
         /\ \A t \in Streams'.held : Streams'.cursor[t].epoch \in 1 .. Streams'.next - 1
  <1>1. Streams' = Streams /\ tasks' = tasks
    BY DEF serverVars, Streams, Held
  <1>2. Streams \in Hubs
    BY StreamsFacts DEF StreamInv
  <1> QED
    BY <1>1, <1>2, MovesRefl DEF StreamInv, FeedInv

\* The effect of the client's own steps.
OwnStep ==
  /\ Kept(client, client', Known, Known') /\ Known \subseteq Known'
  /\ client' \in Client /\ client'.out = <<>>
  /\ toServer' \in Seq(Asked) /\ AsksFor(toServer', Known')

LEMMA NewEffect ==
  ASSUME StreamInv, NEW k \in Key, SubscribeNew(k)
  PROVE  /\ OwnStep /\ (Good(client, Known) => Good(client', Known'))
         /\ client'.byTopic = client.byTopic
  <1> DEFINE n == nextGroup
             L == Known \union {n}
             m == New(client, k, n)
             d == IF ready THEN Send(m, n) ELSE m
  <1>0. /\ client \in Client /\ client.out = <<>> /\ n \in Gid /\ client.groups[k] = 0
        /\ Known \in SUBSET Gid /\ Linked(client, Known) /\ TypeOK /\ LinkInv
    BY KnownFacts DEF StreamInv, TypeOK, LinkInv, SubscribeNew
  <1>1. Known' = L /\ n \notin Known /\ L \in SUBSET Gid
    <2>1. n \in Nat /\ n >= 1 /\ nextGroup' = n + 1
      BY <1>0, Constants DEF Gid, SubscribeNew
    <2>2. Known = 1 .. n - 1 /\ Known' = 1 .. nextGroup' - 1
      BY DEF Known
    <2>3. 1 .. (n + 1) - 1 = (1 .. n - 1) \union {n} /\ n \notin 1 .. n - 1
      BY <2>1
    <2> HIDE DEF n
    <2> QED
      BY <1>0, <2>1, <2>2, <2>3
  <1>2. client.grp[n].epoch = 0 /\ client.grp[n].at = 0 /\ ~client.grp[n].told
    BY <1>0, <1>1 DEF LinkInv, Unstarted
  <1>3. AsksFor(client.out, Known)
    BY <1>0, AsksNothing
  <1>4. Becomes(d)
    BY DEF SubscribeNew, New
  <1> HIDE DEF n
  <1>5. Kept(client, m, Known, L) /\ (Good(client, Known) => Good(m, L))
    BY <1>0, <1>1, <1>2, <1>3, NewKept
  <1>m. m.byTopic = client.byTopic
    <2>1. client \in Client /\ k \in Key /\ n \in Gid
      BY <1>0
    <2> QED
      BY ONLY <2>1, NewFacts
  <1> HIDE DEF m, L
  <1>6. m \in Client /\ AsksFor(m.out, L) /\ m.out \in Seq(Asked)
    BY <1>5, ClientFields DEF Kept
  <1>7. /\ d \in Client /\ AsksFor(d.out, L) /\ Kept(client, d, Known, L)
        /\ Good(client, Known) => Good(d, L)
        /\ d.byTopic = m.byTopic
    <2>1. CASE ready
      <3>1. /\ d \in Client /\ d.groups = m.groups /\ d.byTopic = m.byTopic /\ Sheds(m, d)
            /\ \E x \in Asked : x.group = n /\ d.out = Append(m.out, x)
        BY <1>0, <1>6, <2>1, SendFacts
      <3> HIDE DEF d
      <3>2. n \in L
        BY DEF L
      <3>3. AsksFor(d.out, L)
        BY <1>6, <3>1, <3>2, AsksAppend
      <3>4. Kept(client, d, Known, L)
        BY <1>0, <1>1, <1>5, <3>1, <3>3, KeptThenSheds
      <3>5. Good(m, L) => Good(d, L)
        BY <1>1, <1>6, <3>1, ShedsGood
      <3> QED
        BY <1>5, <3>1, <3>3, <3>4, <3>5
    <2>2. CASE ~ready
      BY <1>5, <1>6, <2>2
    <2> QED
      BY <2>1, <2>2
  <1> HIDE DEF d
  <1>8. Known \subseteq L
    BY DEF L
  <1>9. /\ client' = Flushed(d) /\ client' \in Client /\ client'.out = <<>>
        /\ toServer' \in Seq(Asked) /\ AsksFor(toServer', L)
        /\ \A K : Good(d, K) => Good(client', K)
        /\ client'.byTopic = d.byTopic
    BY <1>0, <1>4, <1>7, <1>8, Written
  <1>10. Kept(client, client', Known, L)
    BY <1>7, <1>9, KeptFlushed
  <1> QED
    BY <1>1, <1>7, <1>8, <1>9, <1>10, <1>m DEF OwnStep

LEMMA MoreEffect ==
  ASSUME StreamInv, NEW k \in Key, SubscribeMore(k)
  PROVE  /\ OwnStep /\ (Good(client, Known) => Good(client', Known'))
         /\ client'.byTopic = client.byTopic
  <1> DEFINE g == client.groups[k]
             d == [client EXCEPT !.grp[g].subs = client.grp[g].subs + 1]
  <1>0. /\ client \in Client /\ client.out = <<>> /\ g # 0
        /\ Known \in SUBSET Gid /\ Linked(client, Known) /\ TypeOK /\ LinkInv
    BY KnownFacts DEF StreamInv, TypeOK, LinkInv, SubscribeMore
  <1>1. Known' = Known
    BY DEF Known, SubscribeMore
  <1>2. g \in Known /\ client.grp[g].key = k /\ g \in Gid
    BY <1>0 DEF Linked
  <1>3. AsksFor(client.out, Known)
    BY <1>0, AsksNothing
  <1>4. Becomes(d)
    BY <1>0, <1>2 DEF SubscribeMore
  <1>n. client.grp[g].subs + 1 \in Nat
    BY <1>0, <1>2, ClientFields DEF Group
  <1>5. client.groups[client.grp[g].key] = g
    BY <1>2
  <1> HIDE DEF g
  <1>6. Kept(client, d, Known, Known) /\ (Good(client, Known) => Good(d, Known))
    BY <1>0, <1>2, <1>3, <1>5, MoreKept
  <1>b. d.byTopic = client.byTopic
    BY <1>0, <1>2, <1>n, SubsFacts
  <1> HIDE DEF d
  <1>7. d \in Client /\ AsksFor(d.out, Known)
    BY <1>6 DEF Kept
  <1>9. /\ client' = Flushed(d) /\ client' \in Client /\ client'.out = <<>>
        /\ toServer' \in Seq(Asked) /\ AsksFor(toServer', Known)
        /\ \A K : Good(d, K) => Good(client', K)
        /\ client'.byTopic = d.byTopic
    BY <1>0, <1>4, <1>7, Written
  <1>10. Kept(client, client', Known, Known)
    BY <1>6, <1>9, KeptFlushed
  <1> QED
    BY <1>1, <1>6, <1>9, <1>10, <1>b DEF OwnStep

\* Only a stale handle may harm another group.
LEMMA UnsubscribeEffect ==
  ASSUME StreamInv, NEW g \in Gid, Unsubscribe(g)
  PROVE  /\ OwnStep
         /\ ~StaleHandles /\ Good(client, Known) => Good(client', Known')
         /\ \A t \in Topic : client'.byTopic[t] \in {0, client.byTopic[t]}
  <1> DEFINE n == client.grp[g].subs - 1
             d == RemoveHandle(client, g, n, ready)
  <1>0. /\ client \in Client /\ client.out = <<>> /\ ready \in BOOLEAN
        /\ Known \in SUBSET Gid /\ Linked(client, Known) /\ TypeOK /\ LinkInv
    BY KnownFacts DEF StreamInv, TypeOK, LinkInv
  <1>1. Known' = Known /\ Becomes(d)
    BY DEF Known, Unsubscribe
  <1>2. n \in Nat /\ n <= client.grp[g].subs
    <2>1. client.grp[g].subs \in Nat /\ client.grp[g].subs > 0
      BY <1>0, ClientFields DEF Group, Unsubscribe
    <2> QED
      BY <2>1
  <1>3. AsksFor(client.out, Known)
    BY <1>0, AsksNothing
  <1> HIDE DEF n
  <1>4. /\ Sheds(client, d)
        /\ \A K : AsksFor(client.out, K) => AsksFor(d.out, K)
        /\ \A K \in SUBSET Gid :
              Good(client, K) /\ client.groups[client.grp[g].key] \in {0, g} => Good(d, K)
    BY <1>0, <1>2, RemoveHandleFacts
  <1> HIDE DEF d
  <1>5. ~StaleHandles => client.groups[client.grp[g].key] \in {0, g}
    BY DEF Unsubscribe
  <1>6. Kept(client, d, Known, Known)
    BY <1>0, <1>3, <1>4, ShedsKept
  <1>7. d \in Client /\ AsksFor(d.out, Known)
    BY <1>6 DEF Kept
  <1>9. /\ client' = Flushed(d) /\ client' \in Client /\ client'.out = <<>>
        /\ toServer' \in Seq(Asked) /\ AsksFor(toServer', Known)
        /\ \A K : Good(d, K) => Good(client', K)
        /\ client'.byTopic = d.byTopic
    BY <1>0, <1>1, <1>7, Written
  <1>10. Kept(client, client', Known, Known)
    BY <1>6, <1>9, KeptFlushed
  <1>11. \A t \in Topic : client'.byTopic[t] \in {0, client.byTopic[t]}
    BY <1>4, <1>9 DEF Sheds
  <1>12. ~StaleHandles /\ Good(client, Known) => Good(client', Known)
    BY <1>0, <1>4, <1>5, <1>9
  <1> QED
    BY <1>1, <1>9, <1>10, <1>11, <1>12 DEF OwnStep

LEMMA ReadyEffect ==
  ASSUME StreamInv, BecomeReady
  PROVE  /\ OwnStep
         /\ Good(client, Known) /\ (\A t \in Topic : client.byTopic[t] = 0) =>
                Good(client', Known')
  <1>0. /\ client \in Client /\ client.out = <<>>
        /\ Known \in SUBSET Gid /\ Linked(client, Known) /\ TypeOK /\ LinkInv
    BY KnownFacts DEF StreamInv, TypeOK, LinkInv
  <1>1. Known' = Known
    BY DEF Known, BecomeReady
  <1>2. PICK order \in SetToSeqs(Live(client)) : Becomes(Resubscribe(client, order))
    BY DEF BecomeReady
  <1> DEFINE d == Resubscribe(client, order)
  <1>3. /\ Kept(client, d, Known, Known)
        /\ Good(client, Known) /\ (\A t \in Topic : client.byTopic[t] = 0) => Good(d, Known)
    BY <1>0, <1>2, ResubscribeFacts
  <1>4. Becomes(d)
    BY <1>2
  <1> HIDE DEF d
  <1>7. d \in Client /\ AsksFor(d.out, Known)
    BY <1>3 DEF Kept
  <1>9. /\ client' = Flushed(d) /\ client' \in Client /\ client'.out = <<>>
        /\ toServer' \in Seq(Asked) /\ AsksFor(toServer', Known)
        /\ \A K : Good(d, K) => Good(client', K)
    BY <1>0, <1>4, <1>7, Written
  <1>10. Kept(client, client', Known, Known)
    BY <1>3, <1>9, KeptFlushed
  <1> QED
    BY <1>1, <1>3, <1>9, <1>10 DEF OwnStep

LEMMA DownEffect ==
  ASSUME StreamInv, Lose \/ Close
  PROVE  /\ OwnStep /\ Dispatched(client')
         /\ \A t \in Topic : client'.byTopic[t] = 0
         /\ Lose /\ Alive(client, Known) => Alive(client', Known')
  <1> DEFINE current == {client.groups[k] : k \in Key}
             grp == Settled(client.grp, current)
             groups == IF Lose THEN client.groups ELSE [k \in Key |-> 0]
  <1>0. /\ client \in Client /\ client.out = <<>>
        /\ Known \in SUBSET Gid /\ Linked(client, Known) /\ TypeOK /\ LinkInv
    BY KnownFacts DEF StreamInv, TypeOK, LinkInv
  <1>1. Known' = Known /\ toServer' = <<>>
    BY DEF Known, Lose, Close, HubForgets
  <1>2. /\ Quieted(client, Disconnected(client), client.groups, grp)
        /\ Quieted(client, Clear(Disconnected(client)), [k \in Key |-> 0], grp)
    BY <1>0, DisconnectedFacts
  <1> HIDE DEF current
  <1>3. \A k \in Key : groups[k] \in {0, client.groups[k]}
    OBVIOUS
  <1>4. Quieted(client, client', groups, grp)
    <2>1. CASE Lose
      BY <1>2, <2>1 DEF Lose
    <2>2. CASE ~Lose
      BY <1>2, <2>2 DEF Close
    <2> QED
      BY <2>1, <2>2
  <1>5. Lose => groups = client.groups
    OBVIOUS
  <1> HIDE DEF groups
  <1>6. /\ Kept(client, client', Known, Known) /\ Dispatched(client') /\ client'.out = <<>>
        /\ \A t \in Topic : client'.byTopic[t] = 0 /\ client'.early[t] = <<>>
        /\ groups = client.groups /\ Alive(client, Known) => Alive(client', Known)
    BY <1>0, <1>3, <1>4, QuietedKept
  <1>7. toServer' \in Seq(Asked) /\ AsksFor(toServer', Known) /\ client' \in Client
    BY <1>1, <1>6, AsksNothing DEF Kept
  <1> QED
    BY <1>1, <1>5, <1>6, <1>7 DEF OwnStep

\* What was buffered before an ack is not newer than it.
LEMMA EarlyOlder ==
  ASSUME StreamInv, toClient # <<>>, NEW f, f = Head(toClient), f.kind = "ack"
  PROVE  \A i \in DOMAIN client.early[f.topic] : ~Newer(client.early[f.topic][i], f)
  <1>0. /\ client \in Client /\ Known \in SUBSET Gid /\ toClient \in Seq(Sent)
    BY KnownFacts DEF StreamInv, TypeOK
  <1>1. f = toClient[1] /\ 1 \in DOMAIN toClient /\ f \in Sent
    BY <1>0, TailFacts
  <1>2. f.topic \in Topic /\ Numbers(f)
    BY <1>1 DEF Sent, Numbers
  <1>3. ASSUME NEW i \in DOMAIN client.early[f.topic],
               Newer(client.early[f.topic][i], f)
        PROVE  FALSE
    <2> DEFINE e == client.early[f.topic][i]
    <2>1. e \in Places(client, Known, f.topic)
      BY <1>3 DEF Places
    <2> HIDE DEF e
    <2>2. Ahead(toClient, 1, f.topic, e)
      BY <1>2, <2>1 DEF StreamInv, FeedInv, InOrder
    <2>3. Then(e, f)
      BY <1>1, <2>2 DEF Ahead, Telling
    <2>4. Numbers(e)
      BY <1>0, <1>2, <2>1, PlaceNumbers
    <2>5. e.epoch = f.epoch /\ e.seq > f.seq
      BY <1>3 DEF Newer, e
    <2>6. e.pos <= f.pos /\ e.pos + f.seq = f.pos + e.seq
      BY <2>3, <2>5 DEF Then
    <2>7. \A p, q, x, y \in Nat : p <= q /\ x > y => p + y # q + x
      OBVIOUS
    <2> QED
      BY <1>2, <2>4, <2>5, <2>6, <2>7 DEF Numbers
  <1> QED
    BY <1>3

\* The next frame, of any kind, is handled.
LEMMA ReceiveEffect ==
  ASSUME StreamInv, ClientReceives
  PROVE  /\ Handled(client, client', Head(toClient), Known)
         /\ client'.out = <<>> /\ toServer' \in Seq(Asked) /\ AsksFor(toServer', Known)
         /\ toClient # <<>> /\ toClient' = Tail(toClient) /\ ready
         /\ UNCHANGED <<nextGroup, ready, closed, troubles, serverVars>>
  <1> DEFINE f == Head(toClient)
  <1>0. /\ client \in Client /\ client.out = <<>> /\ ready \in BOOLEAN
        /\ Known \in SUBSET Gid /\ Linked(client, Known) /\ TypeOK /\ LinkInv
        /\ toClient \in Seq(Sent)
    BY KnownFacts DEF StreamInv, TypeOK, LinkInv
  <1>1. AsksFor(client.out, Known)
    BY <1>0, AsksNothing
  <1>2. /\ toClient # <<>> /\ toClient' = Tail(toClient) /\ ready
        /\ UNCHANGED <<nextGroup, ready, closed, troubles, serverVars>>
    BY DEF ClientReceives, ReceivePublish, ReceiveAck, ReceiveError, ReceiveReset,
           ReceiveUnsubscribedReset, ReceiveKick, Receive
  <1>3. f = toClient[1] /\ 1 \in DOMAIN toClient /\ f \in Sent
    BY <1>0, <1>2, TailFacts
  <1>4. f.kind \in Telling => f.epoch # 0
    BY <1>3 DEF StreamInv, FeedInv, InOrder
  <1>5. f.kind \in {"ack", "error"} =>
            f.group \in Known /\ TopicOfGroup(client, f.group) = f.topic
    BY <1>0, <1>3 DEF LinkInv, AnswersFor
  <1>6. f.kind = "ack" =>
            \A i \in DOMAIN client.early[f.topic] : ~Newer(client.early[f.topic][i], f)
    BY <1>2, EarlyOlder
  <1>7. \A why : \A leave \in MayLeave(why) : leave \in BOOLEAN
    BY DEF MayLeave
  <1> HIDE DEF f
  <1>8. \E d : Handled(client, d, f, Known) /\ Becomes(d)
    <2>1. CASE ReceivePublish
      <3>1. PICK leave \in MayLeave("message") :
               f.kind = "publish" /\ Becomes(OnPublish(client, f, leave))
        BY <2>1 DEF ReceivePublish, Receive, f
      <3>2. leave \in BOOLEAN /\ f.epoch # 0
        BY <1>4, <1>7, <3>1 DEF Telling
      <3>3. Handled(client, OnPublish(client, f, leave), f, Known)
        BY <1>0, <1>1, <1>3, <3>1, <3>2, OnPublishFacts
      <3> QED
        BY <3>1, <3>3
    <2>2. CASE ReceiveAck
      <3>1. PICK leave \in MayLeave("resubscribe") :
               f.kind = "ack" /\ Becomes(OnAck(client, f, ready, leave))
        BY <2>2 DEF ReceiveAck, Receive, f
      <3>2. leave \in BOOLEAN /\ f.epoch # 0
        BY <1>4, <1>7, <3>1 DEF Telling
      <3>3. Handled(client, OnAck(client, f, ready, leave), f, Known)
        BY <1>0, <1>1, <1>3, <1>5, <1>6, <3>1, <3>2, OnAckFacts
      <3> QED
        BY <3>1, <3>3
    <2>3. CASE ReceiveError
      <3>1. f.kind = "error" /\ Becomes(OnError(client, f))
        BY <2>3 DEF ReceiveError, Receive, f
      <3>2. Handled(client, OnError(client, f), f, Known)
        BY <1>0, <1>1, <1>5, <3>1, OnErrorFacts
      <3> QED
        BY <3>1, <3>2
    <2>4. CASE ReceiveReset
      <3>1. PICK leave \in MayLeave("message") :
               f.kind = "reset" /\ Becomes(OnReset(client, f, leave))
        BY <2>4 DEF ReceiveReset, Receive, f
      <3>2. leave \in BOOLEAN /\ f.epoch # 0
        BY <1>4, <1>7, <3>1 DEF Telling
      <3>3. Handled(client, OnReset(client, f, leave), f, Known)
        BY <1>0, <1>1, <1>3, <3>1, <3>2, OnResetFacts
      <3> QED
        BY <3>1, <3>3
    <2>5. CASE ReceiveUnsubscribedReset
      <3>1. PICK leave \in MayLeave("reset") :
               /\ f.kind = "unsubscribed_reset"
               /\ Becomes(OnUnsubscribedReset(client, f, ready, leave))
        BY <2>5 DEF ReceiveUnsubscribedReset, Receive, f
      <3>2. leave \in BOOLEAN /\ f.epoch # 0
        BY <1>4, <1>7, <3>1 DEF Telling
      <3>3. Handled(client, OnUnsubscribedReset(client, f, ready, leave), f, Known)
        BY <1>0, <1>1, <1>3, <3>1, <3>2, OnUnsubscribedResetFacts
      <3> QED
        BY <3>1, <3>3
    <2>6. CASE ReceiveKick
      <3>1. Becomes(OnKick(client, f))
        BY <2>6 DEF ReceiveKick, Receive, f
      <3>2. Handled(client, OnKick(client, f), f, Known)
        BY <1>0, <1>1, <1>3, OnKickFacts
      <3> QED
        BY <3>1, <3>2
    <2> QED
      BY <2>1, <2>2, <2>3, <2>4, <2>5, <2>6 DEF ClientReceives
  <1>9. PICK d : Handled(client, d, f, Known) /\ Becomes(d)
    BY <1>8
  <1>10. d \in Client /\ AsksFor(d.out, Known)
    BY <1>9 DEF Handled
  <1>11. /\ client' = Flushed(d) /\ client'.out = <<>>
         /\ toServer' \in Seq(Asked) /\ AsksFor(toServer', Known)
    BY <1>0, <1>9, <1>10, Written
  <1>12. Handled(client, client', f, Known)
    BY <1>9, <1>11, HandledFlushed
  <1> QED
    BY <1>2, <1>11, <1>12 DEF f

\* How the streams move, in the variables of the hub.
LEMMA MovesFrom ==
  ASSUME TypeOK, TypeOK', FeedInv, nextEpoch <= nextEpoch',
         \A t \in Topic :
            /\ pos[t] <= pos'[t]
            /\ Held(t)' =>
                 \/ nextEpoch <= cursor'[t].epoch /\ cursor'[t].epoch < nextEpoch'
                 \/ /\ Held(t) /\ cursor'[t].epoch = cursor[t].epoch
                    /\ cursor'[t].seq + pos[t] = cursor[t].seq + pos'[t]
  PROVE  /\ Moves(Streams, Streams')
         /\ \A t \in Streams'.held : Streams'.cursor[t].epoch \in 1 .. Streams'.next - 1
  <1> DEFINE h == Streams
             i == Streams'
  <1>1. /\ h \in Hubs /\ h.next = nextEpoch /\ h.pos = pos
        /\ h.held = {t \in Topic : Held(t)} /\ h.cursor = cursor
    BY StreamsFacts
  <1>2. /\ i \in Hubs /\ i.next = nextEpoch' /\ i.pos = pos'
        /\ i.held = {t \in Topic : Held(t)'} /\ i.cursor = cursor'
    BY StreamsFactsPrimed
  <1>3. \A t \in h.held : h.cursor[t].epoch \in 1 .. h.next - 1
    BY DEF FeedInv, InOrder
  <1>4. nextEpoch \in Nat \ {0} /\ nextEpoch' \in Nat \ {0}
    BY DEF TypeOK
  <1> HIDE DEF h, i
  <1>5. Moves(h, i)
    BY <1>1, <1>2 DEF Moves
  <1>6. ASSUME NEW t \in i.held PROVE i.cursor[t].epoch \in 1 .. i.next - 1
    <2>1. t \in Topic /\ i.cursor[t].epoch \in Nat
      BY <1>2, <1>6, HubFields
    <2>2. CASE h.next <= i.cursor[t].epoch /\ i.cursor[t].epoch < i.next
      BY <1>1, <1>2, <1>4, <2>1, <2>2
    <2>3. CASE t \in h.held /\ i.cursor[t].epoch = h.cursor[t].epoch
      <3>1. h.cursor[t].epoch \in 1 .. h.next - 1 /\ h.next <= i.next
        BY <1>3, <1>5, <2>3 DEF Moves
      <3> QED
        BY <1>1, <1>2, <1>4, <2>1, <2>3, <3>1
    <2> QED
      BY <1>5, <1>6, <2>1, <2>2, <2>3 DEF Moves
  <1> QED
    BY <1>5, <1>6 DEF h, i

LEMMA RemainingFacts ==
  ASSUME NEW c \in [Topic -> [epoch : Nat, seq : Nat]], NEW m, NEW o
  PROVE  /\ Remaining(c, m, o) \in [Topic -> [epoch : Nat, seq : Nat]]
         /\ \A t \in Topic : m[t] # "no" \/ t \in o => Remaining(c, m, o)[t] = c[t]
  <1>1. NoTopic \in [epoch : Nat, seq : Nat]
    BY DEF NoTopic
  <1> QED
    BY <1>1 DEF Remaining

\* Topics are let go of, and nothing is published.
LEMMA LetGo ==
  ASSUME TypeOK, TypeOK', FeedInv, nextEpoch' = nextEpoch, pos' = pos,
         \A t \in Topic : Held(t)' => Held(t) /\ cursor'[t] = cursor[t]
  PROVE  /\ Moves(Streams, Streams')
         /\ \A t \in Streams'.held : Streams'.cursor[t].epoch \in 1 .. Streams'.next - 1
  <1>1. nextEpoch \in Nat /\ nextEpoch <= nextEpoch'
    BY DEF TypeOK
  <1>2. \A t \in Topic : pos[t] \in Nat /\ cursor[t].seq \in Nat
    BY DEF TypeOK
  <1>3. \A t \in Topic :
            /\ pos[t] <= pos'[t]
            /\ Held(t)' =>
                 \/ nextEpoch <= cursor'[t].epoch /\ cursor'[t].epoch < nextEpoch'
                 \/ /\ Held(t) /\ cursor'[t].epoch = cursor[t].epoch
                    /\ cursor'[t].seq + pos[t] = cursor[t].seq + pos'[t]
    BY <1>2
  <1> QED
    BY <1>1, <1>3, MovesFrom

\* A topic is held from now on.
LEMMA HoldFacts ==
  ASSUME TypeOK, NEW t \in Topic, Hold(t)
  PROVE  /\ CursorFor(t) \in [epoch : Nat, seq : Nat]
         /\ cursor' \in [Topic -> [epoch : Nat, seq : Nat]] /\ cursor'[t] = CursorFor(t)
         /\ nextEpoch' \in Nat \ {0}
         /\ \A u \in Topic : u # t => cursor'[u] = cursor[u]
  <1>1. nextEpoch \in Nat \ {0} /\ cursor \in [Topic -> [epoch : Nat, seq : Nat]]
    BY DEF TypeOK
  <1>2. CursorFor(t) \in [epoch : Nat, seq : Nat]
    BY <1>1 DEF CursorFor
  <1>3. nextEpoch' \in Nat \ {0}
    BY <1>1 DEF Hold
  <1> HIDE DEF CursorFor
  <1> QED
    BY <1>1, <1>2, <1>3 DEF Hold

LEMMA Holds ==
  ASSUME TypeOK, TypeOK', FeedInv, NEW t \in Topic, Hold(t), pos' = pos,
         \A u \in Topic : u # t => (Held(u)' => Held(u))
  PROVE  /\ Moves(Streams, Streams')
         /\ \A u \in Streams'.held : Streams'.cursor[u].epoch \in 1 .. Streams'.next - 1
  <1>1. nextEpoch \in Nat /\ nextEpoch' \in Nat
        /\ nextEpoch' = IF Held(t) THEN nextEpoch ELSE nextEpoch + 1
    BY DEF TypeOK, Hold
  <1>2. \A u \in Topic : pos[u] \in Nat /\ cursor[u].seq \in Nat
    BY DEF TypeOK
  <1>3. cursor'[t] = CursorFor(t) /\ \A u \in Topic : u # t => cursor'[u] = cursor[u]
    BY HoldFacts
  <1>4. nextEpoch <= nextEpoch'
    BY <1>1
  <1>5. ASSUME NEW u \in Topic, Held(u)'
        PROVE  \/ nextEpoch <= cursor'[u].epoch /\ cursor'[u].epoch < nextEpoch'
               \/ /\ Held(u) /\ cursor'[u].epoch = cursor[u].epoch
                  /\ cursor'[u].seq + pos[u] = cursor[u].seq + pos'[u]
    <2>1. CASE u # t
      <3>1. Held(u) /\ cursor'[u] = cursor[u]
        BY <1>3, <1>5, <2>1
      <3> QED
        BY <1>2, <3>1
    <2>2. CASE u = t /\ Held(t)
      <3>1. cursor'[u] = cursor[u]
        BY <1>3, <2>2 DEF CursorFor
      <3> QED
        BY <1>2, <2>2, <3>1
    <2>3. CASE u = t /\ ~Held(t)
      <3>1. cursor'[t].epoch = nextEpoch
        BY <1>3, <2>3 DEF CursorFor
      <3> QED
        BY <1>1, <2>3, <3>1
    <2> QED
      BY <2>1, <2>2, <2>3
  <1>6. \A u \in Topic : pos[u] <= pos'[u]
    BY <1>2
  <1> QED
    BY <1>4, <1>5, <1>6, MovesFrom

\* A step of the hub that queues one frame, or none.
LEMMA HubAppends ==
  ASSUME StreamInv, TypeOK', client' = client, nextGroup' = nextGroup,
         AsksFor(toServer', Known), tasks' \subseteq Known,
         NEW x \in Sent, toClient' = Append(toClient, x),
         x.kind \in {"ack", "error"} =>
            x.group \in Known /\ x.topic = TopicOfGroup(client, x.group),
         Moves(Streams, Streams'),
         \A t \in Streams'.held : Streams'.cursor[t].epoch \in 1 .. Streams'.next - 1,
         Fresh(x, Streams, Streams')
  PROVE  StreamInv'
  <1> DEFINE n == <<x>>
  <1>1. n \in Seq(Sent) /\ DOMAIN n = {1} /\ n[1] = x
    OBVIOUS
  <1>2. toClient' = toClient \o n
    BY DEF StreamInv, TypeOK
  <1> HIDE DEF n
  <1>3. AnswersFor(n, client, Known)
    BY <1>1 DEF AnswersFor
  <1>4. \A j \in DOMAIN n : Fresh(n[j], Streams, Streams')
    BY <1>1
  <1>5. \A j, l \in DOMAIN n : j # l => n[j].topic # n[l].topic
    BY <1>1
  <1> QED
    BY <1>1, <1>2, <1>3, <1>4, <1>5, HubStep

LEMMA HubQuiet ==
  ASSUME StreamInv, TypeOK', client' = client, nextGroup' = nextGroup,
         AsksFor(toServer', Known), tasks' \subseteq Known, toClient' = toClient,
         Moves(Streams, Streams'),
         \A t \in Streams'.held : Streams'.cursor[t].epoch \in 1 .. Streams'.next - 1
  PROVE  StreamInv'
  <1> DEFINE n == <<>>
  <1>1. n \in Seq(Sent) /\ DOMAIN n = {}
    OBVIOUS
  <1>2. toClient' = toClient \o n
    BY DEF StreamInv, TypeOK
  <1> HIDE DEF n
  <1>3. AnswersFor(n, client, Known)
    BY <1>1 DEF AnswersFor
  <1>4. \A j \in DOMAIN n : Fresh(n[j], Streams, Streams')
    BY <1>1
  <1>5. \A j, l \in DOMAIN n : j # l => n[j].topic # n[l].topic
    BY <1>1
  <1> QED
    BY <1>1, <1>2, <1>3, <1>4, <1>5, HubStep

LEMMA AsksTail ==
  ASSUME NEW s \in Seq(Asked), s # <<>>, NEW K, AsksFor(s, K)
  PROVE  /\ Tail(s) \in Seq(Asked) /\ AsksFor(Tail(s), K) /\ Head(s) \in Asked
         /\ Head(s).kind = "subscribe" => Head(s).group \in K
  <1>1. /\ Tail(s) \in Seq(Asked) /\ Len(Tail(s)) = Len(s) - 1 /\ Len(s) \in Nat
        /\ Len(s) >= 1 /\ Head(s) = s[1] /\ DOMAIN s = 1 .. Len(s)
    OBVIOUS
  <1>2. DOMAIN Tail(s) = 1 .. Len(s) - 1 /\ 1 \in DOMAIN s /\ s[1] \in Asked
    BY <1>1
  <1>3. ASSUME NEW j \in DOMAIN Tail(s) PROVE j + 1 \in DOMAIN s /\ Tail(s)[j] = s[j + 1]
    BY <1>1, <1>2
  <1> QED
    BY <1>1, <1>2, <1>3 DEF AsksFor

LEMMA StepServerReads ==
  ASSUME StreamInv, ServerReads
  PROVE  StreamInv'
  <1> DEFINE f == Head(toServer)
  <1>0. TypeOK /\ LinkInv /\ FeedInv /\ Known \in SUBSET Gid
    BY KnownFacts DEF StreamInv
  <1>1. /\ toServer \in Seq(Asked) /\ toServer # <<>> /\ toServer' = Tail(toServer)
        /\ AsksFor(toServer, Known)
        /\ UNCHANGED <<toClient, others, pos, nextEpoch, troubles, clientVars>>
    BY <1>0 DEF ServerReads, TypeOK, LinkInv
  <1>2. /\ toServer' \in Seq(Asked) /\ AsksFor(toServer', Known)
        /\ f \in Asked /\ (f.kind = "subscribe" => f.group \in Known)
    BY <1>1, AsksTail
  <1>3. f.topic \in Topic
    BY <1>2 DEF Asked
  <1>4. /\ tasks' \in SUBSET Gid /\ tasks' \subseteq Known
        /\ member' \in [Topic -> {"no", "explicit", "auto"}]
        /\ cursor' \in [Topic -> [epoch : Nat, seq : Nat]]
        /\ \A t \in Topic : Held(t)' => Held(t) /\ cursor'[t] = cursor[t]
    <2>1. CASE /\ f.kind = "subscribe" /\ tasks' = tasks \union {f.group}
               /\ UNCHANGED <<member, cursor>>
      BY <1>0, <1>1, <1>2, <2>1 DEF TypeOK, LinkInv, Held
    <2>2. CASE /\ member' = [member EXCEPT ![f.topic] = "no"]
               /\ cursor' = Remaining(cursor, member', others) /\ UNCHANGED tasks
      <3>1. /\ cursor' \in [Topic -> [epoch : Nat, seq : Nat]]
            /\ \A t \in Topic : member'[t] # "no" \/ t \in others => cursor'[t] = cursor[t]
        <4>1. cursor \in [Topic -> [epoch : Nat, seq : Nat]]
          BY <1>0 DEF TypeOK
        <4>2. cursor' = Remaining(cursor, member', others)
          BY <2>2
        <4> QED
          BY ONLY <4>1, <4>2, RemainingFacts
      <3>2. /\ member' \in [Topic -> {"no", "explicit", "auto"}]
            /\ \A t \in Topic : member'[t] # "no" => member[t] # "no"
        BY <1>0, <1>3, <2>2 DEF TypeOK
      <3> QED
        BY <1>0, <1>1, <2>2, <3>1, <3>2 DEF TypeOK, LinkInv, Held
    <2> QED
      BY <2>1, <2>2 DEF ServerReads
  <1>5. TypeOK'
    BY <1>0, <1>1, <1>2, <1>4 DEF TypeOK, clientVars
  <1>6. /\ Moves(Streams, Streams')
        /\ \A t \in Streams'.held : Streams'.cursor[t].epoch \in 1 .. Streams'.next - 1
    BY <1>0, <1>1, <1>4, <1>5, LetGo
  <1> QED
    BY <1>1, <1>2, <1>4, <1>5, <1>6, HubQuiet DEF clientVars

LEMMA FrameFacts ==
  ASSUME NEW kind \in {"publish", "ack", "error", "reset", "unsubscribed_reset",
                       "unsubscribed_kicked"},
         NEW t \in Topic, NEW g \in Nat, NEW cur \in [epoch : Nat, seq : Nat], NEW p \in Nat
  PROVE  LET x == Frame(kind, t, g, cur, p)
         IN  /\ x \in Sent /\ x.kind = kind /\ x.topic = t /\ x.group = g
             /\ x.epoch = cur.epoch /\ x.seq = cur.seq /\ x.pos = p
  BY DEF Frame, Sent

LEMMA StepGrant ==
  ASSUME StreamInv, NEW g \in Gid, Grant(g)
  PROVE  StreamInv'
  <1> DEFINE t == TopicOfGroup(client, g)
             x == Frame("ack", t, g, CursorFor(t), pos[t])
  <1>0. TypeOK /\ LinkInv /\ FeedInv /\ Known \in SUBSET Gid /\ g \in Nat
    BY KnownFacts, Constants DEF StreamInv, Gid
  <1>1. /\ g \in tasks /\ g \in Known /\ t \in Topic /\ pos[t] \in Nat
    BY <1>0, ClientFields DEF Grant, LinkInv, TypeOK
  <1>2. /\ Hold(t) /\ tasks' = tasks \ {g} /\ toClient' = Append(toClient, x)
        /\ member' = [member EXCEPT ![t] = IF @ = "no" THEN "explicit" ELSE @]
        /\ UNCHANGED <<toServer, others, pos, troubles, clientVars>>
    BY DEF Grant
  <1> HIDE DEF t
  <1>3. /\ CursorFor(t) \in [epoch : Nat, seq : Nat]
        /\ cursor' \in [Topic -> [epoch : Nat, seq : Nat]] /\ cursor'[t] = CursorFor(t)
        /\ nextEpoch' \in Nat \ {0}
    BY <1>0, <1>1, <1>2, HoldFacts
  <1>4. /\ x \in Sent /\ x.kind = "ack" /\ x.topic = t /\ x.group = g
        /\ x.epoch = cursor'[t].epoch /\ x.seq = cursor'[t].seq /\ x.pos = pos[t]
    BY <1>0, <1>1, <1>3, FrameFacts
  <1> HIDE DEF x
  <1>5. /\ member' \in [Topic -> {"no", "explicit", "auto"}] /\ member'[t] # "no"
        /\ \A u \in Topic : u # t => member'[u] = member[u]
    BY <1>0, <1>1, <1>2 DEF TypeOK
  <1>6. toClient' \in Seq(Sent) /\ tasks' \in SUBSET Gid /\ tasks' \subseteq Known
    BY <1>0, <1>2, <1>4 DEF TypeOK, LinkInv
  <1>7. TypeOK'
    BY <1>0, <1>2, <1>3, <1>5, <1>6 DEF TypeOK, clientVars
  <1>8. \A u \in Topic : u # t => (Held(u)' => Held(u))
    BY <1>2, <1>5 DEF Held
  <1>9. /\ Moves(Streams, Streams')
        /\ \A u \in Streams'.held : Streams'.cursor[u].epoch \in 1 .. Streams'.next - 1
    BY <1>0, <1>1, <1>2, <1>7, <1>8, Holds
  <1>10. Fresh(x, Streams, Streams')
    <2>1. /\ Streams \in Hubs /\ Streams' \in Hubs /\ Streams'.pos = pos'
          /\ Streams'.held = {u \in Topic : Held(u)'} /\ Streams'.cursor = cursor'
      BY <1>0, <1>7, StreamsFacts, StreamsFactsPrimed
    <2>2. t \in Streams'.held
      BY <1>1, <1>5, <2>1 DEF Held
    <2>3. /\ x.epoch = Streams'.cursor[t].epoch /\ x.seq = Streams'.cursor[t].seq
          /\ x.pos = Streams'.pos[t]
      BY <1>2, <1>4, <2>1
    <2>4. x.epoch \in 1 .. Streams'.next - 1
      BY <1>9, <2>2, <2>3
    <2>5. x.topic = t /\ x.kind # "unsubscribed_reset"
      BY <1>4
    <2> QED
      BY <1>4, <1>9, <2>1, <2>2, <2>3, <2>4, <2>5, SpotFresh
  <1>11. x.group \in Known /\ x.topic = TopicOfGroup(client, x.group)
    BY <1>1, <1>4 DEF t
  <1>12. AsksFor(toServer', Known) /\ client' = client /\ nextGroup' = nextGroup
    BY <1>0, <1>2 DEF LinkInv, clientVars
  <1> QED
    BY <1>2, <1>4, <1>6, <1>7, <1>9, <1>10, <1>11, <1>12, HubAppends

LEMMA StepDeny ==
  ASSUME StreamInv, NEW g \in Gid, Deny(g)
  PROVE  StreamInv'
  <1> DEFINE t == TopicOfGroup(client, g)
             none == [epoch |-> 0, seq |-> 0]
             x == Frame("error", t, g, none, 0)
  <1>0. TypeOK /\ LinkInv /\ FeedInv /\ Known \in SUBSET Gid /\ g \in Nat
    BY KnownFacts, Constants DEF StreamInv, Gid
  <1>1. /\ g \in tasks /\ g \in Known /\ t \in Topic
    BY <1>0, ClientFields DEF Deny, LinkInv, TypeOK
  <1>2. /\ tasks' = tasks \ {g} /\ toClient' = Append(toClient, x)
        /\ troubles' = troubles + 1
        /\ UNCHANGED <<toServer, member, others, cursor, pos, nextEpoch, clientVars>>
    BY DEF Deny, Trouble
  <1> HIDE DEF t
  <1>3. none \in [epoch : Nat, seq : Nat]
    OBVIOUS
  <1> HIDE DEF none
  <1>4. x \in Sent /\ x.kind = "error" /\ x.topic = t /\ x.group = g
    BY <1>0, <1>1, <1>3, FrameFacts
  <1> HIDE DEF x
  <1>6. toClient' \in Seq(Sent) /\ tasks' \in SUBSET Gid /\ tasks' \subseteq Known
    BY <1>0, <1>2, <1>4 DEF TypeOK, LinkInv
  <1>7. TypeOK'
    BY <1>0, <1>2, <1>6 DEF TypeOK, clientVars
  <1>8. \A u \in Topic : Held(u)' => Held(u) /\ cursor'[u] = cursor[u]
    BY <1>2 DEF Held
  <1>9. /\ Moves(Streams, Streams')
        /\ \A u \in Streams'.held : Streams'.cursor[u].epoch \in 1 .. Streams'.next - 1
    BY <1>0, <1>2, <1>7, <1>8, LetGo
  <1>10. Fresh(x, Streams, Streams')
    BY <1>4 DEF Fresh, Telling
  <1>11. x.group \in Known /\ x.topic = TopicOfGroup(client, x.group)
    BY <1>1, <1>4 DEF t
  <1>12. AsksFor(toServer', Known) /\ client' = client /\ nextGroup' = nextGroup
    BY <1>0, <1>2 DEF LinkInv, clientVars
  <1> QED
    BY <1>2, <1>4, <1>6, <1>7, <1>9, <1>10, <1>11, <1>12, HubAppends

LEMMA StepServerSubscribe ==
  ASSUME StreamInv, NEW t \in Topic, ServerSubscribe(t)
  PROVE  StreamInv'
  <1>0. TypeOK /\ LinkInv /\ FeedInv
    BY DEF StreamInv
  <1>2. /\ Hold(t) /\ member' = [member EXCEPT ![t] = "auto"]
        /\ UNCHANGED <<toServer, toClient, tasks, others, pos, troubles, clientVars>>
    BY DEF ServerSubscribe
  <1>3. /\ cursor' \in [Topic -> [epoch : Nat, seq : Nat]] /\ nextEpoch' \in Nat \ {0}
    BY <1>0, <1>2, HoldFacts
  <1>5. /\ member' \in [Topic -> {"no", "explicit", "auto"}]
        /\ \A u \in Topic : u # t => member'[u] = member[u]
    BY <1>0, <1>2 DEF TypeOK
  <1>7. TypeOK'
    BY <1>0, <1>2, <1>3, <1>5 DEF TypeOK, clientVars
  <1>8. \A u \in Topic : u # t => (Held(u)' => Held(u))
    BY <1>2, <1>5 DEF Held
  <1>9. /\ Moves(Streams, Streams')
        /\ \A u \in Streams'.held : Streams'.cursor[u].epoch \in 1 .. Streams'.next - 1
    BY <1>0, <1>2, <1>7, <1>8, Holds
  <1>12. /\ AsksFor(toServer', Known) /\ client' = client /\ nextGroup' = nextGroup
         /\ tasks' \subseteq Known
    BY <1>0, <1>2 DEF LinkInv, clientVars
  <1> QED
    BY <1>2, <1>7, <1>9, <1>12, HubQuiet

LEMMA StepOthersJoin ==
  ASSUME StreamInv, NEW t \in Topic, OthersJoin(t)
  PROVE  StreamInv'
  <1>0. TypeOK /\ LinkInv /\ FeedInv
    BY DEF StreamInv
  <1>2. /\ Hold(t) /\ others' = others \union {t}
        /\ UNCHANGED <<toServer, toClient, tasks, member, pos, troubles, clientVars>>
    BY DEF OthersJoin
  <1>3. /\ cursor' \in [Topic -> [epoch : Nat, seq : Nat]] /\ nextEpoch' \in Nat \ {0}
    BY <1>0, <1>2, HoldFacts
  <1>7. TypeOK'
    BY <1>0, <1>2, <1>3 DEF TypeOK, clientVars
  <1>8. \A u \in Topic : u # t => (Held(u)' => Held(u))
    BY <1>2 DEF Held
  <1>9. /\ Moves(Streams, Streams')
        /\ \A u \in Streams'.held : Streams'.cursor[u].epoch \in 1 .. Streams'.next - 1
    BY <1>0, <1>2, <1>7, <1>8, Holds
  <1>12. /\ AsksFor(toServer', Known) /\ client' = client /\ nextGroup' = nextGroup
         /\ tasks' \subseteq Known
    BY <1>0, <1>2 DEF LinkInv, clientVars
  <1> QED
    BY <1>2, <1>7, <1>9, <1>12, HubQuiet

LEMMA StepOthersLeave ==
  ASSUME StreamInv, NEW t \in Topic, OthersLeave(t)
  PROVE  StreamInv'
  <1>0. TypeOK /\ LinkInv /\ FeedInv
    BY DEF StreamInv
  <1>2. /\ others' = others \ {t} /\ cursor' = Remaining(cursor, member, others')
        /\ UNCHANGED <<toServer, toClient, tasks, member, pos, nextEpoch, troubles, clientVars>>
    BY DEF OthersLeave
  <1>3. /\ cursor' \in [Topic -> [epoch : Nat, seq : Nat]]
        /\ \A u \in Topic : member[u] # "no" \/ u \in others' => cursor'[u] = cursor[u]
    <2>1. cursor \in [Topic -> [epoch : Nat, seq : Nat]]
      BY <1>0 DEF TypeOK
    <2>2. cursor' = Remaining(cursor, member, others')
      BY <1>2
    <2> QED
      BY ONLY <2>1, <2>2, RemainingFacts
  <1>7. TypeOK'
    BY <1>0, <1>2, <1>3 DEF TypeOK, clientVars
  <1>8. \A u \in Topic : Held(u)' => Held(u) /\ cursor'[u] = cursor[u]
    BY <1>2, <1>3 DEF Held
  <1>9. /\ Moves(Streams, Streams')
        /\ \A u \in Streams'.held : Streams'.cursor[u].epoch \in 1 .. Streams'.next - 1
    BY <1>0, <1>2, <1>7, <1>8, LetGo
  <1>12. /\ AsksFor(toServer', Known) /\ client' = client /\ nextGroup' = nextGroup
         /\ tasks' \subseteq Known
    BY <1>0, <1>2 DEF LinkInv, clientVars
  <1> QED
    BY <1>2, <1>7, <1>9, <1>12, HubQuiet

LEMMA StepKick ==
  ASSUME StreamInv, NEW t \in Topic, Kick(t)
  PROVE  StreamInv'
  <1> DEFINE x == Frame("unsubscribed_kicked", t, 0, cursor[t], pos[t])
  <1>0. TypeOK /\ LinkInv /\ FeedInv
    BY DEF StreamInv
  <1>1. cursor[t] \in [epoch : Nat, seq : Nat] /\ pos[t] \in Nat /\ 0 \in Nat
    BY <1>0 DEF TypeOK
  <1>2. /\ member' = [member EXCEPT ![t] = "no"] /\ toClient' = Append(toClient, x)
        /\ cursor' = Remaining(cursor, member', others) /\ troubles' = troubles + 1
        /\ UNCHANGED <<toServer, tasks, others, pos, nextEpoch, clientVars>>
    BY DEF Kick, Trouble
  <1>3. /\ cursor' \in [Topic -> [epoch : Nat, seq : Nat]]
        /\ \A u \in Topic : member'[u] # "no" \/ u \in others => cursor'[u] = cursor[u]
    <2>1. cursor \in [Topic -> [epoch : Nat, seq : Nat]]
      BY <1>0 DEF TypeOK
    <2>2. cursor' = Remaining(cursor, member', others)
      BY <1>2
    <2> QED
      BY ONLY <2>1, <2>2, RemainingFacts
  <1>4. x \in Sent /\ x.kind = "unsubscribed_kicked"
    BY <1>1, FrameFacts
  <1> HIDE DEF x
  <1>5. /\ member' \in [Topic -> {"no", "explicit", "auto"}]
        /\ \A u \in Topic : member'[u] # "no" => member[u] # "no"
    BY <1>0, <1>2 DEF TypeOK
  <1>6. toClient' \in Seq(Sent)
    BY <1>0, <1>2, <1>4 DEF TypeOK
  <1>7. TypeOK'
    <2>1. troubles' \in Nat
      BY <1>0, <1>2 DEF TypeOK
    <2>2. UNCHANGED <<toServer, tasks, others, pos, nextEpoch, clientVars>>
      BY <1>2
    <2>3. /\ cursor' \in [Topic -> [epoch : Nat, seq : Nat]]
          /\ member' \in [Topic -> {"no", "explicit", "auto"}]
      BY <1>3, <1>5
    <2> QED
      BY <1>0, <1>6, <2>1, <2>2, <2>3 DEF TypeOK, clientVars
  <1>8. \A u \in Topic : Held(u)' => Held(u) /\ cursor'[u] = cursor[u]
    BY <1>2, <1>3, <1>5 DEF Held
  <1>9. /\ Moves(Streams, Streams')
        /\ \A u \in Streams'.held : Streams'.cursor[u].epoch \in 1 .. Streams'.next - 1
    BY <1>0, <1>2, <1>7, <1>8, LetGo
  <1>10. Fresh(x, Streams, Streams') /\ x.kind \notin {"ack", "error"}
    BY <1>4 DEF Fresh, Telling
  <1>12. /\ AsksFor(toServer', Known) /\ client' = client /\ nextGroup' = nextGroup
         /\ tasks' \subseteq Known
    BY <1>0, <1>2 DEF LinkInv, clientVars
  <1> QED
    BY <1>2, <1>4, <1>7, <1>9, <1>10, <1>12, HubAppends

LEMMA StepPublish ==
  ASSUME StreamInv, NEW t \in Topic, Publish(t)
  PROVE  StreamInv'
  <1> DEFINE next == [cursor[t] EXCEPT !.seq = @ + 1]
             x == Frame("publish", t, 0, next, pos[t] + 1)
  <1>0. TypeOK /\ LinkInv /\ FeedInv
    BY DEF StreamInv
  <1>1. /\ cursor \in [Topic -> [epoch : Nat, seq : Nat]] /\ pos \in [Topic -> Nat]
        /\ cursor[t] \in [epoch : Nat, seq : Nat] /\ pos[t] \in Nat /\ 0 \in Nat
    BY <1>0 DEF TypeOK
  <1>2. /\ pos' = [pos EXCEPT ![t] = @ + 1]
        /\ cursor' = IF Held(t) THEN [cursor EXCEPT ![t] = next] ELSE cursor
        /\ toClient' = IF member[t] = "no" THEN toClient ELSE Append(toClient, x)
        /\ UNCHANGED <<toServer, tasks, member, others, nextEpoch, troubles, clientVars>>
    BY DEF Publish
  <1>3. /\ next \in [epoch : Nat, seq : Nat] /\ next.epoch = cursor[t].epoch
        /\ next.seq = cursor[t].seq + 1 /\ cursor[t].seq \in Nat /\ pos[t] + 1 \in Nat
    BY <1>1
  <1> HIDE DEF next
  <1>4. /\ x \in Sent /\ x.kind = "publish" /\ x.topic = t
        /\ x.epoch = next.epoch /\ x.seq = next.seq /\ x.pos = pos[t] + 1
    BY <1>1, <1>3 DEF Frame, Sent
  <1> HIDE DEF x
  <1>5. /\ pos' \in [Topic -> Nat] /\ pos'[t] = pos[t] + 1
        /\ \A u \in Topic : u # t => pos'[u] = pos[u]
    BY <1>1, <1>2
  <1>6. /\ cursor' \in [Topic -> [epoch : Nat, seq : Nat]]
        /\ (Held(t) => cursor'[t] = next)
        /\ \A u \in Topic : u # t => cursor'[u] = cursor[u]
    BY <1>1, <1>2, <1>3
  <1>7. TypeOK'
    <2>1. toClient' \in Seq(Sent)
      BY <1>0, <1>2, <1>4 DEF TypeOK
    <2> QED
      BY <1>0, <1>2, <1>5, <1>6, <2>1 DEF TypeOK, clientVars
  <1>8. ASSUME NEW u \in Topic
        PROVE  /\ pos[u] <= pos'[u]
               /\ Held(u)' =>
                    /\ Held(u) /\ cursor'[u].epoch = cursor[u].epoch
                    /\ cursor'[u].seq + pos[u] = cursor[u].seq + pos'[u]
    <2>1. Held(u)' => Held(u)
      BY <1>2 DEF Held
    <2>2. pos[u] \in Nat /\ cursor[u].seq \in Nat
      BY <1>1
    <2>3. CASE u = t
      <3>1. pos'[u] = pos[u] + 1 /\ (Held(u) => cursor'[u] = next)
        BY <1>5, <1>6, <2>3
      <3>2. next.epoch = cursor[u].epoch /\ next.seq = cursor[u].seq + 1
        BY <1>3, <2>3
      <3>3. pos[u] <= pos[u] + 1 /\ (cursor[u].seq + 1) + pos[u] = cursor[u].seq + (pos[u] + 1)
        BY <2>2
      <3> QED
        BY <2>1, <3>1, <3>2, <3>3
    <2>4. CASE u # t
      BY <1>5, <1>6, <2>1, <2>2, <2>4
    <2> QED
      BY <2>3, <2>4
  <1>9. /\ Moves(Streams, Streams')
        /\ \A u \in Streams'.held : Streams'.cursor[u].epoch \in 1 .. Streams'.next - 1
    <2>1. nextEpoch <= nextEpoch'
      BY <1>0, <1>2 DEF TypeOK
    <2> QED
      BY <1>0, <1>7, <1>8, <2>1, MovesFrom
  <1>12. /\ AsksFor(toServer', Known) /\ client' = client /\ nextGroup' = nextGroup
         /\ tasks' \subseteq Known
    BY <1>0, <1>2 DEF LinkInv, clientVars
  <1>13. CASE member[t] = "no"
    BY <1>2, <1>7, <1>9, <1>12, <1>13, HubQuiet
  <1>14. CASE member[t] # "no"
    <2>0. Held(t) /\ Held(t)'
      BY <1>2, <1>14 DEF Held
    <2>1. /\ Streams \in Hubs /\ Streams' \in Hubs /\ Streams'.pos = pos'
          /\ Streams'.held = {u \in Topic : Held(u)'} /\ Streams'.cursor = cursor'
      BY <1>0, <1>7, StreamsFacts, StreamsFactsPrimed
    <2>2. t \in Streams'.held
      BY <2>0, <2>1
    <2>3. /\ x.epoch = Streams'.cursor[t].epoch /\ x.seq = Streams'.cursor[t].seq
          /\ x.pos = Streams'.pos[t]
      BY <1>4, <1>5, <1>6, <2>0, <2>1
    <2>4. x.epoch \in 1 .. Streams'.next - 1
      BY <1>9, <2>2, <2>3
    <2>5. x.topic = t /\ x.kind # "unsubscribed_reset" /\ x.kind \notin {"ack", "error"}
      BY <1>4
    <2>6. Fresh(x, Streams, Streams')
      BY <1>4, <1>9, <2>1, <2>2, <2>3, <2>4, <2>5, SpotFresh
    <2> QED
      BY <1>2, <1>4, <1>7, <1>9, <1>12, <1>14, <2>5, <2>6, HubAppends
  <1> QED
    BY <1>13, <1>14

LEMMA StepBrokerReset ==
  ASSUME StreamInv, NEW missed \in SUBSET Topic, BrokerReset(missed)
  PROVE  StreamInv'
  <1> DEFINE fresh == [epoch |-> nextEpoch, seq |-> 0]
             heldBefore == {t \in Topic : member[t] # "no"}
             kindOf(t) == IF member[t] = "explicit" THEN "unsubscribed_reset" ELSE "reset"
             frameOf(t) == Frame(kindOf(t), t, 0, fresh, pos'[t])
             all == [t \in Topic |-> fresh]
  <1>0. TypeOK /\ LinkInv /\ FeedInv
    BY DEF StreamInv
  <1>1. /\ nextEpoch \in Nat \ {0} /\ pos \in [Topic -> Nat] /\ troubles \in Nat
        /\ member \in [Topic -> {"no", "explicit", "auto"}] /\ toClient \in Seq(Sent)
    BY <1>0 DEF TypeOK
  <1>2. /\ nextEpoch' = nextEpoch + 1 /\ troubles' = troubles + 1
        /\ pos' = [t \in Topic |-> IF t \in missed THEN pos[t] + 1 ELSE pos[t]]
        /\ member' = [t \in Topic |-> IF member[t] = "explicit" THEN "no" ELSE member[t]]
        /\ cursor' = Remaining(all, member', others)
        /\ UNCHANGED <<toServer, tasks, others, clientVars>>
    BY DEF BrokerReset, Trouble
  <1>3. PICK order \in SetToSeqs(heldBefore) :
           toClient' = toClient \o [i \in DOMAIN order |-> frameOf(order[i])]
    BY DEF BrokerReset
  <1> DEFINE n == [i \in DOMAIN order |-> frameOf(order[i])]
  <1>4. /\ fresh \in [epoch : Nat, seq : Nat] /\ fresh.epoch = nextEpoch /\ fresh.seq = 0
        /\ all \in [Topic -> [epoch : Nat, seq : Nat]]
    BY <1>1
  <1>5. /\ pos' \in [Topic -> Nat] /\ \A t \in Topic : pos[t] <= pos'[t]
    BY <1>1, <1>2
  <1>6. /\ member' \in [Topic -> {"no", "explicit", "auto"}]
        /\ \A t \in Topic : member'[t] # "no" => member[t] # "no"
    BY <1>1, <1>2
  <1>7. /\ cursor' \in [Topic -> [epoch : Nat, seq : Nat]]
        /\ \A t \in Topic : Held(t)' => cursor'[t] = fresh
    <2>0. \A t \in Topic : all[t] = fresh
      OBVIOUS
    <2> HIDE DEF all
    <2>1. cursor' = Remaining(all, member', others)
      BY <1>2
    <2>2. /\ cursor' \in [Topic -> [epoch : Nat, seq : Nat]]
          /\ \A t \in Topic : member'[t] # "no" \/ t \in others => cursor'[t] = all[t]
      BY ONLY <1>4, <2>1, RemainingFacts
    <2>3. others' = others
      BY <1>2
    <2> HIDE DEF fresh
    <2> QED
      BY <2>0, <2>2, <2>3 DEF Held
  <1>8. \A t \in Topic : kindOf(t) \in {"unsubscribed_reset", "reset"}
    OBVIOUS
  <1>9. \A t \in Topic :
           LET x == frameOf(t)
           IN  /\ x \in Sent /\ x.kind \in {"unsubscribed_reset", "reset"} /\ x.topic = t
               /\ x.epoch = nextEpoch /\ x.seq = 0 /\ x.pos = pos'[t]
    <2> SUFFICES ASSUME NEW t \in Topic
                 PROVE  LET x == frameOf(t)
                        IN  /\ x \in Sent /\ x.kind \in {"unsubscribed_reset", "reset"}
                            /\ x.topic = t /\ x.epoch = nextEpoch /\ x.seq = 0
                            /\ x.pos = pos'[t]
      OBVIOUS
    <2>1. pos'[t] \in Nat /\ kindOf(t) \in {"unsubscribed_reset", "reset"} /\ nextEpoch \in Nat
      BY <1>1, <1>5, <1>8
    <2> HIDE DEF kindOf
    <2> QED
      BY <2>1 DEF Frame, Sent
  <1>10. /\ order \in Seq(Topic)
         /\ \A i, j \in DOMAIN order : i # j => order[i] # order[j]
    <2>1. heldBefore \in SUBSET Topic
      OBVIOUS
    <2>2. Cardinality(heldBefore) \in Nat
      BY <2>1, SubscriptionsAssumption, FS_Subset, FS_CardinalityType
    <2>3. /\ order \in [1 .. Cardinality(heldBefore) -> heldBefore]
          /\ \A i, j \in 1 .. Cardinality(heldBefore) : i # j => order[i] # order[j]
      BY <1>3 DEF SetToSeqs, IsInjective
    <2> HIDE DEF heldBefore
    <2> QED
      BY <2>1, <2>2, <2>3
  <1> HIDE DEF fresh, frameOf
  <1>11. /\ n \in Seq(Sent) /\ DOMAIN n = DOMAIN order
         /\ \A i \in DOMAIN n : order[i] \in Topic /\ n[i] = frameOf(order[i])
    <2>1. DOMAIN order = 1 .. Len(order) /\ Len(order) \in Nat
          /\ \A i \in DOMAIN order : order[i] \in Topic
      BY <1>10
    <2>2. \A i \in DOMAIN order : frameOf(order[i]) \in Sent
      BY <1>9, <2>1
    <2> QED
      BY <2>1, <2>2
  <1>12. toClient' = toClient \o n
    BY <1>3
  <1> HIDE DEF n
  <1>13. TypeOK'
    <2>1. toClient' \in Seq(Sent)
      BY <1>1, <1>11, <1>12
    <2>2. nextEpoch' \in Nat \ {0} /\ troubles' \in Nat
      BY <1>1, <1>2
    <2>3. UNCHANGED <<toServer, tasks, others, clientVars>>
      BY <1>2
    <2>4. pos' \in [Topic -> Nat] /\ member' \in [Topic -> {"no", "explicit", "auto"}]
          /\ cursor' \in [Topic -> [epoch : Nat, seq : Nat]]
      BY <1>5, <1>6, <1>7
    <2> QED
      BY <1>0, <2>1, <2>2, <2>3, <2>4 DEF TypeOK, clientVars
  <1>14. /\ Moves(Streams, Streams')
         /\ \A u \in Streams'.held : Streams'.cursor[u].epoch \in 1 .. Streams'.next - 1
    <2>1. nextEpoch <= nextEpoch' /\ nextEpoch < nextEpoch' /\ nextEpoch <= nextEpoch
      BY <1>1, <1>2
    <2>2. \A t \in Topic :
            /\ pos[t] <= pos'[t]
            /\ Held(t)' => nextEpoch <= cursor'[t].epoch /\ cursor'[t].epoch < nextEpoch'
      BY <1>4, <1>5, <1>7, <2>1
    <2> QED
      BY <1>0, <1>13, <2>1, <2>2, MovesFrom
  <1>15. ASSUME NEW i \in DOMAIN n PROVE Fresh(n[i], Streams, Streams')
    <2> DEFINE x == n[i]
               t == order[i]
    <2>1. /\ t \in Topic /\ x \in Sent /\ x.topic = t
          /\ x.epoch = nextEpoch /\ x.seq = 0 /\ x.pos = pos'[t]
      BY <1>9, <1>11
    <2> HIDE DEF x, t
    <2>2. /\ Streams \in Hubs /\ Streams' \in Hubs /\ Streams'.pos = pos' /\ Streams.pos = pos
          /\ Streams'.held = {u \in Topic : Held(u)'} /\ Streams'.cursor = cursor'
          /\ Streams.next = nextEpoch /\ Streams'.next = nextEpoch'
      BY <1>0, <1>13, StreamsFacts, StreamsFactsPrimed
    <2>3. x.topic \in Streams'.held => /\ x.epoch = Streams'.cursor[x.topic].epoch
                                       /\ x.seq = Streams'.cursor[x.topic].seq
      BY <1>4, <1>7, <2>1, <2>2
    <2>4. /\ Streams.pos[x.topic] <= Streams'.pos[x.topic] /\ x.pos = Streams'.pos[x.topic]
          /\ x.epoch = Streams.next
      BY <1>5, <2>1, <2>2
    <2>5. x.epoch # 0 /\ x.epoch < Streams'.next
      BY <1>1, <1>2, <2>1, <2>2
    <2>6. Fresh(x, Streams, Streams')
      BY <2>1, <2>2, <2>3, <2>4, <2>5, EpochFresh
    <2> QED
      BY <2>6 DEF x
  <1>16. \A j, l \in DOMAIN n : j # l => n[j].topic # n[l].topic
    BY <1>9, <1>10, <1>11
  <1>17. AnswersFor(n, client, Known)
    BY <1>9, <1>11 DEF AnswersFor
  <1>18. /\ AsksFor(toServer', Known) /\ client' = client /\ nextGroup' = nextGroup
         /\ tasks' \subseteq Known
    BY <1>0, <1>2 DEF LinkInv, clientVars
  <1> QED
    BY <1>11, <1>12, <1>13, <1>14, <1>15, <1>16, <1>17, <1>18, HubStep

\* The hub forgets the connection.
LEMMA DownStreams ==
  ASSUME StreamInv, HubForgets
  PROVE  /\ member' \in [Topic -> {"no", "explicit", "auto"}] /\ others' \in SUBSET Topic
         /\ cursor' \in [Topic -> [epoch : Nat, seq : Nat]]
         /\ \A t \in Topic : Held(t)' => Held(t) /\ cursor'[t] = cursor[t]
  <1>1. /\ TypeOK /\ cursor \in [Topic -> [epoch : Nat, seq : Nat]] /\ others \in SUBSET Topic
    BY DEF StreamInv, TypeOK
  <1>2. /\ member' = [t \in Topic |-> "no"] /\ cursor' = Remaining(cursor, member', others')
    BY DEF HubForgets
  <1>3. PICK lingering \in SUBSET {t \in Topic : member[t] # "no"} :
           others' = others \union lingering
    BY DEF HubForgets
  <1>4. /\ cursor' \in [Topic -> [epoch : Nat, seq : Nat]]
        /\ \A t \in Topic : member'[t] # "no" \/ t \in others' => cursor'[t] = cursor[t]
    BY ONLY <1>1, <1>2, RemainingFacts
  <1>5. others' \in SUBSET Topic /\ \A t \in others' : t \in others \/ member[t] # "no"
    BY <1>1, <1>3
  <1>6. /\ member' \in [Topic -> {"no", "explicit", "auto"}]
        /\ \A t \in Topic : member'[t] = "no"
    BY <1>2
  <1> QED
    BY <1>4, <1>5, <1>6 DEF Held

LEMMA InitStream ==
  ASSUME Init
  PROVE  StreamInv
  <1> DEFINE first == [t \in Topic |-> [epoch |-> 1, seq |-> 0]]
  <1>1. client \in Client /\ client.out = <<>>
    <2>1. NoGroup \in Group
      BY Constants
    <2> QED
      BY <2>1 DEF Init, ClientInit, Client
  <1>2. /\ \A k \in Key : client.groups[k] = 0
        /\ \A t \in Topic : client.byTopic[t] = 0 /\ client.early[t] = <<>>
        /\ \A g \in Gid : client.grp[g] = NoGroup
    BY DEF Init, ClientInit
  <1>3. first \in [Topic -> [epoch : Nat, seq : Nat]] /\ \A t \in Topic : first[t].epoch = 1
    OBVIOUS
  <1>4. cursor = Remaining(first, member, others)
    BY DEF Init
  <1> HIDE DEF first
  <1>5. /\ cursor \in [Topic -> [epoch : Nat, seq : Nat]]
        /\ \A t \in Topic : member[t] # "no" \/ t \in others => cursor[t] = first[t]
    BY ONLY <1>3, <1>4, RemainingFacts
  <1>6. TypeOK
    <2>1. nextGroup \in 1 .. MaxGroups + 1
      BY Constants DEF Init
    <2>2. toServer = <<>> /\ toClient = <<>> /\ tasks = {}
      BY DEF Init
    <2>3. toServer \in Seq(Asked) /\ toClient \in Seq(Sent) /\ tasks \in SUBSET Gid
      BY ONLY <2>2
    <2>4. ready \in BOOLEAN /\ closed \in BOOLEAN
      BY ZenonT(20) DEF Init
    <2>5. /\ member \in [Topic -> {"no", "explicit", "auto"}] /\ others \in SUBSET Topic
          /\ pos \in [Topic -> Nat] /\ nextEpoch \in Nat \ {0} /\ troubles \in Nat
      BY DEF Init
    <2> QED
      BY <1>1, <1>5, <2>1, <2>3, <2>4, <2>5 DEF TypeOK
  <1>7. Known = {}
    BY DEF Init, Known
  <1>8. LinkInv
    <2>1. Linked(client, Known)
      BY <1>2 DEF Linked
    <2>2. AsksFor(toServer, Known) /\ AnswersFor(toClient, client, Known) /\ tasks = {}
      BY DEF Init, AsksFor, AnswersFor
    <2>3. Unstarted(client, Known)
      BY <1>2, Constants DEF Unstarted
    <2> QED
      BY <2>1, <2>2, <2>3 DEF LinkInv
  <1>9. FeedInv
    <2>1. \A t \in Topic : Places(client, Known, t) = {}
      BY <1>2, <1>7 DEF Places
    <2>2. \A t \in Streams.held : Streams.cursor[t].epoch \in 1 .. Streams.next - 1
      <3>1. \A t \in Topic : Held(t) => cursor[t].epoch = 1
        BY <1>3, <1>5 DEF Held
      <3>2. Streams.held = {t \in Topic : Held(t)} /\ Streams.cursor = cursor
            /\ Streams.next = 2
        BY <1>6, StreamsFacts DEF Init
      <3> QED
        BY <3>1, <3>2
    <2>3. toClient = <<>>
      BY DEF Init
    <2> QED
      BY <2>1, <2>2, <2>3 DEF FeedInv, InOrder
  <1> QED
    BY <1>6, <1>8, <1>9 DEF StreamInv

\* A step of the client's own keeps the invariant.
LEMMA OwnStream ==
  ASSUME StreamInv, OwnStep, UNCHANGED serverVars, toClient' = toClient,
         nextGroup' \in 1 .. MaxGroups + 1, ready' \in BOOLEAN, closed' \in BOOLEAN,
         troubles' = troubles
  PROVE  StreamInv'
  <1>1. TypeOK'
    BY DEF StreamInv, TypeOK, OwnStep, serverVars
  <1>2. /\ tasks' = tasks /\ Moves(Streams, Streams')
        /\ \A t \in Streams'.held : Streams'.cursor[t].epoch \in 1 .. Streams'.next - 1
    BY StreamsSame
  <1>3. tasks' \subseteq Known /\ Left(toClient, toClient')
    BY <1>2 DEF StreamInv, LinkInv, Left
  <1> QED
    BY <1>1, <1>2, <1>3, KeptStep DEF OwnStep

LEMMA StepStream ==
  ASSUME StreamInv, Next
  PROVE  StreamInv'
  <1>0. /\ TypeOK /\ nextGroup \in 1 .. MaxGroups + 1 /\ ready \in BOOLEAN
        /\ closed \in BOOLEAN /\ MaxGroups \in Nat
    BY Constants DEF StreamInv, TypeOK
  <1>1. CASE \E k \in Key : SubscribeNew(k)
    <2>1. PICK k \in Key : SubscribeNew(k)
      BY <1>1
    <2>2. nextGroup' \in 1 .. MaxGroups + 1
      BY <1>0, <2>1 DEF SubscribeNew, Gid
    <2> QED
      BY <1>0, <2>1, <2>2, NewEffect, OwnStream DEF SubscribeNew
  <1>2. CASE \E k \in Key : SubscribeMore(k)
    BY <1>0, <1>2, MoreEffect, OwnStream DEF SubscribeMore
  <1>3. CASE \E g \in Gid : Unsubscribe(g)
    BY <1>0, <1>3, UnsubscribeEffect, OwnStream DEF Unsubscribe
  <1>4. CASE ClientReceives
    <2>1. /\ Handled(client, client', Head(toClient), Known)
          /\ client'.out = <<>> /\ toServer' \in Seq(Asked) /\ AsksFor(toServer', Known)
          /\ toClient # <<>> /\ toClient' = Tail(toClient)
          /\ UNCHANGED <<nextGroup, ready, closed, troubles, serverVars>>
      BY <1>4, ReceiveEffect
    <2>2. client' \in Client
      BY <2>1 DEF Handled
    <2>3. Tail(toClient) \in Seq(Sent)
      BY <1>0, <2>1, TailFacts DEF TypeOK
    <2>4. TypeOK'
      BY <1>0, <2>1, <2>2, <2>3 DEF TypeOK, serverVars
    <2>5. Streams' = Streams /\ tasks' = tasks /\ Known' = Known
      BY <2>1, StreamsSame DEF Known
    <2> QED
      BY <2>1, <2>4, <2>5, HandledStep
  <1>5. CASE BecomeReady
    BY <1>0, <1>5, ReadyEffect, OwnStream DEF BecomeReady
  <1>6. CASE Lose \/ Close
    <2>1. OwnStep /\ HubForgets
      BY <1>6, DownEffect DEF Lose, Close
    <2>2. /\ member' \in [Topic -> {"no", "explicit", "auto"}] /\ others' \in SUBSET Topic
          /\ cursor' \in [Topic -> [epoch : Nat, seq : Nat]]
          /\ \A t \in Topic : Held(t)' => Held(t) /\ cursor'[t] = cursor[t]
      BY <2>1, DownStreams
    <2>3. /\ nextGroup' = nextGroup /\ ready' \in BOOLEAN /\ closed' \in BOOLEAN
          /\ troubles' \in Nat
      <3>1. troubles \in Nat /\ troubles + 1 \in Nat
        BY <1>0 DEF TypeOK
      <3> QED
        BY <1>0, <1>6, <3>1 DEF Lose, Close, Trouble
    <2>4. toClient' = <<>> /\ tasks' = {} /\ pos' = pos /\ nextEpoch' = nextEpoch
      BY <2>1 DEF HubForgets
    <2>5. TypeOK'
      BY <1>0, <2>1, <2>2, <2>3, <2>4 DEF TypeOK, OwnStep
    <2>6. /\ Moves(Streams, Streams')
          /\ \A t \in Streams'.held : Streams'.cursor[t].epoch \in 1 .. Streams'.next - 1
      BY <1>0, <2>2, <2>4, <2>5, LetGo DEF StreamInv
    <2>7. tasks' \subseteq Known /\ Left(toClient, toClient')
      BY <2>4 DEF Left
    <2> QED
      BY <2>1, <2>5, <2>6, <2>7, KeptStep DEF OwnStep
  <1>7. CASE HubActs
    BY <1>7, StepServerReads, StepGrant, StepDeny, StepServerSubscribe, StepPublish,
       StepKick, StepBrokerReset, StepOthersJoin, StepOthersLeave DEF HubActs
  <1> QED
    BY <1>1, <1>2, <1>3, <1>4, <1>5, <1>6, <1>7 DEF Next

LEMMA StutterStream ==
  ASSUME StreamInv, UNCHANGED vars
  PROVE  StreamInv'
  <1>1. /\ client' = client /\ nextGroup' = nextGroup /\ ready' = ready /\ closed' = closed
        /\ toServer' = toServer /\ toClient' = toClient /\ tasks' = tasks
        /\ member' = member /\ others' = others /\ cursor' = cursor /\ pos' = pos
        /\ nextEpoch' = nextEpoch /\ troubles' = troubles
    BY DEF vars
  <1>2. Known' = Known /\ Streams' = Streams
    BY <1>1 DEF Known, Streams, Held
  <1> QED
    BY <1>1, <1>2 DEF StreamInv, TypeOK, LinkInv, FeedInv

LEMMA StreamAlways == Spec => []StreamInv
  <1>1. Init => StreamInv
    BY InitStream
  <1>2. StreamInv /\ [Next]_vars => StreamInv'
    BY StepStream, StutterStream
  <1> QED
    BY <1>1, <1>2, PTL DEF Spec

\* Every variable always has its type.  The proof goes through the order of the
\* streams: what an acknowledgement finds buffered is never newer than it.
THEOREM TypeCorrect == Spec => []TypeOK
  <1>1. StreamInv => TypeOK
    BY DEF StreamInv
  <1> QED
    BY <1>1, StreamAlways, PTL

-----------------------------------------------------------------------------
\* Subscriptions survive.

LEMMA InitSurvive ==
  ASSUME Init
  PROVE  SurviveInv
  <1>1. \A t \in Topic : client.byTopic[t] = 0
    BY DEF Init, ClientInit
  <1>2. Known = {}
    BY DEF Init, Known
  <1>3. Alive(client, Known) /\ Dispatched(client)
    BY <1>1, <1>2 DEF Alive, Dispatched
  <1>4. ~closed
    BY ZenonT(20) DEF Init
  <1> QED
    BY <1>1, <1>3, <1>4 DEF SurviveInv

\* A step that leaves the connection as it was and names no group by a topic.
LEMMA OwnSurvive ==
  ASSUME SurviveInv, ready' = ready, closed' = closed,
         \A t \in Topic : client'.byTopic[t] \in {0, client.byTopic[t]},
         ~closed => Alive(client', Known') /\ Dispatched(client')
  PROVE  SurviveInv'
  <1>1. ~ready' => \A t \in Topic : client'.byTopic[t] = 0
    BY DEF SurviveInv
  <1>2. closed' => ~ready'
    BY DEF SurviveInv
  <1>3. Dispatched(client')
    BY <1>1, <1>2 DEF Dispatched
  <1> QED
    BY <1>1, <1>2, <1>3 DEF SurviveInv

LEMMA StepSurvive ==
  ASSUME ~StaleHandles, StreamInv, SurviveInv, Next
  PROVE  SurviveInv'
  <1>0. ~closed => Good(client, Known)
    BY DEF StreamInv, LinkInv, SurviveInv, Good
  <1>1. CASE \E k \in Key : SubscribeNew(k)
    <2>1. PICK k \in Key : SubscribeNew(k)
      BY <1>1
    <2>2. ready' = ready /\ closed' = closed
      BY <2>1 DEF SubscribeNew
    <2> QED
      BY <1>0, <2>1, <2>2, NewEffect, OwnSurvive DEF Good
  <1>2. CASE \E k \in Key : SubscribeMore(k)
    <2>1. PICK k \in Key : SubscribeMore(k)
      BY <1>2
    <2>2. ready' = ready /\ closed' = closed
      BY <2>1 DEF SubscribeMore
    <2> QED
      BY <1>0, <2>1, <2>2, MoreEffect, OwnSurvive DEF Good
  <1>3. CASE \E g \in Gid : Unsubscribe(g)
    <2>1. PICK g \in Gid : Unsubscribe(g)
      BY <1>3
    <2>2. ready' = ready /\ closed' = closed
      BY <2>1 DEF Unsubscribe
    <2> QED
      BY <1>0, <2>1, <2>2, UnsubscribeEffect, OwnSurvive DEF Good
  <1>4. CASE ClientReceives
    <2>1. /\ Handled(client, client', Head(toClient), Known) /\ ready
          /\ nextGroup' = nextGroup /\ ready' = ready /\ closed' = closed
      BY <1>4, ReceiveEffect
    <2>2. Known' = Known /\ ~closed
      BY <2>1 DEF Known, SurviveInv
    <2>3. Good(client', Known')
      BY <1>0, <2>1, <2>2 DEF Handled
    <2> QED
      BY <2>1, <2>2, <2>3 DEF SurviveInv, Good
  <1>5. CASE BecomeReady
    <2>1. ~ready /\ ~closed /\ ready' /\ closed' = closed
      BY <1>5 DEF BecomeReady
    <2>2. Good(client', Known')
      BY <1>0, <1>5, <2>1, ReadyEffect DEF SurviveInv
    <2> QED
      BY <2>1, <2>2 DEF SurviveInv, Good
  <1>6. CASE Lose \/ Close
    <2>1. /\ Dispatched(client') /\ \A t \in Topic : client'.byTopic[t] = 0
          /\ Lose /\ Alive(client, Known) => Alive(client', Known')
      BY <1>6, DownEffect
    <2>2. ~ready'
      BY <1>6 DEF Lose, Close
    <2>3. ~closed' => Lose /\ ~closed
      BY <1>6 DEF Lose, Close
    <2> QED
      BY <2>1, <2>2, <2>3 DEF SurviveInv
  <1>7. CASE HubActs
    <2>1. UNCHANGED clientVars
      BY <1>7 DEF HubActs, ServerReads, Grant, Deny, ServerSubscribe, Publish, Kick,
                  BrokerReset, OthersJoin, OthersLeave
    <2>2. client' = client /\ ready' = ready /\ closed' = closed /\ Known' = Known
      BY <2>1 DEF clientVars, Known
    <2> QED
      BY <2>2 DEF SurviveInv
  <1> QED
    BY <1>1, <1>2, <1>3, <1>4, <1>5, <1>6, <1>7 DEF Next

\* A subscription of the application survives reconnects, kicks of others and
\* resets: until its readers are told that it is over, its key names it.  Only
\* a handle of an ended group, unsubscribed after its key was subscribed again,
\* could take another group's name away.
THEOREM SubscriptionsSurvive ==
  ASSUME ~StaleHandles
  PROVE  Spec => []Survives
  <1>1. Init => SurviveInv
    BY InitSurvive
  <1>2. StreamInv /\ SurviveInv /\ [Next]_vars => SurviveInv'
    <2> SUFFICES ASSUME StreamInv, SurviveInv, [Next]_vars
                 PROVE  SurviveInv'
      OBVIOUS
    <2>1. CASE Next
      BY <2>1, StepSurvive
    <2>2. CASE UNCHANGED vars
      <3>1. client' = client /\ ready' = ready /\ closed' = closed /\ Known' = Known
        BY <2>2 DEF vars, Known
      <3> QED
        BY <3>1 DEF SurviveInv
    <2> QED
      BY <2>1, <2>2
  <1>3. SurviveInv => Survives
    BY DEF SurviveInv, Survives, Alive, Known
  <1> QED
    BY <1>1, <1>2, <1>3, StreamAlways, PTL DEF Spec

-----------------------------------------------------------------------------
\* The subscriptions implement Feed.

\* How many messages the stream of g has had.
Published(c, K, p, g) == IF g \in K THEN p[TopicOfGroup(c, g)] ELSE 0

\* No reader is ahead of its stream.
LEMMA NeverAhead ==
  ASSUME NEW c \in Client, NEW K \in SUBSET Gid, NEW s, NEW h \in Hubs, InOrder(c, K, s, h),
         Unstarted(c, K), NEW g \in Gid
  PROVE  c.grp[g].at <= Published(c, K, h.pos, g)
  <1> DEFINE t == TopicOfGroup(c, g)
  <1>1. t \in Topic /\ h.pos[t] \in Nat
    BY ClientFields, HubFields
  <1>2. CASE c.grp[g].epoch = 0
    <2>1. c.grp[g].at = 0
      BY <1>2 DEF Unstarted
    <2> QED
      BY <1>1, <2>1 DEF Published
  <1>3. CASE c.grp[g].epoch # 0
    <2>1. g \in K
      BY <1>3 DEF Unstarted
    <2>2. Mark(c, g) \in Places(c, K, t)
      BY <1>3, <2>1 DEF Places
    <2>3. Past(h, t, Mark(c, g))
      BY <1>1, <2>2 DEF InOrder
    <2>4. Mark(c, g).pos = c.grp[g].at
      BY DEF Mark
    <2> QED
      BY <2>1, <2>3, <2>4 DEF Past, Published
  <1> QED
    BY <1>2, <1>3

\* What a frame does to a reader is a step of its feed.
LEMMA ChangeFeeds ==
  ASSUME NEW c \in Client, NEW K \in SUBSET Gid, NEW s \in Seq(Sent), s # <<>>,
         NEW h \in Hubs, InOrder(c, K, s, h), NEW g \in K, NEW d \in Client,
         Change(c, d, g, Head(s))
  PROVE  /\ \/ /\ c.grp[g].epoch # 0 /\ d.grp[g].at = c.grp[g].at + 1
               /\ d.grp[g].told = c.grp[g].told
            \/ /\ c.grp[g].epoch # 0 /\ d.grp[g].at >= c.grp[g].at
               /\ d.grp[g].told # c.grp[g].told
            \/ /\ c.grp[g].epoch = 0 /\ d.grp[g].epoch # 0
               /\ d.grp[g].told = c.grp[g].told
         /\ c.grp[g].epoch # 0 => d.grp[g].epoch # 0
  <1> DEFINE f == Head(s)
             t == TopicOfGroup(c, g)
             m == Mark(c, g)
  <1>1. /\ f = s[1] /\ 1 \in DOMAIN s /\ f \in Sent /\ g \in Gid
    BY TailFacts
  <1>2. /\ f.topic = t /\ f.kind \in Telling /\ t \in Topic
    BY <1>1, ClientFields DEF Change
  <1>3. f.epoch # 0
    BY <1>1, <1>2 DEF InOrder
  <1>4. /\ f.epoch \in Nat /\ f.seq \in Nat /\ f.pos \in Nat
        /\ c.grp[g].epoch \in Nat /\ c.grp[g].seq \in Nat /\ c.grp[g].at \in Nat
    BY <1>1, ClientFields DEF Sent, Group
  <1>5. ASSUME c.grp[g].epoch # 0
        PROVE  /\ c.grp[g].at <= f.pos
               /\ c.grp[g].epoch = f.epoch => c.grp[g].at + f.seq = f.pos + c.grp[g].seq
    <2>1. m \in Places(c, K, t)
      BY <1>5 DEF Places
    <2>2. Ahead(s, 1, t, m)
      BY <1>2, <2>1 DEF InOrder
    <2>3. Then(m, f)
      BY <1>1, <1>2, <2>2 DEF Ahead
    <2>4. m.epoch = c.grp[g].epoch /\ m.seq = c.grp[g].seq /\ m.pos = c.grp[g].at
      BY DEF Mark
    <2> QED
      BY <2>3, <2>4 DEF Then
  <1>6. CASE c.grp[g].epoch # 0 /\ At(d, g, f) /\ d.grp[g].told # c.grp[g].told
    BY <1>3, <1>4, <1>5, <1>6 DEF At
  <1>7. CASE /\ c.grp[g].epoch # 0 /\ At(d, g, f) /\ d.grp[g].told = c.grp[g].told
             /\ f.epoch = c.grp[g].epoch /\ f.seq = c.grp[g].seq + 1
    <2>1. c.grp[g].at + f.seq = f.pos + c.grp[g].seq /\ f.seq = c.grp[g].seq + 1
      BY <1>5, <1>7
    <2>2. f.pos = c.grp[g].at + 1
      BY <1>4, <2>1
    <2> QED
      BY <1>3, <1>7, <2>2 DEF At
  <1>8. CASE c.grp[g].epoch = 0 /\ At(d, g, f) /\ d.grp[g].told = c.grp[g].told
    BY <1>3, <1>8 DEF At
  <1>9. CASE /\ c.grp[g].epoch # 0 /\ d.grp[g].told # c.grp[g].told
             /\ f.kind = "unsubscribed_reset" /\ d.grp[g].at = f.pos
             /\ d.grp[g].epoch = c.grp[g].epoch /\ d.grp[g].seq = c.grp[g].seq
    BY <1>4, <1>5, <1>9
  <1> QED
    BY <1>6, <1>7, <1>8, <1>9 DEF Change

\* What any step does to the readers: nothing, or what the frame received does.
LEMMA StepReaders ==
  ASSUME StreamInv, Next
  PROVE  /\ \A t \in Topic : pos[t] <= pos'[t]
         /\ Known \subseteq Known' /\ \A g \in Known : client'.grp[g].key = client.grp[g].key
         /\ \/ \A g \in Gid : /\ client'.grp[g].epoch = client.grp[g].epoch
                              /\ client'.grp[g].at = client.grp[g].at
                              /\ client'.grp[g].told = client.grp[g].told
            \/ Handled(client, client', Head(toClient), Known) /\ toClient # <<>>
  <1>0. /\ TypeOK /\ pos \in [Topic -> Nat] /\ \A t \in Topic : pos[t] <= pos[t]
        /\ Known \in SUBSET Gid
    BY KnownFacts DEF StreamInv, TypeOK
  <1>1. ASSUME OwnStep, pos' = pos
        PROVE  /\ \A t \in Topic : pos[t] <= pos'[t]
               /\ Known \subseteq Known'
               /\ \A g \in Known : client'.grp[g].key = client.grp[g].key
               /\ \A g \in Gid : /\ client'.grp[g].epoch = client.grp[g].epoch
                                 /\ client'.grp[g].at = client.grp[g].at
                                 /\ client'.grp[g].told = client.grp[g].told
    BY <1>0, <1>1 DEF OwnStep, Kept
  <1>2. CASE \/ \E k \in Key : SubscribeNew(k) \/ SubscribeMore(k)
             \/ \E g \in Gid : Unsubscribe(g)
             \/ BecomeReady \/ Lose \/ Close
    <2>1. OwnStep
      BY <1>2, NewEffect, MoreEffect, UnsubscribeEffect, ReadyEffect, DownEffect
    <2>2. pos' = pos
      BY <1>2 DEF SubscribeNew, SubscribeMore, Unsubscribe, BecomeReady, Lose, Close,
                  HubForgets, serverVars
    <2> QED
      BY <1>1, <2>1, <2>2
  <1>3. CASE ClientReceives
    <2>1. /\ Handled(client, client', Head(toClient), Known) /\ toClient # <<>>
          /\ UNCHANGED <<nextGroup, ready, closed, troubles, serverVars>>
      BY <1>3, ReceiveEffect
    <2>2. pos' = pos /\ Known' = Known
      BY <2>1 DEF serverVars, Known
    <2>3. \A g \in Known : client'.grp[g].key = client.grp[g].key
      BY <1>0, <2>1 DEF Handled
    <2> QED
      BY <1>0, <2>1, <2>2, <2>3
  <1>4. CASE HubActs
    <2>1. UNCHANGED clientVars
      BY <1>4 DEF HubActs, ServerReads, Grant, Deny, ServerSubscribe, Publish, Kick,
                  BrokerReset, OthersJoin, OthersLeave
    <2>2. client' = client /\ Known' = Known
      BY <2>1 DEF clientVars, Known
    <2>3. \A t \in Topic : pos[t] <= pos'[t]
      <3>1. CASE \E t \in Topic : Publish(t)
        BY <1>0, <3>1 DEF Publish
      <3>2. CASE \E missed \in SUBSET Topic : BrokerReset(missed)
        BY <1>0, <3>2 DEF BrokerReset
      <3>3. CASE /\ ~ \E t \in Topic : Publish(t)
                 /\ ~ \E missed \in SUBSET Topic : BrokerReset(missed)
        <4>1. pos' = pos
          BY <1>4, <3>3 DEF HubActs, ServerReads, Grant, Deny, ServerSubscribe, Kick,
                            OthersJoin, OthersLeave
        <4> QED
          BY <1>0, <4>1
      <3> QED
        BY <3>1, <3>2, <3>3
    <2> QED
      BY <2>2, <2>3
  <1> QED
    BY <1>2, <1>3, <1>4 DEF Next

LEMMA InitFeed ==
  ASSUME Init
  PROVE  ReaderFeed!FeedInit
  <1>1. /\ client \in Client /\ pos \in [Topic -> Nat] /\ Unstarted(client, Known)
        /\ nextGroup = 1
    <2>1. StreamInv
      BY InitStream
    <2>2. nextGroup = 1
      BY DEF Init
    <2> QED
      BY <2>1, <2>2 DEF StreamInv, TypeOK, LinkInv
  <1>2. \A g \in Gid : client.grp[g].epoch = 0 /\ client.grp[g].at = 0 /\ ~client.grp[g].told
    BY <1>1 DEF Unstarted, Known
  <1>3. \A g \in Gid : client.grp[g].told \in BOOLEAN /\ TopicOfGroup(client, g) \in Topic
    BY <1>1, ClientFields DEF Group
  <1>4. [g \in Gid |-> client.grp[g].told] = [g \in Gid |-> FALSE]
    <2>1. \A g \in Gid : client.grp[g].told = FALSE
      BY <1>2, <1>3, ZenonT(20)
    <2> QED
      BY <2>1
  <1>5. [g \in Gid |-> client.grp[g].at] = [g \in Gid |-> 0]
    BY <1>2
  <1>6. {g \in Gid : client.grp[g].epoch # 0} = {}
    BY <1>2
  <1>7. [g \in Gid |-> IF g < nextGroup THEN pos[TopicOfGroup(client, g)] ELSE 0]
          \in [Gid -> Nat]
    BY <1>1, <1>3
  <1> QED
    BY <1>4, <1>5, <1>6, <1>7 DEF ReaderFeed!FeedInit

LEMMA StepFeed ==
  ASSUME StreamInv, StreamInv', Next
  PROVE  ReaderFeed!FeedNext
  <1> DEFINE c == client
             d == client'
             published == [g \in Gid |-> IF g < nextGroup
                                         THEN pos[TopicOfGroup(client, g)] ELSE 0]
             started == {g \in Gid : client.grp[g].epoch # 0}
             at == [g \in Gid |-> client.grp[g].at]
             told == [g \in Gid |-> client.grp[g].told]
  <1>0. /\ TypeOK /\ TypeOK' /\ c \in Client /\ d \in Client
        /\ Known \in SUBSET Gid /\ Known' \in SUBSET Gid
        /\ pos \in [Topic -> Nat] /\ pos' \in [Topic -> Nat]
        /\ nextGroup \in 1 .. MaxGroups + 1 /\ nextGroup' \in 1 .. MaxGroups + 1
    <2>1. TypeOK /\ TypeOK'
      BY DEF StreamInv
    <2>2. Known \in SUBSET Gid /\ Known' \in SUBSET Gid
      BY <2>1, KnownFacts, KnownFactsPrimed
    <2> QED
      BY <2>1, <2>2 DEF TypeOK
  <1>1. /\ Streams \in Hubs /\ Streams' \in Hubs /\ Streams'.pos = pos'
    BY <1>0, StreamsFacts, StreamsFactsPrimed
  <1>2. /\ \A t \in Topic : pos[t] <= pos'[t]
        /\ Known \subseteq Known' /\ \A g \in Known : d.grp[g].key = c.grp[g].key
        /\ \/ \A g \in Gid : /\ d.grp[g].epoch = c.grp[g].epoch
                             /\ d.grp[g].at = c.grp[g].at /\ d.grp[g].told = c.grp[g].told
           \/ Handled(c, d, Head(toClient), Known) /\ toClient # <<>>
    BY StepReaders
  <1>3. /\ InOrder(c, Known, toClient, Streams) /\ toClient \in Seq(Sent)
        /\ InOrder(d, Known', toClient', Streams') /\ Unstarted(d, Known')
    BY DEF StreamInv, FeedInv, LinkInv, TypeOK
  <1>4. ASSUME NEW g \in Gid
        PROVE  /\ published[g] = Published(c, Known, pos, g)
               /\ published'[g] = Published(d, Known', pos', g)
    <2>1. /\ g \in Known <=> g < nextGroup
          /\ g \in Known' <=> g < nextGroup'
      <3>1. g \in Nat /\ g >= 1 /\ MaxGroups \in Nat
        BY Constants DEF Gid
      <3>2. Known = 1 .. nextGroup - 1 /\ Known' = 1 .. nextGroup' - 1
        BY DEF Known
      <3>3. \A n \in 1 .. MaxGroups + 1 : g \in 1 .. n - 1 <=> g < n
        BY <3>1
      <3> QED
        BY <1>0, <3>2, <3>3
    <2> QED
      BY <2>1 DEF Published, TopicOfGroup
  <1>5. ASSUME NEW g \in Gid
        PROVE  at'[g] <= published'[g]
    <2>1. d.grp[g].at <= Published(d, Known', Streams'.pos, g)
      BY <1>0, <1>1, <1>3, NeverAhead
    <2> QED
      BY <1>1, <1>4, <2>1
  <1>6. ASSUME NEW g \in Gid
        PROVE  published'[g] >= published[g]
    <2>1. TopicOfGroup(c, g) \in Topic /\ TopicOfGroup(d, g) \in Topic
      BY <1>0, ClientFields
    <2>2. CASE g \in Known
      <3>1. TopicOfGroup(d, g) = TopicOfGroup(c, g) /\ g \in Known'
        BY <1>2, <2>2 DEF TopicOfGroup
      <3>2. pos[TopicOfGroup(c, g)] <= pos'[TopicOfGroup(c, g)]
            /\ pos[TopicOfGroup(c, g)] \in Nat /\ pos'[TopicOfGroup(c, g)] \in Nat
        BY <1>0, <1>2, <2>1
      <3>3. published[g] = pos[TopicOfGroup(c, g)] /\ published'[g] = pos'[TopicOfGroup(c, g)]
        BY <1>4, <2>2, <3>1 DEF Published
      <3> HIDE DEF published
      <3> QED
        BY <3>2, <3>3
    <2>3. CASE g \notin Known
      <3>1. published[g] = 0
        BY <1>4, <2>3 DEF Published
      <3>2. published'[g] \in Nat
        BY <1>0, <1>4, <2>1 DEF Published
      <3> HIDE DEF published
      <3> QED
        BY <3>1, <3>2
    <2> QED
      BY <2>2, <2>3
  <1>7. ASSUME NEW g \in Gid
        PROVE  /\ \/ d.grp[g].at = c.grp[g].at /\ d.grp[g].told = c.grp[g].told
                  \/ /\ c.grp[g].epoch # 0 /\ d.grp[g].at = c.grp[g].at + 1
                     /\ d.grp[g].told = c.grp[g].told
                  \/ /\ c.grp[g].epoch # 0 /\ d.grp[g].at >= c.grp[g].at
                     /\ d.grp[g].told # c.grp[g].told
                  \/ /\ c.grp[g].epoch = 0 /\ d.grp[g].epoch # 0
                     /\ d.grp[g].told = c.grp[g].told
               /\ c.grp[g].epoch # 0 => d.grp[g].epoch # 0
    <2>1. CASE /\ d.grp[g].epoch = c.grp[g].epoch /\ d.grp[g].at = c.grp[g].at
               /\ d.grp[g].told = c.grp[g].told
      BY <2>1
    <2>2. CASE /\ g \in Known /\ Change(c, d, g, Head(toClient)) /\ toClient # <<>>
      BY <1>0, <1>1, <1>3, <2>2, ChangeFeeds
    <2> QED
      BY <1>2, <2>1, <2>2 DEF Handled, Same
  <1>8. ASSUME NEW g \in Gid
        PROVE  /\ at[g] = c.grp[g].at /\ at'[g] = d.grp[g].at
               /\ told[g] = c.grp[g].told /\ told'[g] = d.grp[g].told
               /\ g \in started <=> c.grp[g].epoch # 0
               /\ g \in started' <=> d.grp[g].epoch # 0
    OBVIOUS
  <1> HIDE DEF published, started, at, told, c, d
  <1>9. ASSUME NEW g \in Gid
        PROVE  /\ \/ at'[g] = at[g] /\ told'[g] = told[g]
                  \/ g \in started /\ at'[g] = at[g] + 1 /\ told'[g] = told[g]
                  \/ g \in started /\ at'[g] >= at[g] /\ told'[g] # told[g]
                  \/ g \notin started /\ g \in started' /\ told'[g] = told[g]
               /\ g \in started => g \in started'
    BY <1>7, <1>8
  <1>10. \A g \in Gid :
           /\ \/ at'[g] = at[g] /\ told'[g] = told[g]
              \/ g \in started /\ at'[g] = at[g] + 1 /\ told'[g] = told[g]
              \/ g \in started /\ at'[g] >= at[g] /\ told'[g] # told[g]
              \/ g \notin started /\ g \in started' /\ told'[g] = told[g]
           /\ g \in started => g \in started'
           /\ published'[g] >= published[g]
           /\ at'[g] <= published'[g]
    BY <1>5, <1>6, <1>9
  <1> QED
    BY <1>10 DEF ReaderFeed!FeedNext, ReaderFeed!Quiet, ReaderFeed!Message, ReaderFeed!Gap,
                 ReaderFeed!Start, published, started, at, told

\* The subscriptions implement Feed: whatever is lost, kicked, reset, refused or
\* resubscribed, and in whatever order the frames of the streams arrive, a
\* reader is handed the next message of its topic, is told of a gap that only
\* leads forward, or starts; and it is never told of a message not published.
THEOREM FeedImplemented == Spec => NoSilentLoss
  <1>1. Init => ReaderFeed!FeedInit
    BY InitFeed
  <1>2. StreamInv /\ StreamInv' /\ [Next]_vars => [ReaderFeed!FeedNext]_(ReaderFeed!feedVars)
    <2> SUFFICES ASSUME StreamInv, StreamInv', [Next]_vars
                 PROVE  [ReaderFeed!FeedNext]_(ReaderFeed!feedVars)
      OBVIOUS
    <2>1. CASE Next
      BY <2>1, StepFeed
    <2>2. CASE UNCHANGED vars
      BY <2>2 DEF vars, ReaderFeed!feedVars, TopicOfGroup
    <2> QED
      BY <2>1, <2>2
  <1> QED
    BY <1>1, <1>2, StreamAlways, PTL DEF Spec, NoSilentLoss, ReaderFeed!FeedSpec


-----------------------------------------------------------------------------
\* The two sides agree.

\* The frames of s about t whose kind is in `kinds`: there are none, or one,
\* for the group g.
Match(x, kinds, t) == x.topic = t /\ x.kind \in kinds
None(s, kinds, t) == \A i \in DOMAIN s : ~Match(s[i], kinds, t)
OneFor(s, kinds, t, g) ==
  \E i \in DOMAIN s : /\ Match(s[i], kinds, t) /\ s[i].group = g
                      /\ \A j \in DOMAIN s : Match(s[j], kinds, t) => j = i

Ask == {"subscribe"}
Leave == {"unsubscribe"}
Answer == {"ack", "error"}
Ending == {"unsubscribed_reset", "unsubscribed_kicked"}

NoTask(c, tk, t) == \A h \in tk : TopicOfGroup(c, h) # t
OneTask(c, tk, t, g) == g \in tk /\ \A h \in tk : TopicOfGroup(c, h) = t => h = g

\* No group of t waits for an answer, or one does and is the one its key names.
Free(c, t) == \A h \in Gid : c.grp[h].pending => TopicOfGroup(c, h) # t
Waits(c, t, g) ==
  /\ c.grp[g].pending /\ TopicOfGroup(c, g) = t
  /\ \A h \in Gid : c.grp[h].pending /\ TopicOfGroup(c, h) = t => h = g
  /\ c.groups[c.grp[g].key] = g /\ c.byTopic[t] = 0

\* Nothing is requested for t, or one request is on its way: to the server, in
\* a task of it, or answered.
Resting(c, up, tk, down, t) ==
  Free(c, t) /\ None(up, Ask, t) /\ NoTask(c, tk, t) /\ None(down, Answer, t)

Asking(c, up, tk, down, t, g) ==
  /\ Waits(c, t, g)
  /\ \/ OneFor(up, Ask, t, g) /\ NoTask(c, tk, t) /\ None(down, Answer, t)
     \/ None(up, Ask, t) /\ OneTask(c, tk, t, g) /\ None(down, Answer, t)
     \/ None(up, Ask, t) /\ NoTask(c, tk, t) /\ OneFor(down, Answer, t, g)

\* An unsubscribe on its way ends nothing that was asked for after it.
LeavesFirst(up, t) ==
  \A i \in DOMAIN up : \A j \in DOMAIN up :
      Match(up[i], Leave, t) /\ Match(up[j], Ask, t) => i < j

Cleared(c, up, tk, down, t) ==
  /\ LeavesFirst(up, t)
  /\ ~None(up, Leave, t) =>
        c.byTopic[t] = 0 /\ NoTask(c, tk, t) /\ None(down, Answer, t)

\* A topic names a group with readers, and a key one that is dispatched or waits.
Named(c, t) ==
  /\ c.byTopic[t] # 0 => c.grp[c.byTopic[t]].subs > 0
  /\ \A k \in Key : TopicOf[k] = t /\ c.groups[k] # 0 =>
        c.byTopic[t] = c.groups[k] \/ c.grp[c.groups[k]].pending

\* The i-th frame is an ack that nothing on the way ends.
Begins(s, i, t) ==
  Match(s[i], {"ack"}, t) /\ \A j \in DOMAIN s : Match(s[j], Ending, t) => j < i
HasBegin(s, t) == \E i \in DOMAIN s : Begins(s, i, t)

\* A frame on the way tells of p messages; one does after every such ack.
Tells(s, t, p) == \E j \in DOMAIN s : Match(s[j], Telling, t) /\ s[j].pos = p
BeginsTold(s, t, p) ==
  \A i \in DOMAIN s : Begins(s, i, t) =>
      \E j \in DOMAIN s : j >= i /\ Match(s[j], Telling, t) /\ s[j].pos = p

\* The client dispatches t, and nothing on the way ends that.
Sure(c, down, t) == c.byTopic[t] # 0 /\ None(down, Ending, t)

\* The hub has the connection as a subscriber of t when the client thinks so,
\* or will after what is on the way, and the readers know of all p messages
\* then.
Matched(c, up, down, m, p, t) ==
  /\ m = "explicit" => Sure(c, down, t) \/ HasBegin(down, t) \/ ~None(up, Leave, t)
  /\ Sure(c, down, t) => m # "no" /\ (c.grp[c.byTopic[t]].at = p \/ Tells(down, t, p))
  /\ HasBegin(down, t) => m # "no"
  /\ BeginsTold(down, t, p)

Side(c, up, tk, down, m, p, t) ==
  /\ Resting(c, up, tk, down, t) \/ \E g \in Gid : Asking(c, up, tk, down, t, g)
  /\ Cleared(c, up, tk, down, t)
  /\ Named(c, t)
  /\ Matched(c, up, down, m, p, t)

Quiet ==
  /\ toServer = <<>> /\ toClient = <<>> /\ tasks = {}
  /\ \A t \in Topic : member[t] = "no"
  /\ \A g \in Gid : ~client.grp[g].pending

SidesInv ==
  IF ready THEN \A t \in Topic : Side(client, toServer, tasks, toClient, member[t], pos[t], t)
  ELSE Quiet

\* The frames of t are the same in r as in s, n places later.
SameFor(s, r, t, n) ==
  /\ \A i \in DOMAIN s : s[i].topic = t => i - n \in DOMAIN r /\ r[i - n] = s[i]
  /\ \A i \in DOMAIN r : r[i].topic = t => i + n \in DOMAIN s /\ s[i + n] = r[i]

\* r has one more frame of t than s, the last one, x.
AddsOne(s, r, t, x) ==
  /\ x.topic = t
  /\ \A i \in DOMAIN s : s[i].topic = t => i \in DOMAIN r /\ r[i] = s[i]
  /\ \E n \in DOMAIN r :
        /\ r[n] = x
        /\ \A i \in DOMAIN s : s[i].topic = t => i < n
        /\ \A i \in DOMAIN r : r[i].topic = t => i = n \/ (i \in DOMAIN s /\ r[i] = s[i])

LEMMA SameNone ==
  ASSUME NEW S, NEW s \in Seq(S), NEW r \in Seq(S), NEW t, NEW n \in Nat,
         SameFor(s, r, t, n), NEW kinds
  PROVE  None(r, kinds, t) <=> None(s, kinds, t)
  BY DEF SameFor, None, Match

LEMMA SameOne ==
  ASSUME NEW S, NEW s \in Seq(S), NEW r \in Seq(S), NEW t, NEW n \in Nat,
         SameFor(s, r, t, n), NEW kinds, NEW g, OneFor(s, kinds, t, g)
  PROVE  OneFor(r, kinds, t, g)
  <1>1. PICK i \in DOMAIN s : /\ Match(s[i], kinds, t) /\ s[i].group = g
                              /\ \A j \in DOMAIN s : Match(s[j], kinds, t) => j = i
    BY DEF OneFor
  <1>2. i - n \in DOMAIN r /\ r[i - n] = s[i]
    BY <1>1 DEF SameFor, Match
  <1>3. ASSUME NEW j \in DOMAIN r, Match(r[j], kinds, t) PROVE j = i - n
    <2>1. j + n \in DOMAIN s /\ s[j + n] = r[j]
      BY <1>3 DEF SameFor, Match
    <2>2. j + n = i
      BY <1>1, <1>3, <2>1
    <2> QED
      BY <2>2
  <1> QED
    BY <1>1, <1>2, <1>3 DEF OneFor

LEMMA SameLeaves ==
  ASSUME NEW S, NEW s \in Seq(S), NEW r \in Seq(S), NEW t, NEW n \in Nat,
         SameFor(s, r, t, n), LeavesFirst(s, t)
  PROVE  LeavesFirst(r, t)
  <1> SUFFICES ASSUME NEW i \in DOMAIN r, NEW j \in DOMAIN r,
                      Match(r[i], Leave, t), Match(r[j], Ask, t)
               PROVE  i < j
    BY DEF LeavesFirst
  <1>1. i + n \in DOMAIN s /\ s[i + n] = r[i] /\ j + n \in DOMAIN s /\ s[j + n] = r[j]
    BY DEF SameFor, Match
  <1>2. i + n < j + n
    BY <1>1 DEF LeavesFirst
  <1> QED
    BY <1>2

LEMMA SameBegin ==
  ASSUME NEW S, NEW s \in Seq(S), NEW r \in Seq(S), NEW t, NEW n \in Nat,
         SameFor(s, r, t, n)
  PROVE  /\ \A i \in DOMAIN s : Begins(s, i, t) => Begins(r, i - n, t) /\ i - n \in DOMAIN r
         /\ \A i \in DOMAIN r : Begins(r, i, t) => Begins(s, i + n, t) /\ i + n \in DOMAIN s
  <1>1. ASSUME NEW i \in DOMAIN s, Begins(s, i, t)
        PROVE  Begins(r, i - n, t) /\ i - n \in DOMAIN r
    <2>1. i - n \in DOMAIN r /\ r[i - n] = s[i]
      BY <1>1 DEF SameFor, Begins, Match
    <2>2. ASSUME NEW j \in DOMAIN r, Match(r[j], Ending, t) PROVE j < i - n
      <3>1. j + n \in DOMAIN s /\ s[j + n] = r[j]
        BY <2>2 DEF SameFor, Match
      <3>2. j + n < i
        BY <1>1, <2>2, <3>1 DEF Begins
      <3> QED
        BY <3>2
    <2> QED
      BY <1>1, <2>1, <2>2 DEF Begins
  <1>2. ASSUME NEW i \in DOMAIN r, Begins(r, i, t)
        PROVE  Begins(s, i + n, t) /\ i + n \in DOMAIN s
    <2>1. i + n \in DOMAIN s /\ s[i + n] = r[i]
      BY <1>2 DEF SameFor, Begins, Match
    <2>2. ASSUME NEW j \in DOMAIN s, Match(s[j], Ending, t) PROVE j < i + n
      <3>1. j - n \in DOMAIN r /\ r[j - n] = s[j]
        BY <2>2 DEF SameFor, Match
      <3>2. j - n < i
        BY <1>2, <2>2, <3>1 DEF Begins
      <3> QED
        BY <3>2
    <2> QED
      BY <1>2, <2>1, <2>2 DEF Begins
  <1> QED
    BY <1>1, <1>2

LEMMA SameTold ==
  ASSUME NEW S, NEW s \in Seq(S), NEW r \in Seq(S), NEW t, NEW n \in Nat,
         SameFor(s, r, t, n), NEW p
  PROVE  /\ HasBegin(r, t) <=> HasBegin(s, t)
         /\ Tells(s, t, p) => Tells(r, t, p)
         /\ BeginsTold(s, t, p) => BeginsTold(r, t, p)
  <1>1. HasBegin(r, t) <=> HasBegin(s, t)
    BY SameBegin DEF HasBegin
  <1>2. Tells(s, t, p) => Tells(r, t, p)
    BY DEF Tells, SameFor, Match
  <1>3. ASSUME BeginsTold(s, t, p), NEW i \in DOMAIN r, Begins(r, i, t)
        PROVE  \E j \in DOMAIN r : j >= i /\ Match(r[j], Telling, t) /\ r[j].pos = p
    <2>1. Begins(s, i + n, t) /\ i + n \in DOMAIN s
      BY <1>3, SameBegin
    <2>2. PICK j \in DOMAIN s : j >= i + n /\ Match(s[j], Telling, t) /\ s[j].pos = p
      BY <1>3, <2>1 DEF BeginsTold
    <2>3. j - n \in DOMAIN r /\ r[j - n] = s[j]
      BY <2>2 DEF SameFor, Match
    <2>4. j - n >= i
      BY <2>2
    <2> QED
      BY <2>2, <2>3, <2>4
  <1> QED
    BY <1>1, <1>2, <1>3 DEF BeginsTold

\* A frame is appended that the kinds do not name, or that they do.
LEMMA AddsNone ==
  ASSUME NEW S, NEW s \in Seq(S), NEW r \in Seq(S), NEW t, NEW x, AddsOne(s, r, t, x), NEW kinds
  PROVE  /\ x.kind \notin kinds => (None(r, kinds, t) <=> None(s, kinds, t))
         /\ x.kind \in kinds => ~None(r, kinds, t)
         /\ x.kind \in kinds /\ None(s, kinds, t) => OneFor(r, kinds, t, x.group)
         /\ \A g : x.kind \notin kinds /\ OneFor(s, kinds, t, g) => OneFor(r, kinds, t, g)
  <1>1. PICK n \in DOMAIN r :
            /\ r[n] = x
            /\ \A i \in DOMAIN s : s[i].topic = t => i < n
            /\ \A i \in DOMAIN r : r[i].topic = t => i = n \/ (i \in DOMAIN s /\ r[i] = s[i])
    BY DEF AddsOne
  <1>2. x.topic = t /\ \A i \in DOMAIN s : s[i].topic = t => i \in DOMAIN r /\ r[i] = s[i]
    BY DEF AddsOne
  <1>3. x.kind \notin kinds => (None(r, kinds, t) <=> None(s, kinds, t))
    BY <1>1, <1>2 DEF None, Match
  <1>4. x.kind \in kinds => ~None(r, kinds, t)
    BY <1>1, <1>2 DEF None, Match
  <1>5. x.kind \in kinds /\ None(s, kinds, t) => OneFor(r, kinds, t, x.group)
    BY <1>1, <1>2 DEF None, Match, OneFor
  <1>6. ASSUME NEW g, x.kind \notin kinds, OneFor(s, kinds, t, g) PROVE OneFor(r, kinds, t, g)
    <2>1. PICK i \in DOMAIN s : /\ Match(s[i], kinds, t) /\ s[i].group = g
                                /\ \A j \in DOMAIN s : Match(s[j], kinds, t) => j = i
      BY <1>6 DEF OneFor
    <2>2. i \in DOMAIN r /\ r[i] = s[i]
      BY <1>2, <2>1 DEF Match
    <2>3. ASSUME NEW j \in DOMAIN r, Match(r[j], kinds, t) PROVE j = i
      BY <1>1, <1>6, <2>1, <2>3 DEF Match
    <2> QED
      BY <2>1, <2>2, <2>3 DEF OneFor
  <1> QED
    BY <1>3, <1>4, <1>5, <1>6

LEMMA AddsLeaves ==
  ASSUME NEW S, NEW s \in Seq(S), NEW r \in Seq(S), NEW t, NEW x, AddsOne(s, r, t, x),
         LeavesFirst(s, t), x.kind = "subscribe" \/ None(s, Ask, t)
  PROVE  LeavesFirst(r, t)
  <1>1. PICK n \in DOMAIN r :
            /\ r[n] = x
            /\ \A i \in DOMAIN s : s[i].topic = t => i < n
            /\ \A i \in DOMAIN r : r[i].topic = t => i = n \/ (i \in DOMAIN s /\ r[i] = s[i])
    BY DEF AddsOne
  <1>2. ASSUME NEW i \in DOMAIN r, NEW j \in DOMAIN r, Match(r[i], Leave, t), Match(r[j], Ask, t)
        PROVE  i < j
    <2>1. CASE i = n
      BY <1>1, <1>2, <2>1 DEF Match, Leave, Ask, None
    <2>2. CASE i # n
      <3>1. i \in DOMAIN s /\ r[i] = s[i] /\ i < n
        BY <1>1, <1>2, <2>2 DEF Match
      <3>2. CASE j = n
        BY <3>1, <3>2
      <3>3. CASE j # n
        <4>1. j \in DOMAIN s /\ r[j] = s[j]
          BY <1>1, <1>2, <3>3 DEF Match
        <4> QED
          BY <1>2, <3>1, <4>1 DEF LeavesFirst
      <3> QED
        BY <3>2, <3>3
    <2> QED
      BY <2>1, <2>2
  <1> QED
    BY <1>2 DEF LeavesFirst

\* Where the streams are, after a frame is appended.
LEMMA AddsTelling ==
  ASSUME NEW S, NEW s \in Seq(S), NEW r \in Seq(S), NEW t, NEW x, AddsOne(s, r, t, x),
         x.kind \in Telling, x.kind \notin Ending
  PROVE  /\ Tells(r, t, x.pos) /\ BeginsTold(r, t, x.pos)
         /\ x.kind = "ack" => HasBegin(r, t)
         /\ x.kind # "ack" => (HasBegin(r, t) <=> HasBegin(s, t))
  <1>1. PICK n \in DOMAIN r :
            /\ r[n] = x
            /\ \A i \in DOMAIN s : s[i].topic = t => i < n
            /\ \A i \in DOMAIN r : r[i].topic = t => i = n \/ (i \in DOMAIN s /\ r[i] = s[i])
    BY DEF AddsOne
  <1>2. x.topic = t /\ \A i \in DOMAIN s : s[i].topic = t => i \in DOMAIN r /\ r[i] = s[i]
    BY DEF AddsOne
  <1>3. Match(r[n], Telling, t) /\ r[n].pos = x.pos /\ ~Match(r[n], Ending, t)
    BY <1>1, <1>2 DEF Match
  <1>4. ASSUME NEW i \in DOMAIN r, r[i].topic = t PROVE n >= i
    BY <1>1, <1>2, <1>4
  <1>5. Tells(r, t, x.pos) /\ BeginsTold(r, t, x.pos)
    BY <1>3, <1>4 DEF Tells, BeginsTold, Begins, Match
  <1>6. x.kind = "ack" => HasBegin(r, t)
    <2>1. ASSUME NEW j \in DOMAIN r, Match(r[j], Ending, t) PROVE j < n
      BY <1>1, <1>3, <2>1 DEF Match
    <2> QED
      BY <1>1, <1>2, <2>1 DEF HasBegin, Begins, Match
  <1>7. ASSUME x.kind # "ack" PROVE HasBegin(r, t) <=> HasBegin(s, t)
    <2>1. ASSUME NEW i \in DOMAIN s, s[i].topic = t PROVE Begins(r, i, t) <=> Begins(s, i, t)
      <3>1. i \in DOMAIN r /\ r[i] = s[i]
        BY <1>2, <2>1
      <3>2. \A j \in DOMAIN r : Match(r[j], Ending, t) => j \in DOMAIN s /\ Match(s[j], Ending, t)
        BY <1>1, <1>3 DEF Match
      <3>3. \A j \in DOMAIN s : Match(s[j], Ending, t) => j \in DOMAIN r /\ Match(r[j], Ending, t)
        BY <1>2 DEF Match
      <3> QED
        BY <3>1, <3>2, <3>3 DEF Begins
    <2>2. ~Begins(r, n, t)
      BY <1>1, <1>7 DEF Begins, Match
    <2>3. \A i \in DOMAIN r : Begins(r, i, t) => i \in DOMAIN s /\ s[i].topic = t
      BY <1>1, <2>2 DEF Begins, Match
    <2>4. \A i \in DOMAIN s : Begins(s, i, t) => i \in DOMAIN r /\ s[i].topic = t
      BY <1>2 DEF Begins, Match
    <2> QED
      BY <2>1, <2>3, <2>4 DEF HasBegin
  <1> QED
    BY <1>5, <1>6, <1>7

LEMMA AddsEnding ==
  ASSUME NEW S, NEW s \in Seq(S), NEW r \in Seq(S), NEW t, NEW x, AddsOne(s, r, t, x),
         x.kind \in Ending, NEW p
  PROVE  ~HasBegin(r, t) /\ BeginsTold(r, t, p)
  <1>1. PICK n \in DOMAIN r :
            /\ r[n] = x
            /\ \A i \in DOMAIN s : s[i].topic = t => i < n
            /\ \A i \in DOMAIN r : r[i].topic = t => i = n \/ (i \in DOMAIN s /\ r[i] = s[i])
    BY DEF AddsOne
  <1>2. Match(r[n], Ending, t)
    BY <1>1 DEF Match, AddsOne
  <1>3. ASSUME NEW i \in DOMAIN r, Begins(r, i, t) PROVE FALSE
    <2>1. n < i /\ r[i].topic = t
      BY <1>2, <1>3 DEF Begins, Match
    <2>2. i \in DOMAIN s /\ r[i] = s[i]
      BY <1>1, <2>1
    <2> QED
      BY <1>1, <2>1, <2>2
  <1> QED
    BY <1>3 DEF HasBegin, BeginsTold

\* An ack is on the way only while an answer is.
LEMMA BeginAnswers ==
  ASSUME NEW s, NEW t, NEW p
  PROVE  /\ None(s, Answer, t) => None(s, {"ack"}, t)
         /\ None(s, {"ack"}, t) => ~HasBegin(s, t) /\ BeginsTold(s, t, p)
  BY DEF None, Answer, HasBegin, BeginsTold, Begins, Match

\* The first frame, x, which is about t, is taken.
TakesOne(s, r, t, x) == s # <<>> /\ Head(s) = x /\ x.topic = t /\ r = Tail(s)

LEMMA TakesFacts ==
  ASSUME NEW S, NEW s \in Seq(S), NEW r, NEW t, NEW x, TakesOne(s, r, t, x)
  PROVE  /\ r \in Seq(S) /\ 1 \in DOMAIN s /\ s[1] = x /\ x.topic = t
         /\ \A i \in DOMAIN s : i \in Nat /\ i >= 1 /\ (i # 1 => i - 1 \in DOMAIN r /\ r[i - 1] = s[i])
         /\ \A i \in DOMAIN r : i \in Nat /\ i >= 1 /\ i + 1 \in DOMAIN s /\ r[i] = s[i + 1]
  <1>1. /\ r \in Seq(S) /\ Len(r) = Len(s) - 1 /\ Len(s) \in Nat
        /\ Len(s) >= 1 /\ Head(s) = s[1]
    BY DEF TakesOne
  <1>2. DOMAIN s = 1 .. Len(s) /\ DOMAIN r = 1 .. Len(s) - 1
    BY <1>1
  <1>3. \A i \in 1 .. Len(s) - 1 : r[i] = s[i + 1]
    BY <1>1 DEF TakesOne
  <1>4. ASSUME NEW i \in DOMAIN s
        PROVE  i \in Nat /\ i >= 1 /\ (i # 1 => i - 1 \in DOMAIN r /\ r[i - 1] = s[i])
    <2>1. i \in Nat /\ i >= 1 /\ (i # 1 => i - 1 \in 1 .. Len(s) - 1 /\ (i - 1) + 1 = i)
      BY <1>1, <1>2
    <2> QED
      BY <1>2, <1>3, <2>1
  <1>5. ASSUME NEW i \in DOMAIN r
        PROVE  i \in Nat /\ i >= 1 /\ i + 1 \in DOMAIN s /\ r[i] = s[i + 1]
    BY <1>1, <1>2, <1>3
  <1> QED
    BY <1>1, <1>2, <1>4, <1>5 DEF TakesOne

LEMMA TakesNone ==
  ASSUME NEW S, NEW s \in Seq(S), NEW r, NEW t, NEW x, TakesOne(s, r, t, x), NEW kinds
  PROVE  /\ x.kind \notin kinds => (None(r, kinds, t) <=> None(s, kinds, t))
         /\ x.kind \in kinds => ~None(s, kinds, t)
         /\ \A g : OneFor(s, kinds, t, g) =>
               IF x.kind \in kinds THEN x.group = g /\ None(r, kinds, t)
               ELSE OneFor(r, kinds, t, g)
  <1>0. /\ 1 \in DOMAIN s /\ s[1] = x /\ x.topic = t
        /\ \A i \in DOMAIN s : i \in Nat /\ i >= 1 /\ (i # 1 => i - 1 \in DOMAIN r /\ r[i - 1] = s[i])
        /\ \A i \in DOMAIN r : i \in Nat /\ i >= 1 /\ i + 1 \in DOMAIN s /\ r[i] = s[i + 1]
    BY TakesFacts
  <1>1. x.kind \notin kinds => (None(r, kinds, t) <=> None(s, kinds, t))
    BY <1>0 DEF None, Match
  <1>2. x.kind \in kinds => ~None(s, kinds, t)
    BY <1>0 DEF None, Match
  <1>3. ASSUME NEW g, OneFor(s, kinds, t, g)
        PROVE  IF x.kind \in kinds THEN x.group = g /\ None(r, kinds, t)
               ELSE OneFor(r, kinds, t, g)
    <2>1. PICK i \in DOMAIN s : /\ Match(s[i], kinds, t) /\ s[i].group = g
                                /\ \A j \in DOMAIN s : Match(s[j], kinds, t) => j = i
      BY <1>3 DEF OneFor
    <2>2. CASE x.kind \in kinds
      <3>1. i = 1
        BY <1>0, <2>1, <2>2 DEF Match
      <3>2. ASSUME NEW j \in DOMAIN r, Match(r[j], kinds, t) PROVE FALSE
        <4>1. j + 1 = 1
          BY <1>0, <2>1, <3>1, <3>2
        <4> QED
          BY <1>0, <4>1
      <3> QED
        BY <1>0, <2>1, <2>2, <3>1, <3>2 DEF None
    <2>3. CASE x.kind \notin kinds
      <3>1. i # 1
        BY <1>0, <2>1, <2>3 DEF Match
      <3>2. i - 1 \in DOMAIN r /\ r[i - 1] = s[i]
        BY <1>0, <3>1
      <3>3. ASSUME NEW j \in DOMAIN r, Match(r[j], kinds, t) PROVE j = i - 1
        <4>1. j + 1 = i
          BY <1>0, <2>1, <3>3
        <4> QED
          BY <1>0, <4>1
      <3> QED
        BY <2>1, <2>3, <3>2, <3>3 DEF OneFor
    <2> QED
      BY <2>2, <2>3
  <1> QED
    BY <1>1, <1>2, <1>3

LEMMA TakesLeaves ==
  ASSUME NEW S, NEW s \in Seq(S), NEW r, NEW t, NEW x, TakesOne(s, r, t, x), LeavesFirst(s, t)
  PROVE  LeavesFirst(r, t) /\ (x.kind = "subscribe" => None(s, Leave, t))
  <1>0. /\ 1 \in DOMAIN s /\ s[1] = x /\ x.topic = t
        /\ \A i \in DOMAIN s : i \in Nat /\ i >= 1
        /\ \A i \in DOMAIN r : i \in Nat /\ i >= 1 /\ i + 1 \in DOMAIN s /\ r[i] = s[i + 1]
    BY TakesFacts
  <1>1. ASSUME NEW i \in DOMAIN r, NEW j \in DOMAIN r, Match(r[i], Leave, t), Match(r[j], Ask, t)
        PROVE  i < j
    <2>1. i + 1 < j + 1
      BY <1>0, <1>1 DEF LeavesFirst
    <2> QED
      BY <1>0, <2>1
  <1>2. ASSUME x.kind = "subscribe", NEW i \in DOMAIN s, Match(s[i], Leave, t) PROVE FALSE
    <2>1. Match(s[1], Ask, t)
      BY <1>0, <1>2 DEF Match, Ask
    <2>2. i < 1
      BY <1>0, <1>2, <2>1 DEF LeavesFirst
    <2> QED
      BY <1>0, <2>2
  <1> QED
    BY <1>1, <1>2 DEF LeavesFirst, None

\* A frame is taken: what the others tell is still told, unless it was an ack.
LEMMA TakesTold ==
  ASSUME NEW S, NEW s \in Seq(S), NEW r, NEW t, NEW x, TakesOne(s, r, t, x), NEW p
  PROVE  /\ Tells(s, t, p) => Tells(r, t, p) \/ (x.kind \in Telling /\ x.pos = p)
         /\ x.kind # "ack" => /\ HasBegin(r, t) <=> HasBegin(s, t)
                              /\ BeginsTold(s, t, p) => BeginsTold(r, t, p)
  <1>0. /\ 1 \in DOMAIN s /\ s[1] = x /\ x.topic = t
        /\ \A i \in DOMAIN s : i \in Nat /\ i >= 1 /\ (i # 1 => i - 1 \in DOMAIN r /\ r[i - 1] = s[i])
        /\ \A i \in DOMAIN r : i \in Nat /\ i >= 1 /\ i + 1 \in DOMAIN s /\ r[i] = s[i + 1]
    BY TakesFacts
  <1>1. Tells(s, t, p) => Tells(r, t, p) \/ (x.kind \in Telling /\ x.pos = p)
    BY <1>0 DEF Tells, Match
  <1>2. ASSUME NEW i \in DOMAIN r PROVE Begins(r, i, t) <=> Begins(s, i + 1, t)
    <2>1. r[i] = s[i + 1] /\ i \in Nat /\ i >= 1
      BY <1>0
    <2>2. ASSUME Begins(r, i, t), NEW j \in DOMAIN s, Match(s[j], Ending, t) PROVE j < i + 1
      <3>1. CASE j = 1
        BY <2>1, <3>1
      <3>2. CASE j # 1
        <4>1. j - 1 \in DOMAIN r /\ r[j - 1] = s[j] /\ j \in Nat
          BY <1>0, <3>2
        <4>2. j - 1 < i
          BY <2>2, <4>1 DEF Begins
        <4> QED
          BY <2>1, <4>1, <4>2
      <3> QED
        BY <3>1, <3>2
    <2>3. ASSUME Begins(s, i + 1, t), NEW j \in DOMAIN r, Match(r[j], Ending, t) PROVE j < i
      <3>1. j + 1 \in DOMAIN s /\ r[j] = s[j + 1] /\ j \in Nat
        BY <1>0
      <3>2. j + 1 < i + 1
        BY <2>3, <3>1 DEF Begins
      <3> QED
        BY <2>1, <3>1, <3>2
    <2> QED
      BY <2>1, <2>2, <2>3 DEF Begins
  <1>3. ASSUME x.kind # "ack", NEW i \in DOMAIN s, Begins(s, i, t)
        PROVE  i - 1 \in DOMAIN r /\ Begins(r, i - 1, t)
    <2>1. i # 1
      BY <1>0, <1>3 DEF Begins, Match
    <2>2. i - 1 \in DOMAIN r /\ (i - 1) + 1 = i
      BY <1>0, <2>1
    <2> QED
      BY <1>2, <1>3, <2>2
  <1>4. x.kind # "ack" => (HasBegin(r, t) <=> HasBegin(s, t))
    BY <1>0, <1>2, <1>3 DEF HasBegin
  <1>5. ASSUME BeginsTold(s, t, p), NEW i \in DOMAIN r, Begins(r, i, t)
        PROVE  \E j \in DOMAIN r : j >= i /\ Match(r[j], Telling, t) /\ r[j].pos = p
    <2>1. i + 1 \in DOMAIN s /\ Begins(s, i + 1, t)
      BY <1>0, <1>2, <1>5
    <2>2. PICK j \in DOMAIN s : j >= i + 1 /\ Match(s[j], Telling, t) /\ s[j].pos = p
      BY <1>5, <2>1 DEF BeginsTold
    <2>3. j - 1 \in DOMAIN r /\ r[j - 1] = s[j] /\ j - 1 >= i
      <3>1. i \in Nat /\ i >= 1 /\ j \in Nat
        BY <1>0
      <3>2. j # 1 /\ j - 1 >= i
        BY <2>2, <3>1
      <3> QED
        BY <1>0, <3>2
    <2> QED
      BY <2>2, <2>3
  <1> QED
    BY <1>1, <1>4, <1>5 DEF BeginsTold

\* The answer is taken.
LEMMA TakesAnswer ==
  ASSUME NEW S, NEW s \in Seq(S), NEW r, NEW t, NEW x, TakesOne(s, r, t, x), NEW p, NEW g,
         OneFor(s, Answer, t, g), x.kind \in Answer
  PROVE  /\ HasBegin(s, t) => x.kind = "ack" /\ None(s, Ending, t)
         /\ x.kind = "ack" /\ None(s, Ending, t) => HasBegin(s, t)
         /\ x.kind = "ack" /\ None(s, Ending, t) /\ BeginsTold(s, t, p) =>
               Tells(r, t, p) \/ x.pos = p
  <1>0. /\ 1 \in DOMAIN s /\ s[1] = x /\ x.topic = t
        /\ \A i \in DOMAIN s : i \in Nat /\ i >= 1 /\ (i # 1 => i - 1 \in DOMAIN r /\ r[i - 1] = s[i])
        /\ \A i \in DOMAIN r : i \in Nat /\ i >= 1 /\ i + 1 \in DOMAIN s /\ r[i] = s[i + 1]
    BY TakesFacts
  <1>1. ASSUME NEW i \in DOMAIN s, Match(s[i], Answer, t) PROVE i = 1
    BY <1>0, <1>1 DEF OneFor, Match
  <1>2. ASSUME HasBegin(s, t) PROVE x.kind = "ack" /\ None(s, Ending, t)
    <2>1. PICK i \in DOMAIN s : Begins(s, i, t)
      BY <1>2 DEF HasBegin
    <2>2. i = 1
      BY <1>1, <2>1 DEF Begins, Match, Answer
    <2>3. x.kind = "ack"
      BY <1>0, <2>1, <2>2 DEF Begins, Match
    <2>4. ASSUME NEW j \in DOMAIN s, Match(s[j], Ending, t) PROVE FALSE
      <3>1. j < 1
        BY <2>1, <2>2, <2>4 DEF Begins
      <3> QED
        BY <1>0, <3>1
    <2> QED
      BY <2>3, <2>4 DEF None
  <1>3. x.kind = "ack" /\ None(s, Ending, t) => Begins(s, 1, t)
    BY <1>0 DEF Begins, None, Match
  <1>4. ASSUME Begins(s, 1, t), BeginsTold(s, t, p) PROVE Tells(r, t, p) \/ x.pos = p
    <2>1. Tells(s, t, p)
      BY <1>0, <1>4 DEF BeginsTold, Tells
    <2> QED
      BY <2>1, TakesTold
  <1> QED
    BY <1>0, <1>2, <1>3, <1>4 DEF HasBegin

\* How sequences change.
LEMMA SameRefl ==
  ASSUME NEW S, NEW s \in Seq(S), NEW t
  PROVE  SameFor(s, s, t, 0)
  BY DEF SameFor

LEMMA AppendAdds ==
  ASSUME NEW S, NEW s \in Seq(S), NEW x \in S, NEW t
  PROVE  /\ Append(s, x) \in Seq(S)
         /\ x.topic = t => AddsOne(s, Append(s, x), t, x)
         /\ x.topic # t => SameFor(s, Append(s, x), t, 0)
  <1> DEFINE r == Append(s, x)
             n == Len(s) + 1
  <1>1. /\ r \in Seq(S) /\ Len(r) = n /\ Len(s) \in Nat /\ r[n] = x
        /\ \A i \in 1 .. Len(s) : r[i] = s[i]
        /\ DOMAIN s = 1 .. Len(s) /\ DOMAIN r = 1 .. Len(s) + 1
    OBVIOUS
  <1> HIDE DEF r
  <1>2. ASSUME NEW i \in DOMAIN s
        PROVE  i \in DOMAIN r /\ r[i] = s[i] /\ i < n /\ i - 0 = i
    BY <1>1
  <1>3. n \in DOMAIN r /\ \A i \in DOMAIN r : i + 0 = i /\ (i = n \/ i \in DOMAIN s)
    BY <1>1
  <1>4. x.topic = t => AddsOne(s, r, t, x)
    BY <1>1, <1>2, <1>3 DEF AddsOne
  <1>5. x.topic # t => SameFor(s, r, t, 0)
    BY <1>1, <1>2, <1>3 DEF SameFor
  <1> QED
    BY <1>1, <1>4, <1>5 DEF r

LEMMA TailSame ==
  ASSUME NEW S, NEW s \in Seq(S), s # <<>>, NEW t, Head(s).topic # t
  PROVE  SameFor(s, Tail(s), t, 1)
  <1> DEFINE r == Tail(s)
             x == Head(s)
  <1>1. TakesOne(s, r, x.topic, x)
    BY DEF TakesOne
  <1>2. /\ 1 \in DOMAIN s /\ s[1] = x
        /\ \A i \in DOMAIN s : i \in Nat /\ i >= 1 /\ (i # 1 => i - 1 \in DOMAIN r /\ r[i - 1] = s[i])
        /\ \A i \in DOMAIN r : i \in Nat /\ i >= 1 /\ i + 1 \in DOMAIN s /\ r[i] = s[i + 1]
    BY <1>1, TakesFacts
  <1> HIDE DEF r, x
  <1>3. SameFor(s, r, t, 1)
    BY <1>2 DEF SameFor, x
  <1> QED
    BY <1>3 DEF r

\* What a handler wrote is nothing, or one frame.
LEMMA WroteFacts ==
  ASSUME NEW s \in Seq(Asked), NEW o, o = <<>> \/ \E x \in Asked : o = Append(<<>>, x)
  PROVE  \/ o = <<>> /\ s \o o = s
         \/ \E x \in Asked : o = Append(<<>>, x) /\ s \o o = Append(s, x)
  <1>1. s \o <<>> = s
    OBVIOUS
  <1>2. ASSUME NEW x \in Asked PROVE s \o Append(<<>>, x) = Append(s, x)
    OBVIOUS
  <1> QED
    BY <1>1, <1>2

-----------------------------------------------------------------------------
\* What a step does to the sides of a topic.

\* d is c, as far as the topic t is concerned.
Elsewhere(c, d, t, K) ==
  /\ d.byTopic[t] = c.byTopic[t]
  /\ \A k \in Key : TopicOf[k] = t => d.groups[k] = c.groups[k]
  /\ \A g \in Gid : TopicOfGroup(d, g) = t => d.grp[g] = c.grp[g]
  /\ \A g \in K : TopicOfGroup(c, g) = t => d.grp[g] = c.grp[g]

LEMMA ElsewhereRefl ==
  ASSUME NEW c, NEW t, NEW K
  PROVE  Elsewhere(c, c, t, K)
  BY DEF Elsewhere

LEMMA ElsewhereFacts ==
  ASSUME NEW c \in Client, NEW d, NEW K \in SUBSET Gid, Linked(c, K), NEW t \in Topic,
         Elsewhere(c, d, t, K), NEW tk \in SUBSET K
  PROVE  /\ Free(c, t) => Free(d, t)
         /\ \A g \in Gid : Waits(c, t, g) => Waits(d, t, g)
         /\ NoTask(c, tk, t) => NoTask(d, tk, t)
         /\ \A g \in Gid : OneTask(c, tk, t, g) => OneTask(d, tk, t, g)
         /\ Named(c, t) => Named(d, t)
         /\ d.byTopic[t] = c.byTopic[t]
         /\ c.byTopic[t] # 0 => d.grp[c.byTopic[t]].at = c.grp[c.byTopic[t]].at
  <1>1. Free(c, t) => Free(d, t)
    BY DEF Free, Elsewhere, TopicOfGroup
  <1>2. ASSUME NEW g \in Gid, Waits(c, t, g) PROVE Waits(d, t, g)
    <2>1. c.grp[g].key \in Key /\ g # 0 /\ TopicOf[c.grp[g].key] = t
          /\ c.groups[c.grp[g].key] = g
      BY <1>2, ClientFields DEF Waits, Gid, TopicOfGroup
    <2>2. g \in K
      BY <2>1 DEF Linked
    <2>3. d.grp[g] = c.grp[g] /\ d.groups[c.grp[g].key] = g
      BY <1>2, <2>1, <2>2 DEF Elsewhere, Waits
    <2>4. \A h \in Gid : d.grp[h].pending /\ TopicOfGroup(d, h) = t => h = g
      BY <1>2 DEF Elsewhere, Waits, TopicOfGroup
    <2> QED
      BY <1>2, <2>1, <2>3, <2>4 DEF Waits, Elsewhere, TopicOfGroup
  <1>3. \A h \in K : TopicOfGroup(d, h) = t <=> TopicOfGroup(c, h) = t
    BY DEF Elsewhere, TopicOfGroup
  <1>4. NoTask(c, tk, t) => NoTask(d, tk, t)
    BY <1>3 DEF NoTask
  <1>5. \A g \in Gid : OneTask(c, tk, t, g) => OneTask(d, tk, t, g)
    BY <1>3 DEF OneTask
  <1>6. c.byTopic[t] # 0 => d.grp[c.byTopic[t]] = c.grp[c.byTopic[t]]
    BY DEF Linked, Elsewhere
  <1>7. ASSUME NEW k \in Key, TopicOf[k] = t, d.groups[k] # 0
        PROVE  d.groups[k] = c.groups[k] /\ d.grp[c.groups[k]] = c.grp[c.groups[k]]
    <2>1. d.groups[k] = c.groups[k]
      BY <1>7 DEF Elsewhere
    <2>2. c.groups[k] \in K /\ TopicOfGroup(c, c.groups[k]) = t
      BY <1>7, <2>1 DEF Linked, TopicOfGroup
    <2> QED
      BY <2>1, <2>2 DEF Elsewhere
  <1>8. d.byTopic[t] = c.byTopic[t]
    BY DEF Elsewhere
  <1>9. Named(c, t) => Named(d, t)
    BY <1>6, <1>7, <1>8 DEF Named
  <1> QED
    BY <1>1, <1>2, <1>4, <1>5, <1>6, <1>8, <1>9

\* A step that is not about t keeps its sides.
LEMMA SideElsewhere ==
  ASSUME NEW c \in Client, NEW d, NEW K \in SUBSET Gid, Linked(c, K), NEW t \in Topic,
         Elsewhere(c, d, t, K), NEW tk \in SUBSET K, NEW tl \in SUBSET K,
         \A h \in K : TopicOfGroup(c, h) = t => (h \in tl <=> h \in tk),
         NEW up \in Seq(Asked), NEW uq \in Seq(Asked), NEW i \in Nat, SameFor(up, uq, t, i),
         NEW down \in Seq(Sent), NEW dq \in Seq(Sent), NEW j \in Nat, SameFor(down, dq, t, j),
         NEW m, NEW p, Side(c, up, tk, down, m, p, t)
  PROVE  Side(d, uq, tl, dq, m, p, t)
  <1>1. /\ None(uq, Ask, t) <=> None(up, Ask, t)
        /\ None(uq, Leave, t) <=> None(up, Leave, t)
        /\ \A g : OneFor(up, Ask, t, g) => OneFor(uq, Ask, t, g)
        /\ LeavesFirst(up, t) => LeavesFirst(uq, t)
    BY SameNone, SameOne, SameLeaves
  <1>2. /\ None(dq, Answer, t) <=> None(down, Answer, t)
        /\ None(dq, Ending, t) <=> None(down, Ending, t)
        /\ \A g : OneFor(down, Answer, t, g) => OneFor(dq, Answer, t, g)
        /\ HasBegin(dq, t) <=> HasBegin(down, t)
        /\ Tells(down, t, p) => Tells(dq, t, p)
        /\ BeginsTold(down, t, p) => BeginsTold(dq, t, p)
    BY SameNone, SameOne, SameTold
  <1>3. /\ NoTask(c, tk, t) => NoTask(c, tl, t)
        /\ \A g : OneTask(c, tk, t, g) /\ TopicOfGroup(c, g) = t => OneTask(c, tl, t, g)
    <2>1. NoTask(c, tk, t) => NoTask(c, tl, t)
      BY DEF NoTask
    <2>2. ASSUME NEW g, OneTask(c, tk, t, g), TopicOfGroup(c, g) = t PROVE OneTask(c, tl, t, g)
      BY <2>2 DEF OneTask
    <2> QED
      BY <2>1, <2>2
  <1>4. /\ Free(c, t) => Free(d, t)
        /\ \A g \in Gid : Waits(c, t, g) => Waits(d, t, g)
        /\ NoTask(c, tl, t) => NoTask(d, tl, t)
        /\ \A g \in Gid : OneTask(c, tl, t, g) => OneTask(d, tl, t, g)
        /\ Named(c, t) => Named(d, t)
        /\ d.byTopic[t] = c.byTopic[t]
        /\ c.byTopic[t] # 0 => d.grp[c.byTopic[t]].at = c.grp[c.byTopic[t]].at
    BY ElsewhereFacts, ZenonT(60)
  <1>5. Resting(c, up, tk, down, t) => Resting(d, uq, tl, dq, t)
    BY <1>1, <1>2, <1>3, <1>4 DEF Resting
  <1>6. \A g \in Gid : Asking(c, up, tk, down, t, g) => Asking(d, uq, tl, dq, t, g)
    <2>1. \A g \in Gid : Waits(c, t, g) => TopicOfGroup(c, g) = t
      BY DEF Waits
    <2> QED
      BY <1>1, <1>2, <1>3, <1>4, <2>1 DEF Asking
  <1>7. Cleared(d, uq, tl, dq, t)
    BY <1>1, <1>2, <1>3, <1>4 DEF Cleared, Side
  <1>8. Matched(d, uq, dq, m, p, t)
    BY <1>1, <1>2, <1>4 DEF Matched, Side, Sure
  <1> QED
    BY <1>4, <1>5, <1>6, <1>7, <1>8 DEF Side

\* The hub's steps about t.

\* A subscribe is read: its task is the only one.
LEMMA SideReadsAsk ==
  ASSUME NEW c \in Client, NEW t \in Topic, NEW tk \in SUBSET Gid,
         NEW up \in Seq(Asked), NEW uq, NEW x, TakesOne(up, uq, t, x), x.kind = "subscribe",
         NEW down \in Seq(Sent), NEW m, NEW p, Side(c, up, tk, down, m, p, t)
  PROVE  /\ x.group \in Gid /\ TopicOfGroup(c, x.group) = t
         /\ Side(c, uq, tk \union {x.group}, down, m, p, t)
  <1>1. /\ x.kind \in Ask /\ x.kind \notin Leave
        /\ ~None(up, Ask, t)
        /\ \A g : OneFor(up, Ask, t, g) => x.group = g /\ None(uq, Ask, t)
        /\ None(uq, Leave, t) <=> None(up, Leave, t)
        /\ LeavesFirst(uq, t) /\ None(up, Leave, t)
    <2>1. x.kind \in Ask /\ x.kind \notin Leave
      BY DEF Ask, Leave
    <2>2. LeavesFirst(up, t)
      BY DEF Side, Cleared
    <2> QED
      BY <2>1, <2>2, TakesNone, TakesLeaves
  <1>2. PICK g \in Gid : Asking(c, up, tk, down, t, g)
    BY <1>1 DEF Side, Resting
  <1>3. OneFor(up, Ask, t, g) /\ NoTask(c, tk, t) /\ None(down, Answer, t) /\ Waits(c, t, g)
    BY <1>1, <1>2 DEF Asking
  <1>4. x.group = g /\ None(uq, Ask, t) /\ TopicOfGroup(c, g) = t
    BY <1>1, <1>3 DEF Waits
  <1>5. OneTask(c, tk \union {g}, t, g)
    BY <1>3, <1>4 DEF NoTask, OneTask
  <1>6. Asking(c, uq, tk \union {g}, down, t, g)
    BY <1>3, <1>4, <1>5 DEF Asking
  <1>7. Cleared(c, uq, tk \union {g}, down, t)
    BY <1>1 DEF Cleared
  <1>8. Matched(c, uq, down, m, p, t)
    BY <1>1 DEF Matched, Side
  <1> QED
    BY <1>4, <1>6, <1>7, <1>8 DEF Side

\* An unsubscribe is done.
LEMMA SideReadsLeave ==
  ASSUME NEW c \in Client, NEW t \in Topic, NEW tk \in SUBSET Gid,
         NEW up \in Seq(Asked), NEW uq, NEW x, TakesOne(up, uq, t, x), x.kind = "unsubscribe",
         NEW down \in Seq(Sent), NEW m, NEW p, Side(c, up, tk, down, m, p, t)
  PROVE  Side(c, uq, tk, down, "no", p, t)
  <1>1. /\ ~None(up, Leave, t) /\ LeavesFirst(uq, t)
        /\ None(uq, Ask, t) <=> None(up, Ask, t)
        /\ \A g : OneFor(up, Ask, t, g) => OneFor(uq, Ask, t, g)
    <2>1. x.kind \notin Ask /\ x.kind \in Leave
      BY DEF Ask, Leave
    <2>2. LeavesFirst(up, t)
      BY DEF Side, Cleared
    <2> QED
      BY <2>1, <2>2, TakesNone, TakesLeaves
  <1>2. c.byTopic[t] = 0 /\ NoTask(c, tk, t) /\ None(down, Answer, t)
    BY <1>1 DEF Side, Cleared
  <1>3. ~HasBegin(down, t) /\ BeginsTold(down, t, p)
    BY <1>2, BeginAnswers
  <1>4. Matched(c, uq, down, "no", p, t)
    BY <1>2, <1>3 DEF Matched, Sure
  <1>5. Cleared(c, uq, tk, down, t)
    BY <1>1, <1>2 DEF Cleared
  <1>6. Resting(c, up, tk, down, t) => Resting(c, uq, tk, down, t)
    BY <1>1 DEF Resting
  <1>7. \A g \in Gid : Asking(c, up, tk, down, t, g) => Asking(c, uq, tk, down, t, g)
    BY <1>1 DEF Asking
  <1> QED
    BY <1>4, <1>5, <1>6, <1>7 DEF Side

\* A task is over: its answer is the only one, and nothing says otherwise.
LEMMA SideAnswers ==
  ASSUME NEW c \in Client, NEW t \in Topic, NEW tk \in SUBSET Gid, NEW g \in tk,
         TopicOfGroup(c, g) = t, NEW up \in Seq(Asked),
         NEW down \in Seq(Sent), NEW dq \in Seq(Sent), NEW x, AddsOne(down, dq, t, x),
         x.kind \in Answer, x.group = g, NEW m, NEW p, Side(c, up, tk, down, m, p, t)
  PROVE  /\ x.kind = "error" => Side(c, up, tk \ {g}, dq, m, p, t)
         /\ x.kind = "ack" /\ x.pos = p =>
               \A n : n # "no" => Side(c, up, tk \ {g}, dq, n, p, t)
  <1>1. PICK h \in Gid : Asking(c, up, tk, down, t, h)
    BY DEF Side, Resting, NoTask
  <1>2. /\ None(up, Ask, t) /\ OneTask(c, tk, t, h) /\ None(down, Answer, t)
        /\ Waits(c, t, h)
    BY <1>1 DEF Asking, NoTask
  <1>3. h = g
    BY <1>2 DEF OneTask
  <1>4. NoTask(c, tk \ {g}, t) /\ ~NoTask(c, tk, t)
    BY <1>2, <1>3 DEF OneTask, NoTask
  <1>5. OneFor(dq, Answer, t, g)
    BY <1>2, AddsNone
  <1>6. Asking(c, up, tk \ {g}, dq, t, g) /\ g \in Gid /\ c.byTopic[t] = 0
    BY <1>2, <1>3, <1>4, <1>5 DEF Asking, Waits
  <1>7. None(up, Leave, t) /\ Cleared(c, up, tk \ {g}, dq, t) /\ Named(c, t)
    BY <1>4 DEF Side, Cleared
  <1>8. ASSUME x.kind = "error" PROVE Matched(c, up, dq, m, p, t)
    <2>1. None(down, {"ack"}, t)
      BY <1>2, BeginAnswers
    <2>2. None(dq, {"ack"}, t)
      BY <1>8, <2>1, AddsNone
    <2>3. ~HasBegin(dq, t) /\ BeginsTold(dq, t, p) /\ ~HasBegin(down, t)
      BY <2>1, <2>2, BeginAnswers
    <2> QED
      BY <1>6, <1>7, <2>3 DEF Side, Matched, Sure
  <1>9. ASSUME x.kind = "ack", x.pos = p, NEW n, n # "no" PROVE Matched(c, up, dq, n, p, t)
    <2>1. x.kind \in Telling /\ x.kind \notin Ending
      BY <1>9 DEF Telling, Ending
    <2>2. HasBegin(dq, t) /\ BeginsTold(dq, t, p)
      BY <1>9, <2>1, AddsTelling
    <2> QED
      BY <1>6, <1>9, <2>2 DEF Matched, Sure
  <1> QED
    BY <1>6, <1>7, <1>8, <1>9 DEF Side

\* A member is told where its topic is.
LEMMA SideTells ==
  ASSUME NEW c \in Client, NEW t \in Topic, NEW tk \in SUBSET Gid, NEW up \in Seq(Asked),
         NEW down \in Seq(Sent), NEW dq \in Seq(Sent), NEW x, AddsOne(down, dq, t, x),
         x.kind \in {"publish", "reset"}, NEW m, m # "no", NEW p,
         Side(c, up, tk, down, m, p, t)
  PROVE  Side(c, up, tk, dq, m, x.pos, t)
  <1>1. x.kind \in Telling /\ x.kind \notin Ending /\ x.kind \notin Answer /\ x.kind # "ack"
    BY DEF Telling, Ending, Answer
  <1>2. /\ None(dq, Answer, t) <=> None(down, Answer, t)
        /\ None(dq, Ending, t) <=> None(down, Ending, t)
        /\ \A g : OneFor(down, Answer, t, g) => OneFor(dq, Answer, t, g)
    BY <1>1, AddsNone
  <1>3. /\ HasBegin(dq, t) <=> HasBegin(down, t)
        /\ Tells(dq, t, x.pos) /\ BeginsTold(dq, t, x.pos)
    BY <1>1, AddsTelling
  <1>4. Resting(c, up, tk, down, t) => Resting(c, up, tk, dq, t)
    BY <1>2 DEF Resting
  <1>5. \A g \in Gid : Asking(c, up, tk, down, t, g) => Asking(c, up, tk, dq, t, g)
    BY <1>2 DEF Asking
  <1>6. Cleared(c, up, tk, dq, t)
    BY <1>2 DEF Side, Cleared
  <1>7. Matched(c, up, dq, m, x.pos, t)
    BY <1>2, <1>3 DEF Side, Matched, Sure
  <1> QED
    BY <1>4, <1>5, <1>6, <1>7 DEF Side

\* A member is told that it no longer is.
LEMMA SideEnds ==
  ASSUME NEW c \in Client, NEW t \in Topic, NEW tk \in SUBSET Gid, NEW up \in Seq(Asked),
         NEW down \in Seq(Sent), NEW dq \in Seq(Sent), NEW x, AddsOne(down, dq, t, x),
         x.kind \in Ending, NEW m, NEW p, Side(c, up, tk, down, m, p, t), NEW q
  PROVE  Side(c, up, tk, dq, "no", q, t)
  <1>1. x.kind \notin Answer
    BY DEF Ending, Answer
  <1>2. /\ None(dq, Answer, t) <=> None(down, Answer, t)
        /\ ~None(dq, Ending, t)
        /\ \A g : OneFor(down, Answer, t, g) => OneFor(dq, Answer, t, g)
    BY <1>1, AddsNone
  <1>3. ~HasBegin(dq, t) /\ BeginsTold(dq, t, q)
    BY AddsEnding
  <1>4. Resting(c, up, tk, down, t) => Resting(c, up, tk, dq, t)
    BY <1>2 DEF Resting
  <1>5. \A g \in Gid : Asking(c, up, tk, down, t, g) => Asking(c, up, tk, dq, t, g)
    BY <1>2 DEF Asking
  <1>6. Cleared(c, up, tk, dq, t)
    BY <1>2 DEF Side, Cleared
  <1>7. Matched(c, up, dq, "no", q, t)
    BY <1>2, <1>3 DEF Matched, Sure
  <1> QED
    BY <1>4, <1>5, <1>6, <1>7 DEF Side

\* A topic the connection is no member of may move, or be given to it.
LEMMA SideAbsent ==
  ASSUME NEW c, NEW t, NEW tk, NEW up, NEW down, NEW p, Side(c, up, tk, down, "no", p, t), NEW q
  PROVE  Side(c, up, tk, down, "no", q, t) /\ Side(c, up, tk, down, "auto", q, t)
  <1>1. ~Sure(c, down, t) /\ ~HasBegin(down, t)
    BY DEF Side, Matched
  <1>2. BeginsTold(down, t, q)
    BY <1>1 DEF HasBegin, BeginsTold
  <1> QED
    BY <1>1, <1>2 DEF Side, Matched

\* The client's steps about t.

\* It asks for t.
LEMMA SideAsks ==
  ASSUME NEW d, NEW t, NEW tk, NEW up \in Seq(Asked), NEW uq \in Seq(Asked), NEW x,
         AddsOne(up, uq, t, x), x.kind = "subscribe", NEW g \in Gid, x.group = g,
         Waits(d, t, g), Named(d, t), NoTask(d, tk, t), None(up, Ask, t), LeavesFirst(up, t),
         NEW dq, None(dq, Answer, t), NEW m, NEW p, m = "explicit" => ~None(up, Leave, t)
  PROVE  Side(d, uq, tk, dq, m, p, t)
  <1>1. x.kind \in Ask /\ x.kind \notin Leave
    BY DEF Ask, Leave
  <1>2. OneFor(uq, Ask, t, g) /\ (None(uq, Leave, t) <=> None(up, Leave, t))
    BY <1>1, AddsNone
  <1>3. LeavesFirst(uq, t)
    BY AddsLeaves
  <1>4. ~HasBegin(dq, t) /\ BeginsTold(dq, t, p) /\ d.byTopic[t] = 0
    BY BeginAnswers DEF Waits
  <1>5. Asking(d, uq, tk, dq, t, g)
    BY <1>2 DEF Asking
  <1>6. Cleared(d, uq, tk, dq, t)
    BY <1>3, <1>4 DEF Cleared
  <1>7. Matched(d, uq, dq, m, p, t)
    BY <1>2, <1>4 DEF Matched, Sure
  <1> QED
    BY <1>5, <1>6, <1>7 DEF Side

\* It has nothing of t any more, and tells the server so, or need not.
Gone(d, up, tk, dq, t) ==
  /\ Free(d, t) /\ Named(d, t) /\ d.byTopic[t] = 0
  /\ NoTask(d, tk, t) /\ None(up, Ask, t) /\ LeavesFirst(up, t) /\ None(dq, Answer, t)

LEMMA SideReleases ==
  ASSUME NEW d, NEW t, NEW tk, NEW up \in Seq(Asked), NEW uq \in Seq(Asked), NEW x,
         AddsOne(up, uq, t, x), x.kind = "unsubscribe", NEW dq, Gone(d, up, tk, dq, t),
         NEW m, NEW p
  PROVE  Side(d, uq, tk, dq, m, p, t)
  <1>1. x.kind \notin Ask /\ x.kind \in Leave
    BY DEF Ask, Leave
  <1>2. None(uq, Ask, t) /\ ~None(uq, Leave, t)
    BY <1>1, AddsNone DEF Gone
  <1>3. LeavesFirst(uq, t)
    BY AddsLeaves DEF Gone
  <1>4. ~HasBegin(dq, t) /\ BeginsTold(dq, t, p) /\ d.byTopic[t] = 0
    BY BeginAnswers DEF Gone
  <1>5. Resting(d, uq, tk, dq, t)
    BY <1>2 DEF Resting, Gone
  <1>6. Cleared(d, uq, tk, dq, t)
    BY <1>3 DEF Cleared, Gone
  <1>7. Matched(d, uq, dq, m, p, t)
    BY <1>2, <1>4 DEF Matched, Sure
  <1> QED
    BY <1>5, <1>6, <1>7 DEF Side, Gone

LEMMA SideDrops ==
  ASSUME NEW d, NEW t, NEW tk, NEW up, NEW dq, Gone(d, up, tk, dq, t),
         NEW m, NEW p, m = "explicit" => ~None(up, Leave, t)
  PROVE  Side(d, up, tk, dq, m, p, t)
  <1>1. ~HasBegin(dq, t) /\ BeginsTold(dq, t, p) /\ d.byTopic[t] = 0
    BY BeginAnswers DEF Gone
  <1>2. Resting(d, up, tk, dq, t) /\ Cleared(d, up, tk, dq, t)
    BY DEF Resting, Cleared, Gone
  <1>3. Matched(d, up, dq, m, p, t)
    BY <1>1 DEF Matched, Sure
  <1> QED
    BY <1>2, <1>3 DEF Side, Gone

\* It is told where its topic is.
LEMMA SideHears ==
  ASSUME NEW c, NEW d, NEW t, NEW tk, NEW up, NEW down \in Seq(Sent), NEW dq, NEW x,
         TakesOne(down, dq, t, x), x.kind \in {"publish", "reset"},
         c.byTopic[t] # 0, d.byTopic[t] = c.byTopic[t], d.grp[c.byTopic[t]].at = x.pos,
         Free(c, t) => Free(d, t), NoTask(c, tk, t) => NoTask(d, tk, t), Named(d, t),
         NEW m, NEW p, c.grp[c.byTopic[t]].at = p => x.pos = p,
         Side(c, up, tk, down, m, p, t)
  PROVE  Side(d, up, tk, dq, m, p, t)
  <1>1. x.kind \notin Answer /\ x.kind \notin Ending /\ x.kind # "ack"
    BY DEF Answer, Ending
  <1>2. /\ None(dq, Answer, t) <=> None(down, Answer, t)
        /\ None(dq, Ending, t) <=> None(down, Ending, t)
    BY <1>1, TakesNone
  <1>3. /\ Tells(down, t, p) => Tells(dq, t, p) \/ x.pos = p
        /\ HasBegin(dq, t) <=> HasBegin(down, t)
        /\ BeginsTold(down, t, p) => BeginsTold(dq, t, p)
    BY <1>1, TakesTold
  <1>4. Resting(d, up, tk, dq, t)
    BY <1>2 DEF Side, Asking, Waits, Resting
  <1>5. Cleared(d, up, tk, dq, t)
    BY <1>2 DEF Side, Cleared
  <1>6. Matched(d, up, dq, m, p, t)
    BY <1>2, <1>3 DEF Side, Matched, Sure
  <1> QED
    BY <1>4, <1>5, <1>6 DEF Side

\* It is told something about a topic it does not dispatch.
LEMMA SideIgnores ==
  ASSUME NEW c, NEW t, NEW tk, NEW up, NEW down \in Seq(Sent), NEW dq, NEW x,
         TakesOne(down, dq, t, x), x.kind \notin Answer, c.byTopic[t] = 0,
         NEW m, NEW p, Side(c, up, tk, down, m, p, t)
  PROVE  Side(c, up, tk, dq, m, p, t)
  <1>1. x.kind # "ack"
    BY DEF Answer
  <1>2. /\ None(dq, Answer, t) <=> None(down, Answer, t)
        /\ \A g : OneFor(down, Answer, t, g) => OneFor(dq, Answer, t, g)
    BY TakesNone
  <1>3. /\ HasBegin(dq, t) <=> HasBegin(down, t)
        /\ BeginsTold(down, t, p) => BeginsTold(dq, t, p)
    BY <1>1, TakesTold
  <1>4. Resting(c, up, tk, down, t) => Resting(c, up, tk, dq, t)
    BY <1>2 DEF Resting
  <1>5. \A g \in Gid : Asking(c, up, tk, down, t, g) => Asking(c, up, tk, dq, t, g)
    BY <1>2 DEF Asking
  <1>6. Cleared(c, up, tk, dq, t)
    BY <1>2 DEF Side, Cleared
  <1>7. Matched(c, up, dq, m, p, t)
    BY <1>3 DEF Side, Matched, Sure
  <1> QED
    BY <1>4, <1>5, <1>6, <1>7 DEF Side

\* What an answer on the way says of the rest.
LEMMA SideAnswered ==
  ASSUME NEW c, NEW t, NEW tk, NEW up, NEW down \in Seq(Sent), NEW dq, NEW x,
         TakesOne(down, dq, t, x), x.kind \in Answer, NEW m, NEW p,
         Side(c, up, tk, down, m, p, t)
  PROVE  /\ x.group \in Gid /\ Waits(c, t, x.group) /\ OneFor(down, Answer, t, x.group)
         /\ None(up, Ask, t) /\ NoTask(c, tk, t) /\ None(dq, Answer, t)
         /\ LeavesFirst(up, t) /\ None(up, Leave, t)
         /\ m = "explicit" => HasBegin(down, t)
  <1>1. ~None(down, Answer, t)
    BY TakesNone
  <1>2. PICK g \in Gid : Asking(c, up, tk, down, t, g)
    BY <1>1 DEF Side, Resting
  <1>3. /\ OneFor(down, Answer, t, g) /\ None(up, Ask, t) /\ NoTask(c, tk, t) /\ Waits(c, t, g)
    BY <1>1, <1>2 DEF Asking
  <1>4. x.group = g /\ None(dq, Answer, t)
    BY <1>3, TakesNone
  <1>5. LeavesFirst(up, t) /\ None(up, Leave, t)
    BY <1>1 DEF Side, Cleared
  <1>6. m = "explicit" => HasBegin(down, t)
    BY <1>3, <1>5 DEF Side, Matched, Sure, Waits
  <1> QED
    BY <1>3, <1>4, <1>5, <1>6

\* It is granted what it asked for.
LEMMA SideStarts ==
  ASSUME NEW c, NEW d, NEW t, NEW tk, NEW up, NEW down \in Seq(Sent), NEW dq, NEW x,
         TakesOne(down, dq, t, x), x.kind = "ack", NEW m, NEW p,
         Side(c, up, tk, down, m, p, t),
         Free(d, t), Named(d, t), NoTask(d, tk, t), d.byTopic[t] = x.group,
         d.grp[x.group].at = x.pos
  PROVE  Side(d, up, tk, dq, m, p, t)
  <1>0. x.kind \in Answer /\ x.kind \notin Ending
    BY DEF Answer, Ending
  <1>1. /\ x.group \in Gid /\ OneFor(down, Answer, t, x.group)
        /\ None(up, Ask, t) /\ None(dq, Answer, t)
        /\ LeavesFirst(up, t) /\ None(up, Leave, t)
        /\ m = "explicit" => HasBegin(down, t)
    BY <1>0, SideAnswered
  <1>2. x.group # 0
    BY <1>1 DEF Gid
  <1>3. None(dq, Ending, t) <=> None(down, Ending, t)
    BY <1>0, TakesNone
  <1>4. /\ HasBegin(down, t) => None(down, Ending, t)
        /\ None(down, Ending, t) => HasBegin(down, t)
        /\ None(down, Ending, t) /\ BeginsTold(down, t, p) => Tells(dq, t, p) \/ x.pos = p
    BY <1>0, <1>1, TakesAnswer
  <1>5. ~HasBegin(dq, t) /\ BeginsTold(dq, t, p)
    BY <1>1, BeginAnswers
  <1>6. Resting(d, up, tk, dq, t) /\ Cleared(d, up, tk, dq, t)
    BY <1>1 DEF Resting, Cleared
  <1>7. Matched(d, up, dq, m, p, t)
    BY <1>1, <1>2, <1>3, <1>4, <1>5 DEF Matched, Sure, Side
  <1> QED
    BY <1>6, <1>7 DEF Side

\* Readers of t come or go, and some are left.
LEMMA SideReaders ==
  ASSUME NEW c, NEW d, NEW t, NEW tk, NEW up, NEW down, NEW m, NEW p,
         \A h \in Gid : d.grp[h].pending = c.grp[h].pending /\ d.grp[h].key = c.grp[h].key
                        /\ d.grp[h].at = c.grp[h].at,
         d.groups = c.groups, d.byTopic[t] = c.byTopic[t], c.byTopic[t] \in Gid \union {0},
         tk \subseteq Gid, Named(d, t), Side(c, up, tk, down, m, p, t)
  PROVE  Side(d, up, tk, down, m, p, t)
  <1>1. \A h \in Gid : TopicOfGroup(d, h) = TopicOfGroup(c, h)
    BY DEF TopicOfGroup
  <1>2. (Free(c, t) => Free(d, t)) /\ \A g \in Gid : Waits(c, t, g) => Waits(d, t, g)
    BY <1>1 DEF Free, Waits
  <1>3. /\ NoTask(c, tk, t) <=> NoTask(d, tk, t)
        /\ \A g \in Gid : OneTask(c, tk, t, g) => OneTask(d, tk, t, g)
    BY <1>1 DEF NoTask, OneTask
  <1>4. Resting(c, up, tk, down, t) => Resting(d, up, tk, down, t)
    BY <1>2, <1>3 DEF Resting
  <1>5. \A g \in Gid : Asking(c, up, tk, down, t, g) => Asking(d, up, tk, down, t, g)
    BY <1>2, <1>3 DEF Asking
  <1>6. Cleared(d, up, tk, down, t)
    BY <1>3 DEF Side, Cleared
  <1>7. Sure(d, down, t) => Sure(c, down, t) /\ d.grp[d.byTopic[t]].at = c.grp[c.byTopic[t]].at
    BY DEF Sure
  <1>8. Sure(c, down, t) => Sure(d, down, t)
    BY DEF Sure
  <1>9. Matched(d, up, down, m, p, t)
    BY <1>7, <1>8 DEF Side, Matched
  <1> QED
    BY <1>4, <1>5, <1>6, <1>9 DEF Side

\* d is c with only the group g, and what names it, changed.
Touches(c, d, g) ==
  /\ d \in Client /\ d.grp[g].key = c.grp[g].key
  /\ \A h \in Gid : h # g => d.grp[h] = c.grp[h]
  /\ \A k \in Key : k # c.grp[g].key => d.groups[k] = c.groups[k]
  /\ \A u \in Topic : u # TopicOfGroup(c, g) => d.byTopic[u] = c.byTopic[u]

\* ... and nothing names it any more, of which the server is told.
Releases(c, d, g) ==
  /\ Touches(c, d, g) /\ d.groups[c.grp[g].key] = 0 /\ d.byTopic[TopicOfGroup(c, g)] = 0
  /\ ~d.grp[g].pending
  /\ \E x \in Asked : /\ x.kind = "unsubscribe" /\ x.topic = TopicOfGroup(c, g)
                      /\ d.out = Append(c.out, x)

LEMMA TouchesTrans ==
  ASSUME NEW c, NEW m, NEW d, NEW g \in Gid, Touches(c, m, g), Touches(m, d, g)
  PROVE  Touches(c, d, g)
  <1>1. m.grp[g].key = c.grp[g].key /\ TopicOfGroup(m, g) = TopicOfGroup(c, g)
    BY DEF Touches, TopicOfGroup
  <1> QED
    BY <1>1 DEF Touches

LEMMA TouchesElsewhere ==
  ASSUME NEW c, NEW d, NEW g \in Gid, Touches(c, d, g), NEW t \in Topic,
         t # TopicOfGroup(c, g), NEW K \in SUBSET Gid
  PROVE  Elsewhere(c, d, t, K)
  <1>1. TopicOfGroup(d, g) # t
    BY DEF Touches, TopicOfGroup
  <1>2. \A k \in Key : TopicOf[k] = t => k # c.grp[g].key
    BY DEF TopicOfGroup
  <1> QED
    BY <1>1, <1>2 DEF Touches, Elsewhere

LEMMA TurnsTouches ==
  ASSUME NEW c, NEW d, NEW g \in Gid, Turns(c, d, g)
  PROVE  Touches(c, d, g)
  BY DEF Turns, Touches

\* A handle of g is removed and n are left: the group goes with the last one,
\* unless it waits for an answer.
Removes(c, d, g, n, isReady, t) ==
  /\ Touches(c, d, g) /\ d.grp[g].subs = n /\ d.grp[g].at = c.grp[g].at
  /\ d.grp[g].pending = c.grp[g].pending
  /\ n > 0 \/ c.grp[g].pending =>
        d.groups = c.groups /\ d.byTopic = c.byTopic /\ d.out = c.out
  /\ n = 0 /\ ~c.grp[g].pending =>
        /\ d.groups[c.grp[g].key] = 0
        /\ d.byTopic[t] = IF c.grp[g].acked /\ c.byTopic[t] = g THEN 0 ELSE c.byTopic[t]
        /\ IF c.grp[g].acked /\ isReady
           THEN \E x \in Asked : /\ x.kind = "unsubscribe" /\ x.topic = t
                                 /\ d.out = Append(c.out, x)
           ELSE d.out = c.out

LEMMA RemoveHandleSides ==
  ASSUME NEW c \in Client, NEW g \in Gid, NEW n \in Nat, n <= c.grp[g].subs,
         NEW isReady \in BOOLEAN, NEW d, d = RemoveHandle(c, g, n, isReady),
         NEW t, t = TopicOfGroup(c, g)
  PROVE  Removes(c, d, g, n, isReady, t)
  <1> DEFINE left == [c EXCEPT !.grp[g].subs = n]
             less == Drop(left, g)
  <1>0. c.grp[g].subs \in Nat /\ t \in Topic /\ c.grp[g].key \in Key
    BY ClientFields DEF Group
  <1>1. /\ left \in Client /\ left.groups = c.groups /\ left.byTopic = c.byTopic
        /\ left.out = c.out /\ left.grp[g].subs = n
        /\ left.grp[g].key = c.grp[g].key /\ left.grp[g].acked = c.grp[g].acked
        /\ left.grp[g].at = c.grp[g].at /\ left.grp[g].pending = c.grp[g].pending
        /\ \A h \in Gid : h # g => left.grp[h] = c.grp[h]
    BY SubsFacts
  <1>2. d = IF n > 0 \/ c.grp[g].pending THEN left
            ELSE IF c.grp[g].acked /\ isReady THEN SendUnsubscribe(less, t) ELSE less
    BY DEF RemoveHandle
  <1> HIDE DEF left
  <1>3. Touches(c, left, g) /\ TopicOfGroup(left, g) = t
    BY <1>1 DEF Touches, TopicOfGroup
  <1>4. /\ less \in Client /\ less.grp = left.grp /\ less.out = left.out
        /\ less.groups = [left.groups EXCEPT ![left.grp[g].key] = 0]
        /\ less.byTopic = [left.byTopic EXCEPT
                             ![t] = IF left.grp[g].acked /\ @ = g THEN 0 ELSE @]
    BY <1>1, <1>3, DropFacts
  <1> HIDE DEF less
  <1>5. /\ less.groups[c.grp[g].key] = 0
        /\ \A k \in Key : k # c.grp[g].key => less.groups[k] = c.groups[k]
        /\ less.byTopic[t] = IF c.grp[g].acked /\ c.byTopic[t] = g THEN 0 ELSE c.byTopic[t]
        /\ \A u \in Topic : u # t => less.byTopic[u] = c.byTopic[u]
    BY <1>0, <1>1, <1>4, ClientFields
  <1>6. Touches(c, less, g)
    BY <1>1, <1>4, <1>5 DEF Touches
  <1>7. CASE n > 0 \/ c.grp[g].pending
    BY <1>1, <1>2, <1>3, <1>7 DEF Removes
  <1>8. CASE n = 0 /\ ~c.grp[g].pending /\ ~(c.grp[g].acked /\ isReady)
    <2>1. ~(n > 0 \/ c.grp[g].pending)
      BY <1>8
    <2>2. d = less
      BY ONLY <1>2, <1>8, <2>1
    <2>3. /\ d.grp[g].subs = n /\ d.grp[g].at = c.grp[g].at
          /\ d.grp[g].pending = c.grp[g].pending /\ d.out = c.out
      BY ONLY <1>1, <1>4, <2>2
    <2> QED
      BY ONLY <1>5, <1>6, <1>8, <2>1, <2>2, <2>3 DEF Removes
  <1>9. CASE n = 0 /\ ~c.grp[g].pending /\ c.grp[g].acked /\ isReady
    <2>0. ~(n > 0 \/ c.grp[g].pending)
      BY <1>9
    <2>1. d = SendUnsubscribe(less, t)
      BY ONLY <1>2, <1>9, <2>0
    <2>2. /\ d \in Client /\ d.groups = less.groups /\ d.byTopic = less.byTopic
          /\ d.grp = less.grp
          /\ \E x \in Asked : x.kind = "unsubscribe" /\ x.topic = t /\ d.out = Append(less.out, x)
      <3>1. less \in Client /\ t \in Topic
        BY <1>0, <1>4
      <3> QED
        BY ONLY <2>1, <3>1, SendUnsubscribeFacts
    <2>3. Touches(c, d, g)
      BY <1>6, <2>2 DEF Touches
    <2>4. /\ d.grp[g].subs = n /\ d.grp[g].at = c.grp[g].at
          /\ d.grp[g].pending = c.grp[g].pending /\ less.out = c.out
      BY ONLY <1>1, <1>4, <2>2
    <2> QED
      BY ONLY <1>5, <1>9, <2>0, <2>2, <2>3, <2>4 DEF Removes
  <1> QED
    BY <1>7, <1>8, <1>9

\* The readers of a dispatched group all leave in a callback, or stay.
LEMMA CallbackSides ==
  ASSUME NEW c \in Client, NEW g \in Gid, NEW leave \in BOOLEAN, NEW d,
         d = Callback(c, g, leave), ~c.grp[g].pending, c.grp[g].acked,
         c.byTopic[TopicOfGroup(c, g)] = g
  PROVE  d = c \/ Releases(c, d, g)
  <1>1. CASE d = RemoveHandle(c, g, 0, TRUE)
    <2>1. c.grp[g].subs \in Nat /\ 0 \in Nat /\ 0 <= c.grp[g].subs /\ TRUE \in BOOLEAN
      BY ClientFields DEF Group
    <2>2. /\ Touches(c, d, g) /\ d.grp[g].pending = c.grp[g].pending
          /\ d.groups[c.grp[g].key] = 0 /\ d.byTopic[TopicOfGroup(c, g)] = 0
          /\ \E x \in Asked : /\ x.kind = "unsubscribe" /\ x.topic = TopicOfGroup(c, g)
                              /\ d.out = Append(c.out, x)
      <3>0. PICK n \in Nat, b \in BOOLEAN : n = 0 /\ b = TRUE
        BY <2>1, Zenon
      <3>1. d = RemoveHandle(c, g, n, b) /\ n <= c.grp[g].subs
        BY <1>1, <2>1, <3>0
      <3>2. Removes(c, d, g, n, b, TopicOfGroup(c, g))
        BY <3>1, RemoveHandleSides
      <3> QED
        BY <3>0, <3>2 DEF Removes
    <2> QED
      BY <2>2 DEF Releases
  <1> QED
    BY <1>1 DEF Callback

LEMMA TurnsReleases ==
  ASSUME NEW c, NEW m, NEW d, NEW g \in Gid, Turns(c, m, g), Releases(m, d, g)
  PROVE  Releases(c, d, g)
  <1>1. /\ m.grp[g].key = c.grp[g].key /\ TopicOfGroup(m, g) = TopicOfGroup(c, g)
        /\ m.out = c.out
    BY DEF Turns, TopicOfGroup
  <1>2. Touches(c, d, g)
    BY TurnsTouches, TouchesTrans DEF Releases
  <1> QED
    BY <1>1, <1>2 DEF Releases

\* The other things a frame may do to the group g of its topic: nothing names it
\* any more, its readers are at p, it is asked for again, or it is dispatched.
Drops(c, d, g) ==
  /\ Touches(c, d, g) /\ d.groups[c.grp[g].key] = 0 /\ d.byTopic[TopicOfGroup(c, g)] = 0
  /\ ~d.grp[g].pending /\ d.out = c.out

Hears(c, d, g, p) == Turns(c, d, g) /\ d.grp[g].at = p

AsksAgain(c, d, g) ==
  /\ Touches(c, d, g) /\ d.groups = c.groups /\ d.byTopic[TopicOfGroup(c, g)] = 0
  /\ d.grp[g].pending
  /\ \E x \in Asked : /\ x.kind = "subscribe" /\ x.group = g /\ x.topic = TopicOfGroup(c, g)
                      /\ d.out = Append(c.out, x)

Starts(c, d, g, p) ==
  /\ Touches(c, d, g) /\ d.groups = c.groups /\ d.byTopic[TopicOfGroup(c, g)] = g
  /\ ~d.grp[g].pending /\ d.grp[g].subs # 0 /\ d.grp[g].at = p /\ d.out = c.out

LEMMA HearsOrReleases ==
  ASSUME NEW c \in Client, NEW g \in Gid, NEW m, NEW p, Hears(c, m, g, p),
         ~c.grp[g].pending, c.grp[g].acked, c.byTopic[TopicOfGroup(c, g)] = g,
         NEW leave \in BOOLEAN, NEW d, d = Callback(m, g, leave)
  PROVE  Hears(c, d, g, p) \/ Releases(c, d, g)
  <1>1. /\ Turns(c, m, g) /\ m \in Client /\ ~m.grp[g].pending /\ m.grp[g].acked
        /\ m.byTopic[TopicOfGroup(m, g)] = g
    BY DEF Hears, Turns, TopicOfGroup
  <1>2. d = m \/ Releases(m, d, g)
    BY <1>1, CallbackSides
  <1> QED
    BY <1>1, <1>2, TurnsReleases

\* Only the buffers differ.
SameNames(c, d) ==
  /\ d \in Client /\ d.groups = c.groups /\ d.grp = c.grp /\ d.byTopic = c.byTopic
  /\ d.out = c.out

LEMMA OnPublishSides ==
  ASSUME NEW c \in Client, NEW f \in Sent, NEW g, g = c.byTopic[f.topic],
         NEW leave \in BOOLEAN, NEW d, d = OnPublish(c, f, leave)
  PROVE  /\ g = 0 => SameNames(c, d)
         /\ g \in Gid /\ g # 0 /\ TopicOfGroup(c, g) = f.topic /\ ~c.grp[g].pending
               /\ c.grp[g].acked =>
            Hears(c, d, g, f.pos) \/ Releases(c, d, g)
  <1>0. f.topic \in Topic /\ f.epoch \in Nat /\ f.seq \in Nat /\ f.pos \in Nat
    BY DEF Sent
  <1>1. ASSUME g = 0 PROVE SameNames(c, d)
    <2>1. CASE d = c
      BY <2>1 DEF SameNames
    <2>2. CASE d = [c EXCEPT !.early[f.topic] = Append(@, f)]
      <3> DEFINE early == [c.early EXCEPT ![f.topic] = Append(c.early[f.topic], f)]
      <3>1. d = [c EXCEPT !.early = early]
        BY <2>2 DEF Client
      <3>2. early \in [Topic -> Seq(Sent)]
        BY <1>0, ClientFields
      <3> HIDE DEF early
      <3> QED
        BY <3>1, <3>2 DEF Client, SameNames
    <2> QED
      BY <1>1, <2>1, <2>2 DEF OnPublish
  <1>2. ASSUME g \in Gid, g # 0, TopicOfGroup(c, g) = f.topic, ~c.grp[g].pending, c.grp[g].acked
        PROVE  Hears(c, d, g, f.pos) \/ Releases(c, d, g)
    <2> DEFINE gap == f.epoch # c.grp[g].epoch \/ f.seq # c.grp[g].seq + 1
               moved == Placed(c, g, f.epoch, f.seq)
               m == IF gap THEN TellGap(moved, g, f) ELSE [moved EXCEPT !.grp[g].at = f.pos]
    <2>1. d = Callback(m, g, leave)
      BY <1>2 DEF OnPublish, Placed
    <2>3. Turns(c, moved, g)
      BY <1>0, <1>2, PlaceFacts
    <2> HIDE DEF moved
    <2>4. moved \in Client
      BY <2>3 DEF Turns
    <2>5. Turns(moved, m, g) /\ m.grp[g].at = f.pos
      <3>1. CASE gap
        BY <1>2, <2>4, <3>1, TellFacts
      <3>2. CASE ~gap
        BY <1>0, <1>2, <2>4, <3>2, AtFacts
      <3> QED
        BY <3>1, <3>2
    <2> HIDE DEF m
    <2>6. Hears(c, m, g, f.pos)
      BY <2>3, <2>5, TurnsTrans DEF Hears
    <2> QED
      BY <1>2, <2>1, <2>6, HearsOrReleases
  <1> QED
    BY <1>1, <1>2

LEMMA OnResetSides ==
  ASSUME NEW c \in Client, NEW f \in Sent, NEW g, g = c.byTopic[f.topic],
         NEW leave \in BOOLEAN, NEW d, d = OnReset(c, f, leave)
  PROVE  /\ g = 0 => SameNames(c, d)
         /\ g \in Gid /\ g # 0 /\ TopicOfGroup(c, g) = f.topic /\ ~c.grp[g].pending
               /\ c.grp[g].acked =>
            Hears(c, d, g, f.pos) \/ Releases(c, d, g)
  <1>0. f.topic \in Topic /\ f.epoch \in Nat /\ f.seq \in Nat /\ f.pos \in Nat
    BY DEF Sent
  <1>1. ASSUME g = 0 PROVE SameNames(c, d)
    BY <1>1 DEF OnReset, SameNames
  <1>2. ASSUME g \in Gid, g # 0, TopicOfGroup(c, g) = f.topic, ~c.grp[g].pending, c.grp[g].acked
        PROVE  Hears(c, d, g, f.pos) \/ Releases(c, d, g)
    <2> DEFINE moved == Placed(c, g, f.epoch, f.seq)
               m == TellGap(moved, g, f)
    <2>1. d = Callback(m, g, leave)
      BY <1>2 DEF OnReset, Placed
    <2>3. Turns(c, moved, g)
      BY <1>0, <1>2, PlaceFacts
    <2> HIDE DEF moved
    <2>4. moved \in Client
      BY <2>3 DEF Turns
    <2>5. Turns(moved, m, g) /\ m.grp[g].at = f.pos
      BY <1>2, <2>4, TellFacts
    <2> HIDE DEF m
    <2>6. Hears(c, m, g, f.pos)
      BY <2>3, <2>5, TurnsTrans DEF Hears
    <2> QED
      BY <1>2, <2>1, <2>6, HearsOrReleases
  <1> QED
    BY <1>1, <1>2

LEMMA EndedSides ==
  ASSUME NEW c \in Client, NEW g \in Gid, NEW d, d = Ended(c, g), NEW t, t = TopicOfGroup(c, g)
  PROVE  /\ Touches(c, d, g) /\ d.groups[c.grp[g].key] = 0
         /\ d.byTopic[t] = IF c.grp[g].acked /\ c.byTopic[t] = g THEN 0 ELSE c.byTopic[t]
         /\ d.grp[g].pending = c.grp[g].pending /\ d.out = c.out
  <1> DEFINE less == Drop(c, g)
             r == [less.grp[g] EXCEPT !.over = TRUE]
             e == [less EXCEPT !.grp = [less.grp EXCEPT ![g] = r]]
  <1>0. /\ less \in Client /\ less.grp = c.grp /\ less.out = c.out
        /\ less.groups = [c.groups EXCEPT ![c.grp[g].key] = 0]
        /\ less.byTopic = [c.byTopic EXCEPT ![t] = IF c.grp[g].acked /\ @ = g THEN 0 ELSE @]
        /\ less.grp[g] \in Group
    <2>1. /\ less \in Client /\ less.grp = c.grp /\ less.out = c.out
          /\ less.groups = [c.groups EXCEPT ![c.grp[g].key] = 0]
          /\ less.byTopic = [c.byTopic EXCEPT ![TopicOfGroup(c, g)] =
                                IF c.grp[g].acked /\ @ = g THEN 0 ELSE @]
      BY DropFacts
    <2>2. c.grp[g] \in Group
      BY ClientFields
    <2> HIDE DEF less
    <2> QED
      BY <2>1, <2>2
  <1>1. d = e
    BY <1>0, ClientFields DEF Client, Ended
  <1> HIDE DEF less
  <1>2. r \in Group /\ r.key = c.grp[g].key /\ r.pending = c.grp[g].pending
    BY <1>0 DEF Group
  <1> HIDE DEF r
  <1>3. /\ d \in Client /\ d.groups = less.groups /\ d.byTopic = less.byTopic
        /\ d.out = less.out /\ d.grp[g] = r /\ \A h \in Gid : h # g => d.grp[h] = less.grp[h]
    BY <1>0, <1>1, <1>2, GroupFacts
  <1>4. t \in Topic /\ c.grp[g].key \in Key
    BY ClientFields
  <1>5. /\ d.groups[c.grp[g].key] = 0
        /\ \A k \in Key : k # c.grp[g].key => d.groups[k] = c.groups[k]
        /\ d.byTopic[t] = IF c.grp[g].acked /\ c.byTopic[t] = g THEN 0 ELSE c.byTopic[t]
        /\ \A u \in Topic : u # t => d.byTopic[u] = c.byTopic[u]
    BY <1>0, <1>3, <1>4, ClientFields
  <1>6. Touches(c, d, g)
    BY <1>0, <1>2, <1>3, <1>5 DEF Touches
  <1> QED
    BY <1>0, <1>2, <1>3, <1>5, <1>6

LEMMA OnKickSides ==
  ASSUME NEW c \in Client, NEW f \in Sent, NEW g, g = c.byTopic[f.topic],
         NEW d, d = OnKick(c, f)
  PROVE  /\ g = 0 => SameNames(c, d)
         /\ g \in Gid /\ g # 0 /\ TopicOfGroup(c, g) = f.topic /\ ~c.grp[g].pending
               /\ c.grp[g].acked => Drops(c, d, g)
  <1>1. ASSUME g = 0 PROVE SameNames(c, d)
    BY <1>1 DEF OnKick, SameNames
  <1>2. ASSUME g \in Gid, g # 0, TopicOfGroup(c, g) = f.topic, ~c.grp[g].pending, c.grp[g].acked
        PROVE  Drops(c, d, g)
    <2>1. d = Ended(c, g)
      BY <1>2, KickEnds
    <2>2. /\ Touches(c, d, g) /\ d.groups[c.grp[g].key] = 0 /\ d.byTopic[f.topic] = 0
          /\ d.grp[g].pending = c.grp[g].pending /\ d.out = c.out
      BY <1>2, <2>1, EndedSides
    <2> QED
      BY <1>2, <2>2 DEF Drops
  <1> QED
    BY <1>1, <1>2

LEMMA UnsetTouches ==
  ASSUME NEW c \in Client, NEW g \in Gid, NEW u, u = Unset(c, g)
  PROVE  /\ Touches(c, u, g) /\ u.groups = c.groups /\ u.byTopic = c.byTopic /\ u.out = c.out
         /\ ~u.grp[g].pending /\ u.grp[g].key = c.grp[g].key
         /\ u.grp[g].subs = c.grp[g].subs /\ u.grp[g].at = c.grp[g].at
  <1>1. /\ Sheds(c, u) /\ u.groups = c.groups /\ u.byTopic = c.byTopic /\ u.out = c.out
        /\ \A h \in Gid : u.grp[h].subs = c.grp[h].subs
        /\ ~u.grp[g].pending /\ \A h \in Gid : h # g => u.grp[h] = c.grp[h]
    BY PendingFacts
  <1> QED
    BY <1>1 DEF Sheds, Touches

LEMMA OnErrorSides ==
  ASSUME NEW c \in Client, NEW f \in Sent, NEW g \in Gid, g = f.group,
         c.groups[c.grp[g].key] = g, c.byTopic[TopicOfGroup(c, g)] = 0,
         NEW d, d = OnError(c, f)
  PROVE  Drops(c, d, g)
  <1> DEFINE u == Unset(c, g)
  <1>1. d = Ended(u, g)
    BY DEF OnError, Ended, Unset
  <1>2. /\ Touches(c, u, g) /\ u.groups = c.groups /\ u.byTopic = c.byTopic /\ u.out = c.out
        /\ ~u.grp[g].pending /\ u.grp[g].key = c.grp[g].key
    BY UnsetTouches
  <1>3. u \in Client /\ TopicOfGroup(u, g) = TopicOfGroup(c, g)
    BY <1>2 DEF Touches, TopicOfGroup
  <1> HIDE DEF u
  <1>4. /\ Touches(u, d, g) /\ d.groups[u.grp[g].key] = 0
        /\ d.byTopic[TopicOfGroup(u, g)] = 0
        /\ d.grp[g].pending = u.grp[g].pending /\ d.out = u.out
    BY <1>1, <1>2, <1>3, EndedSides
  <1>5. Touches(c, d, g)
    BY <1>2, <1>4, TouchesTrans
  <1> QED
    BY <1>2, <1>3, <1>4, <1>5 DEF Drops

\* d is c after g was asked for, or the server told to leave t.
AskedFor(c, d, g) ==
  /\ Touches(c, d, g) /\ d.groups = c.groups /\ d.byTopic = c.byTopic /\ d.grp[g].pending
  /\ \E x \in Asked : /\ x.kind = "subscribe" /\ x.group = g /\ x.topic = TopicOfGroup(c, g)
                      /\ d.out = Append(c.out, x)
LeavesTopic(c, d, t) ==
  /\ d \in Client /\ d.groups = c.groups /\ d.byTopic = c.byTopic /\ d.grp = c.grp
  /\ \E x \in Asked : x.kind = "unsubscribe" /\ x.topic = t /\ d.out = Append(c.out, x)

LEMMA SendSides ==
  ASSUME NEW c \in Client, NEW g \in Gid, NEW d, d = Send(c, g)
  PROVE  AskedFor(c, d, g)
  <1>1. /\ d \in Client /\ d.groups = c.groups /\ d.byTopic = c.byTopic
        /\ Sheds(c, d) /\ d.grp[g].pending /\ \A h \in Gid : h # g => d.grp[h] = c.grp[h]
        /\ \E x \in Asked : /\ x.group = g /\ d.out = Append(c.out, x)
                            /\ x.kind = "subscribe" /\ x.topic = TopicOfGroup(c, g)
    <2>1. /\ Send(c, g) \in Client /\ Send(c, g).groups = c.groups
          /\ Send(c, g).byTopic = c.byTopic /\ Sheds(c, Send(c, g)) /\ Send(c, g).grp[g].pending
          /\ \A h \in Gid : h # g => Send(c, g).grp[h] = c.grp[h]
      BY SendFacts, ZenonT(60)
    <2>2. \E x \in Asked : /\ x.group = g /\ Send(c, g).out = Append(c.out, x)
                           /\ x.kind = "subscribe" /\ x.topic = TopicOfGroup(c, g)
      BY SendFacts, ZenonT(60)
    <2> QED
      BY ONLY <2>1, <2>2, d = Send(c, g)
  <1>2. d.grp[g].key = c.grp[g].key
    BY <1>1 DEF Sheds
  <1>3. Touches(c, d, g)
    BY <1>1, <1>2 DEF Touches
  <1> QED
    BY ONLY <1>1, <1>3 DEF AskedFor

LEMMA SendUnsubscribeSides ==
  ASSUME NEW c \in Client, NEW t \in Topic, NEW d, d = SendUnsubscribe(c, t)
  PROVE  LeavesTopic(c, d, t)
  BY SendUnsubscribeFacts DEF LeavesTopic

\* A group the server has ended is asked for again.
LEMMA OnUnsubscribedResetSides ==
  ASSUME NEW c \in Client, NEW f \in Sent, NEW g, g = c.byTopic[f.topic], NEW isReady, isReady,
         NEW d, d = OnUnsubscribedReset(c, f, isReady, FALSE)
  PROVE  /\ g = 0 => SameNames(c, d)
         /\ g \in Gid /\ g # 0 /\ TopicOfGroup(c, g) = f.topic => AsksAgain(c, d, g)
  <1>0. f.topic \in Topic /\ 0 \in Nat
    BY DEF Sent
  <1>1. ASSUME g = 0 PROVE SameNames(c, d)
    BY <1>1 DEF OnUnsubscribedReset, SameNames
  <1>2. ASSUME g \in Gid, g # 0, TopicOfGroup(c, g) = f.topic
        PROVE  AsksAgain(c, d, g)
    <2> DEFINE v == Unnamed(c, f.topic)
               m == TellGap(v, g, f)
    <2>1. d = Send(m, g)
      BY <1>2 DEF OnUnsubscribedReset, Unnamed, Callback
    <2>2. /\ v \in Client /\ v.groups = c.groups /\ v.grp = c.grp
          /\ v.out = c.out /\ v.byTopic[f.topic] = 0
          /\ \A u \in Topic : u # f.topic => v.byTopic[u] = c.byTopic[u]
      BY <1>0, TopicFacts DEF Unnamed
    <2> HIDE DEF v
    <2>3. Touches(c, v, g)
      BY <1>2, <2>2 DEF Touches
    <2>4. Turns(v, m, g)
      BY <1>2, <2>2, TellFacts
    <2> HIDE DEF m
    <2>5. /\ m \in Client /\ m.groups = c.groups /\ m.out = c.out /\ m.byTopic = v.byTopic
          /\ m.grp[g].key = c.grp[g].key
      BY <2>2, <2>4 DEF Turns
    <2>g. g \in Gid
      BY <1>2
    <2>m. m \in Client
      BY <2>5
    <2>6. AskedFor(m, d, g)
      BY ONLY <2>g, <2>1, <2>m, SendSides
    <2>7. Touches(m, d, g)
      BY <2>6 DEF AskedFor
    <2>8. Touches(c, d, g)
      <3>1. Touches(v, m, g)
        BY ONLY <2>g, <2>4, TurnsTouches
      <3>2. Touches(c, m, g)
        BY ONLY <2>g, <2>3, <3>1, TouchesTrans
      <3> QED
        BY ONLY <2>g, <2>7, <3>2, TouchesTrans
    <2>9. TopicOfGroup(m, g) = f.topic
      BY <1>2, <2>5 DEF TopicOfGroup
    <2> QED
      <3>1. PICK x \in Asked : /\ x.group = g /\ d.out = Append(m.out, x)
                               /\ x.kind = "subscribe" /\ x.topic = TopicOfGroup(m, g)
        BY <2>6 DEF AskedFor
      <3>2. x.topic = TopicOfGroup(c, g) /\ d.out = Append(c.out, x)
        BY <1>2, <2>5, <2>9, <3>1
      <3>3. d.groups = c.groups /\ d.byTopic[TopicOfGroup(c, g)] = 0 /\ d.grp[g].pending
        BY <1>2, <2>2, <2>5, <2>6 DEF AskedFor
      <3> QED
        BY ONLY <2>8, <3>1, <3>2, <3>3 DEF AsksAgain
  <1> QED
    BY <1>1, <1>2

\* What was buffered is dropped: nothing of it is newer than the ack.
LEMMA ReplaySides ==
  ASSUME NEW m \in Client, NEW f \in Sent, NEW d, d = Replay(m, f),
         \A i \in DOMAIN m.early[f.topic] : ~Newer(m.early[f.topic][i], f)
  PROVE  SameNames(m, d)
  <1> DEFINE early == [m.early EXCEPT ![f.topic] = <<>>]
  <1>1. d = [m EXCEPT !.early = early]
    BY DEF Replay, Client
  <1>2. <<>> \in Seq(Sent) /\ f.topic \in Topic
    BY DEF Sent
  <1>3. early \in [Topic -> Seq(Sent)]
    BY <1>2, ClientFields
  <1> HIDE DEF early
  <1> QED
    BY <1>1, <1>3 DEF Client, SameNames

\* A group that waited is dispatched from the place of the ack on, or its
\* readers have left and the server is told.
LEMMA OnAckSides ==
  ASSUME NEW c \in Client, NEW f \in Sent, NEW g \in Gid, g = f.group,
         TopicOfGroup(c, g) = f.topic, c.groups[c.grp[g].key] = g, c.byTopic[f.topic] = 0,
         \A i \in DOMAIN c.early[f.topic] : ~Newer(c.early[f.topic][i], f),
         c.grp[g].epoch # 0 /\ f.epoch = c.grp[g].epoch /\ f.seq = c.grp[g].seq =>
            c.grp[g].at = f.pos,
         NEW leave \in BOOLEAN, NEW isReady, isReady, NEW d, d = OnAck(c, f, isReady, leave)
  PROVE  Starts(c, d, g, f.pos) \/ Releases(c, d, g)
  <1> DEFINE u == Unset(c, g)
             first == c.grp[g].epoch = 0
             moved == ~first /\ (f.epoch # c.grp[g].epoch \/ f.seq # c.grp[g].seq)
             at == IF first THEN f.pos ELSE c.grp[g].at
             a == Acked(u, g, f, at)
             told == IF moved THEN Callback(TellGap(a, g, f), g, leave) ELSE a
  <1>0. /\ f.topic \in Topic /\ f.pos \in Nat /\ at \in Nat /\ c.grp[g].subs \in Nat
        /\ c.grp[g].key \in Key
    BY ClientFields DEF Sent, Group
  <1>1. /\ Touches(c, u, g) /\ u.groups = c.groups /\ u.byTopic = c.byTopic /\ u.out = c.out
        /\ ~u.grp[g].pending /\ u.grp[g].key = c.grp[g].key
        /\ u.grp[g].subs = c.grp[g].subs
    BY UnsetTouches
  <1>e. u.early = c.early
    BY PendingFacts DEF Sheds
  <1>2. d = IF c.grp[g].subs = 0 THEN SendUnsubscribe(Drop(u, g), f.topic)
            ELSE Replay(told, f)
    BY DEF OnAck, Unset, Acked
  <1>u. u \in Client /\ TopicOfGroup(u, g) = f.topic
    BY <1>1 DEF Touches, TopicOfGroup
  <1> HIDE DEF u, at
  <1>3. CASE c.grp[g].subs = 0
    <2> DEFINE less == Drop(u, g)
    <2>1. /\ less \in Client /\ less.grp = u.grp /\ less.out = u.out
          /\ less.groups = [u.groups EXCEPT ![u.grp[g].key] = 0]
          /\ less.byTopic = [u.byTopic EXCEPT ![TopicOfGroup(u, g)] =
                                IF u.grp[g].acked /\ @ = g THEN 0 ELSE @]
      BY <1>u, DropFacts
    <2>2. d = SendUnsubscribe(less, f.topic)
      BY <1>2, <1>3
    <2> HIDE DEF less
    <2>3. /\ d \in Client /\ d.groups = less.groups /\ d.byTopic = less.byTopic
          /\ d.grp = less.grp
          /\ \E x \in Asked : x.kind = "unsubscribe" /\ x.topic = f.topic
                              /\ d.out = Append(less.out, x)
      <3>1. less \in Client /\ f.topic \in Topic
        BY ONLY <1>0, <2>1
      <3>2. LeavesTopic(less, d, f.topic)
        BY ONLY <3>1, <2>2, SendUnsubscribeSides
      <3> QED
        BY ONLY <3>2 DEF LeavesTopic
    <2>4. /\ d.groups[c.grp[g].key] = 0 /\ d.byTopic[f.topic] = 0
          /\ \A k \in Key : k # c.grp[g].key => d.groups[k] = c.groups[k]
          /\ \A v \in Topic : v # f.topic => d.byTopic[v] = c.byTopic[v]
      <3>1. c.groups \in [Key -> Nat] /\ c.byTopic \in [Topic -> Nat]
        BY ClientFields
      <3>2. d.groups = [c.groups EXCEPT ![c.grp[g].key] = 0]
        BY ONLY <1>1, <2>1, <2>3
      <3>3. d.byTopic = [c.byTopic EXCEPT ![f.topic] = IF u.grp[g].acked /\ @ = g THEN 0 ELSE @]
        BY ONLY <1>1, <1>u, <2>1, <2>3
      <3>4. /\ d.groups[c.grp[g].key] = 0
            /\ \A k \in Key : k # c.grp[g].key => d.groups[k] = c.groups[k]
        BY ONLY <1>0, <3>1, <3>2
      <3>5. /\ d.byTopic[f.topic] = 0
            /\ \A v \in Topic : v # f.topic => d.byTopic[v] = c.byTopic[v]
        BY ONLY <1>0, <3>1, <3>3, c.byTopic[f.topic] = 0
      <3> QED
        BY <3>4, <3>5
    <2>5. /\ d.grp[g].key = c.grp[g].key /\ ~d.grp[g].pending
          /\ \A h \in Gid : h # g => d.grp[h] = c.grp[h]
      <3>1. d.grp = u.grp
        BY ONLY <2>1, <2>3
      <3> QED
        BY ONLY <1>1, <3>1 DEF Touches
    <2>6. Touches(c, d, g)
      BY <2>3, <2>4, <2>5 DEF Touches
    <2>7. less.out = c.out
      BY <1>1, <2>1
    <2>8. Releases(c, d, g)
      BY ONLY <2>3, <2>4, <2>5, <2>6, <2>7, TopicOfGroup(c, g) = f.topic DEF Releases
    <2> QED
      BY <2>8
  <1>4. CASE c.grp[g].subs # 0
    <2>1. d = Replay(told, f)
      BY <1>2, <1>4
    <2>2. /\ a \in Client /\ a.groups = u.groups /\ a.early = u.early /\ a.out = u.out
          /\ a.byTopic[f.topic] = g
          /\ \A v \in Topic : v # f.topic => a.byTopic[v] = u.byTopic[v]
          /\ \A h \in Gid : h # g => a.grp[h] = u.grp[h]
          /\ a.grp[g].key = u.grp[g].key /\ a.grp[g].subs = u.grp[g].subs
          /\ a.grp[g].acked /\ a.grp[g].at = at /\ a.grp[g].pending = u.grp[g].pending
      <3>1. f \in Sent /\ g \in Gid /\ at \in Nat /\ u \in Client
        BY <1>0, <1>u
      <3> QED
        BY ONLY <3>1, AckedFields
    <2> HIDE DEF a
    <2>3. /\ Touches(c, a, g) /\ TopicOfGroup(a, g) = f.topic /\ ~a.grp[g].pending
          /\ a.groups = c.groups /\ a.out = c.out /\ a.grp[g].subs = c.grp[g].subs
          /\ a.early = c.early
      <3>1. TopicOfGroup(a, g) = f.topic
        BY <1>u, <2>2 DEF TopicOfGroup
      <3> QED
        BY <1>1, <1>e, <2>2, <3>1 DEF Touches
    <2>4. Starts(c, told, g, f.pos) \/ Releases(c, told, g)
      <3>1. CASE ~moved
        <4>1. told = a /\ at = f.pos
          BY <3>1 DEF at
        <4> HIDE DEF told
        <4>2. a.grp[g].subs # 0 /\ a.grp[g].at = f.pos /\ a.byTopic[TopicOfGroup(c, g)] = g
          BY <1>4, <2>2, <2>3, <4>1
        <4> QED
          BY ONLY <2>3, <4>1, <4>2 DEF Starts
      <3>2. CASE moved
        <4> DEFINE m == TellGap(a, g, f)
        <4>1. told = Callback(m, g, leave)
          BY <3>2
        <4>2. Turns(a, m, g) /\ m.grp[g].at = f.pos
          BY <2>2, TellFacts
        <4> HIDE DEF m, told
        <4>3. Hears(a, told, g, f.pos) \/ Releases(a, told, g)
          <5>1. Hears(a, m, g, f.pos) /\ a.byTopic[TopicOfGroup(a, g)] = g
            BY <2>2, <2>3, <4>2 DEF Hears
          <5> QED
            BY <2>2, <2>3, <4>1, <5>1, HearsOrReleases
        <4>4. ASSUME Hears(a, told, g, f.pos) PROVE Starts(c, told, g, f.pos)
          <5>1. Touches(a, told, g)
            BY <4>4, TurnsTouches DEF Hears
          <5>2. Touches(c, told, g)
            BY <2>3, <5>1, TouchesTrans
          <5>3. /\ told.groups = c.groups /\ told.out = c.out /\ told.grp[g].at = f.pos
                /\ told.grp[g].subs # 0 /\ ~told.grp[g].pending
                /\ told.byTopic[TopicOfGroup(c, g)] = g
            BY <1>4, <2>2, <2>3, <4>4 DEF Hears, Turns
          <5> QED
            BY ONLY <5>2, <5>3 DEF Starts
        <4>5. ASSUME Releases(a, told, g) PROVE Releases(c, told, g)
          <5>1. Touches(c, told, g)
            BY <2>3, <4>5, TouchesTrans DEF Releases
          <5>2. a.grp[g].key = c.grp[g].key /\ TopicOfGroup(a, g) = TopicOfGroup(c, g)
            BY <1>1, <2>2, <2>3
          <5> QED
            BY ONLY <2>3, <4>5, <5>1, <5>2 DEF Releases
        <4> QED
          BY <4>3, <4>4, <4>5
      <3> QED
        BY <3>1, <3>2
    <2>5. told \in Client /\ told.early = c.early
      <3>1. CASE ~moved
        BY <2>2, <2>3, <3>1
      <3>2. CASE moved
        <4> DEFINE m == TellGap(a, g, f)
        <4>1. told = Callback(m, g, leave)
          BY <3>2
        <4>2. Turns(a, m, g)
          BY <2>2, TellFacts
        <4> HIDE DEF m, told
        <4>3. Sheds(m, told)
          BY <4>1, <4>2, CallbackFacts DEF Turns
        <4> QED
          BY <2>3, <4>2, <4>3 DEF Sheds, Turns
      <3> QED
        BY <3>1, <3>2
    <2> HIDE DEF told
    <2>6. SameNames(told, d)
      BY <2>1, <2>5, ReplaySides
    <2>7. Touches(c, told, g) => Touches(c, d, g)
      BY <2>6 DEF Touches, SameNames
    <2>8. Starts(c, told, g, f.pos) => Starts(c, d, g, f.pos)
      BY <2>6, <2>7 DEF Starts, SameNames
    <2>9. Releases(c, told, g) => Releases(c, d, g)
      BY <2>6, <2>7 DEF Releases, SameNames
    <2> QED
      BY <2>4, <2>8, <2>9
  <1> QED
    BY <1>3, <1>4

-----------------------------------------------------------------------------
\* Every step keeps the sides of every topic.

\* r has the frames of t that s has.
Keeps(s, r, t) == \E n \in Nat : SameFor(s, r, t, n)

LEMMA KeepsRefl ==
  ASSUME NEW S, NEW s \in Seq(S), NEW t
  PROVE  Keeps(s, s, t)
  <1>1. PICK n \in Nat : n = 0
    OBVIOUS
  <1>2. SameFor(s, s, t, n)
    BY <1>1, SameRefl
  <1> QED
    BY <1>2 DEF Keeps

LEMMA KeepsAppend ==
  ASSUME NEW S, NEW s \in Seq(S), NEW x \in S, NEW t, x.topic # t
  PROVE  Keeps(s, Append(s, x), t)
  <1>1. PICK n \in Nat : n = 0
    OBVIOUS
  <1>2. SameFor(s, Append(s, x), t, n)
    BY <1>1, AppendAdds
  <1> QED
    BY <1>2 DEF Keeps

LEMMA KeepsTail ==
  ASSUME NEW S, NEW s \in Seq(S), s # <<>>, NEW t, Head(s).topic # t
  PROVE  Keeps(s, Tail(s), t)
  <1>1. PICK n \in Nat : n = 1
    OBVIOUS
  <1>2. SameFor(s, Tail(s), t, n)
    BY <1>1, TailSame
  <1> QED
    BY <1>2 DEF Keeps

LEMMA SideStays ==
  ASSUME NEW c \in Client, NEW d, NEW K \in SUBSET Gid, Linked(c, K), NEW t \in Topic,
         Elsewhere(c, d, t, K), NEW tk \in SUBSET K, NEW tl \in SUBSET K,
         \A h \in K : TopicOfGroup(c, h) = t => (h \in tl <=> h \in tk),
         NEW up \in Seq(Asked), NEW uq \in Seq(Asked), Keeps(up, uq, t),
         NEW down \in Seq(Sent), NEW dq \in Seq(Sent), Keeps(down, dq, t),
         NEW m, NEW p, Side(c, up, tk, down, m, p, t)
  PROVE  Side(d, uq, tl, dq, m, p, t)
  <1>1. PICK i \in Nat : SameFor(up, uq, t, i)
    BY DEF Keeps
  <1>2. PICK j \in Nat : SameFor(down, dq, t, j)
    BY DEF Keeps
  <1> QED
    BY <1>1, <1>2, SideElsewhere

\* Only the names and the groups matter.
LEMMA SideSame ==
  ASSUME NEW c, NEW d, d.groups = c.groups, d.grp = c.grp, d.byTopic = c.byTopic,
         NEW up, NEW tk, NEW down, NEW m, NEW p, NEW t, Side(c, up, tk, down, m, p, t)
  PROVE  Side(d, up, tk, down, m, p, t)
  <1>1. \A g : TopicOfGroup(d, g) = TopicOfGroup(c, g)
    BY DEF TopicOfGroup
  <1>2. /\ Free(d, t) <=> Free(c, t)
        /\ \A g : Waits(d, t, g) <=> Waits(c, t, g)
        /\ NoTask(d, tk, t) <=> NoTask(c, tk, t)
        /\ \A g : OneTask(d, tk, t, g) <=> OneTask(c, tk, t, g)
        /\ Named(d, t) <=> Named(c, t)
        /\ Sure(d, down, t) <=> Sure(c, down, t)
    BY <1>1 DEF Free, Waits, NoTask, OneTask, Named, Sure
  <1>3. /\ Resting(c, up, tk, down, t) => Resting(d, up, tk, down, t)
        /\ \A g : Asking(c, up, tk, down, t, g) => Asking(d, up, tk, down, t, g)
    BY <1>2 DEF Resting, Asking
  <1>4. Cleared(d, up, tk, down, t) /\ Matched(d, up, down, m, p, t)
    BY <1>2 DEF Side, Cleared, Matched
  <1> QED
    BY <1>2, <1>3, <1>4 DEF Side

\* What the handler of the client wrote, about v.
Wrote(d, v) == d.out = <<>> \/ \E x \in Asked : x.topic = v /\ d.out = Append(<<>>, x)
Took(v) ==
  \/ toClient' = toClient
  \/ toClient # <<>> /\ Head(toClient).topic = v /\ toClient' = Tail(toClient)

LEMMA SidesType ==
  ASSUME StreamInv
  PROVE  /\ client \in Client /\ Known \in SUBSET Gid /\ Linked(client, Known)
         /\ toServer \in Seq(Asked) /\ toClient \in Seq(Sent) /\ tasks \in SUBSET Known
         /\ tasks \in SUBSET Gid /\ client.out = <<>>
  BY KnownFacts DEF StreamInv, TypeOK, LinkInv

LEMMA OtherTopics ==
  ASSUME StreamInv, StreamInv', NEW d \in Client, NEW t \in Topic, NEW v, v # t,
         Elsewhere(client, d, t, Known), Becomes(d), Wrote(d, v), Took(v),
         UNCHANGED serverVars,
         Side(client, toServer, tasks, toClient, member[t], pos[t], t)
  PROVE  Side(client', toServer', tasks', toClient', member'[t], pos'[t], t)
  <1>1. /\ client \in Client /\ Known \in SUBSET Gid /\ Linked(client, Known)
        /\ toServer \in Seq(Asked) /\ toClient \in Seq(Sent) /\ tasks \in SUBSET Known
    BY SidesType
  <1>2. toServer' \in Seq(Asked) /\ toClient' \in Seq(Sent)
    BY DEF StreamInv, TypeOK
  <1>3. client' = Flushed(d) /\ toServer' = toServer \o d.out
    BY DEF Becomes, Flushed
  <1>4. client'.groups = d.groups /\ client'.grp = d.grp /\ client'.byTopic = d.byTopic
    BY <1>3, FlushedFacts
  <1>5. Elsewhere(client, client', t, Known)
    BY <1>4 DEF Elsewhere, TopicOfGroup
  <1>6. Keeps(toServer, toServer', t)
    <2>1. CASE d.out = <<>>
      <3>1. toServer' = toServer
        BY <1>1, <1>3, <2>1
      <3> QED
        BY <1>1, <3>1, KeepsRefl
    <2>2. CASE d.out # <<>>
      <3>1. PICK x \in Asked : x.topic = v /\ d.out = Append(<<>>, x)
        BY <2>2 DEF Wrote
      <3>2. toServer' = Append(toServer, x)
        BY <1>1, <1>3, <3>1
      <3> QED
        BY <1>1, <3>1, <3>2, KeepsAppend
    <2> QED
      BY <2>1, <2>2
  <1>7. Keeps(toClient, toClient', t)
    BY <1>1, KeepsRefl, KeepsTail DEF Took
  <1>8. tasks' = tasks /\ member' = member /\ pos' = pos
    BY DEF serverVars
  <1>9. Side(client', toServer', tasks, toClient', member[t], pos[t], t)
    BY <1>1, <1>2, <1>5, <1>6, <1>7, SideStays
  <1> QED
    BY <1>8, <1>9

\* No two keys have the same topic.
KeysApart == \A k \in Key : \A l \in Key : TopicOf[k] = TopicOf[l] => k = l

\* A step of the client about the group g: only the sides of its topic matter.
LEMMA TouchStep ==
  ASSUME StreamInv, StreamInv', SidesInv, ready, ready' = ready,
         NEW d \in Client, NEW g \in Gid, Touches(client, d, g), Becomes(d),
         NEW v, v = TopicOfGroup(client, g), Wrote(d, v), Took(v), UNCHANGED serverVars,
         Side(d, toServer', tasks, toClient', member[v], pos[v], v)
  PROVE  SidesInv'
  <1>0. client \in Client /\ Known \in SUBSET Gid
    BY SidesType
  <1>1. ASSUME NEW t \in Topic
        PROVE  Side(client', toServer', tasks', toClient', member'[t], pos'[t], t)
    <2>1. CASE t = v
      <3>1. client' = Flushed(d) /\ tasks' = tasks /\ member' = member /\ pos' = pos
        BY DEF Becomes, Flushed, serverVars
      <3>2. client'.groups = d.groups /\ client'.grp = d.grp /\ client'.byTopic = d.byTopic
        BY <3>1, FlushedFacts
      <3>3. Side(client', toServer', tasks, toClient', member[v], pos[v], v)
        BY <3>2, SideSame
      <3> QED
        BY <2>1, <3>1, <3>3
    <2>2. CASE t # v
      <3>1. Elsewhere(client, d, t, Known)
        BY <1>0, <2>2, TouchesElsewhere
      <3>2. Side(client, toServer, tasks, toClient, member[t], pos[t], t)
        BY DEF SidesInv
      <3> QED
        BY <2>2, <3>1, <3>2, OtherTopics
    <2> QED
      BY <2>1, <2>2
  <1> QED
    BY <1>1 DEF SidesInv

\* The key k is the only one of its topic: who is dispatched or waits is its group.
LEMMA NamesOf ==
  ASSUME KeysApart, NEW c \in Client, NEW K \in SUBSET Gid, Linked(c, K), Dispatched(c),
         NEW k \in Key, NEW v, v = TopicOf[k]
  PROVE  /\ c.byTopic[v] # 0 => c.byTopic[v] = c.groups[k] /\ c.grp[c.byTopic[v]].acked
                                /\ c.byTopic[v] \in Gid
         /\ \A h \in Gid : Waits(c, v, h) => h = c.groups[k]
  <1>0. v \in Topic
    BY Constants
  <1>1. ASSUME c.byTopic[v] # 0
        PROVE  /\ c.byTopic[v] = c.groups[k] /\ c.grp[c.byTopic[v]].acked
               /\ c.byTopic[v] \in Gid
    <2>1. /\ c.byTopic[v] \in K /\ TopicOfGroup(c, c.byTopic[v]) = v
          /\ c.grp[c.byTopic[v]].acked
      BY <1>0, <1>1 DEF Linked
    <2>2. c.grp[c.byTopic[v]].key \in Key
      BY <2>1, ClientFields
    <2>3. c.grp[c.byTopic[v]].key = k
      BY <2>1, <2>2 DEF KeysApart, TopicOfGroup
    <2> QED
      BY <1>0, <1>1, <2>1, <2>3 DEF Dispatched
  <1>2. ASSUME NEW h \in Gid, Waits(c, v, h) PROVE h = c.groups[k]
    <2>1. c.grp[h].key \in Key /\ TopicOf[c.grp[h].key] = v
      BY <1>2, ClientFields DEF Waits, TopicOfGroup
    <2>2. c.grp[h].key = k
      BY <2>1 DEF KeysApart
    <2> QED
      BY <1>2, <2>2 DEF Waits
  <1> QED
    BY <1>1, <1>2

LEMMA DispatchedRests ==
  ASSUME NEW c, NEW up, NEW tk, NEW down, NEW m, NEW p, NEW t,
         Side(c, up, tk, down, m, p, t), c.byTopic[t] # 0
  PROVE  Resting(c, up, tk, down, t) /\ LeavesFirst(up, t) /\ None(up, Leave, t)
  BY DEF Side, Asking, Waits, Cleared

\* A subscription the client knows nothing of is being left.
LEMMA ForgottenLeaves ==
  ASSUME NEW c, NEW up, NEW tk, NEW down \in Seq(Sent), NEW m, NEW p, NEW t,
         Side(c, up, tk, down, m, p, t), c.byTopic[t] = 0, None(down, Answer, t)
  PROVE  m = "explicit" => ~None(up, Leave, t)
  <1>1. ~HasBegin(down, t)
    BY BeginAnswers
  <1> QED
    BY <1>1 DEF Side, Matched, Sure

\* Nothing names the group of the only key of v any more.
LEMMA NowGone ==
  ASSUME KeysApart, NEW c \in Client, NEW d, NEW g \in Gid, Touches(c, d, g),
         NEW v, v = TopicOfGroup(c, g),
         d.groups[c.grp[g].key] = 0, d.byTopic[v] = 0, ~d.grp[g].pending,
         Free(c, v) \/ Waits(c, v, g), NEW tk \in SUBSET Gid, NoTask(c, tk, v),
         NEW up, None(up, Ask, v), LeavesFirst(up, v), NEW dq, None(dq, Answer, v)
  PROVE  Gone(d, up, tk, dq, v)
  <1>0. \A h \in Gid : TopicOfGroup(d, h) = TopicOfGroup(c, h)
    BY DEF Touches, TopicOfGroup
  <1>1. Free(d, v)
    <2>1. \A h \in Gid : h # g => d.grp[h] = c.grp[h]
      BY DEF Touches
    <2>2. ASSUME NEW h \in Gid, d.grp[h].pending, TopicOfGroup(d, h) = v PROVE FALSE
      <3>1. h # g
        BY <2>2
      <3>2. c.grp[h].pending /\ TopicOfGroup(c, h) = v
        BY <1>0, <2>1, <2>2, <3>1
      <3> QED
        BY <3>1, <3>2 DEF Free, Waits
    <2> QED
      BY <2>2 DEF Free
  <1>2. Named(d, v)
    <2>1. c.grp[g].key \in Key /\ TopicOf[c.grp[g].key] = v
      BY ClientFields DEF TopicOfGroup
    <2>2. \A k \in Key : TopicOf[k] = v => k = c.grp[g].key
      BY <2>1 DEF KeysApart
    <2> QED
      BY <2>2 DEF Named
  <1>3. NoTask(d, tk, v)
    BY <1>0 DEF NoTask
  <1> QED
    BY <1>1, <1>2, <1>3 DEF Gone

LEMMA WritesOne ==
  ASSUME StreamInv, NEW d, Becomes(d), NEW x \in Asked, d.out = Append(client.out, x),
         NEW v, x.topic = v
  PROVE  Wrote(d, v) /\ AddsOne(toServer, toServer', v, x) /\ toServer' \in Seq(Asked)
  <1>1. toServer \in Seq(Asked) /\ client.out = <<>>
    BY SidesType
  <1>2. toServer' = toServer \o d.out /\ d.out = Append(<<>>, x)
    BY <1>1 DEF Becomes
  <1>3. toServer' = Append(toServer, x)
    BY <1>1, <1>2
  <1> QED
    BY <1>1, <1>2, <1>3, AppendAdds DEF Wrote

LEMMA WritesNone ==
  ASSUME StreamInv, NEW d, Becomes(d), d.out = client.out, NEW v
  PROVE  Wrote(d, v) /\ toServer' = toServer
  <1>1. toServer \in Seq(Asked) /\ client.out = <<>>
    BY SidesType
  <1>2. toServer' = toServer \o d.out /\ d.out = <<>>
    BY <1>1 DEF Becomes
  <1> QED
    BY <1>1, <1>2 DEF Wrote

LEMMA ReleaseStep ==
  ASSUME KeysApart, StreamInv, StreamInv', SidesInv, ready, ready' = ready,
         NEW d, NEW g \in Gid, Releases(client, d, g), Becomes(d),
         NEW v, v = TopicOfGroup(client, g), Took(v), UNCHANGED serverVars,
         Free(client, v) \/ Waits(client, v, g), NoTask(client, tasks, v),
         None(toServer, Ask, v), LeavesFirst(toServer, v), None(toClient', Answer, v)
  PROVE  SidesInv'
  <1>0. client \in Client /\ tasks \in SUBSET Gid /\ toServer \in Seq(Asked)
    BY SidesType
  <1>1. /\ Touches(client, d, g) /\ d \in Client /\ d.groups[client.grp[g].key] = 0
        /\ d.byTopic[v] = 0 /\ ~d.grp[g].pending
    BY DEF Releases, Touches
  <1>2. PICK x \in Asked : x.kind = "unsubscribe" /\ x.topic = v /\ d.out = Append(client.out, x)
    BY DEF Releases
  <1>3. Wrote(d, v) /\ AddsOne(toServer, toServer', v, x) /\ toServer' \in Seq(Asked)
    BY <1>2, WritesOne
  <1>4. Gone(d, toServer, tasks, toClient', v)
    BY <1>0, <1>1, NowGone
  <1>5. Side(d, toServer', tasks, toClient', member[v], pos[v], v)
    BY <1>0, <1>2, <1>3, <1>4, SideReleases
  <1> QED
    BY <1>1, <1>3, <1>5, TouchStep

LEMMA DropStep ==
  ASSUME KeysApart, StreamInv, StreamInv', SidesInv, ready, ready' = ready,
         NEW d, NEW g \in Gid, Drops(client, d, g), Becomes(d),
         NEW v, v = TopicOfGroup(client, g), Took(v), UNCHANGED serverVars,
         Free(client, v) \/ Waits(client, v, g), NoTask(client, tasks, v),
         None(toServer, Ask, v), LeavesFirst(toServer, v), None(toClient', Answer, v),
         member[v] = "explicit" => ~None(toServer, Leave, v)
  PROVE  SidesInv'
  <1>0. client \in Client /\ tasks \in SUBSET Gid /\ toServer \in Seq(Asked)
    BY SidesType
  <1>1. /\ Touches(client, d, g) /\ d \in Client /\ d.groups[client.grp[g].key] = 0
        /\ d.byTopic[v] = 0 /\ ~d.grp[g].pending /\ d.out = client.out
    BY DEF Drops, Touches
  <1>3. Wrote(d, v) /\ toServer' = toServer
    BY <1>1, WritesNone
  <1>4. Gone(d, toServer, tasks, toClient', v)
    BY <1>0, <1>1, NowGone
  <1>5. Side(d, toServer', tasks, toClient', member[v], pos[v], v)
    BY <1>3, <1>4, SideDrops
  <1> QED
    BY <1>1, <1>3, <1>5, TouchStep

\* unsubscribe() on a handle.
LEMMA UnsubscribeSides ==
  ASSUME KeysApart, ~StaleHandles, StreamInv, StreamInv', SurviveInv, SidesInv, ready,
         NEW g \in Gid, Unsubscribe(g)
  PROVE  SidesInv'
  <1> DEFINE v == TopicOfGroup(client, g)
             k == client.grp[g].key
             n == client.grp[g].subs - 1
             d == RemoveHandle(client, g, n, ready)
  <1>0. /\ client \in Client /\ Known \in SUBSET Gid /\ Linked(client, Known)
        /\ toServer \in Seq(Asked) /\ toClient \in Seq(Sent) /\ tasks \in SUBSET Gid
        /\ ready \in BOOLEAN
    BY SidesType DEF StreamInv, TypeOK
  <1>1. /\ client.grp[g].subs > 0 /\ client.groups[k] \in {0, g} /\ Becomes(d)
        /\ toClient' = toClient /\ ready' = ready /\ UNCHANGED serverVars
    BY DEF Unsubscribe
  <1>2. client.grp[g].subs \in Nat /\ k \in Key /\ v \in Topic /\ v = TopicOf[k]
    BY <1>0, ClientFields DEF Group, TopicOfGroup
  <1>3. n \in Nat /\ n <= client.grp[g].subs
    BY <1>1, <1>2
  <1>4. Removes(client, d, g, n, ready, v)
    BY <1>0, <1>3, RemoveHandleSides
  <1>t. Took(v)
    BY <1>1 DEF Took
  <1>s. Side(client, toServer, tasks, toClient, member[v], pos[v], v)
    BY <1>2 DEF SidesInv
  <1>n. /\ client.byTopic[v] # 0 => client.byTopic[v] = client.groups[k]
                                    /\ client.grp[client.byTopic[v]].acked
                                    /\ client.byTopic[v] \in Gid
        /\ \A h \in Gid : Waits(client, v, h) => h = client.groups[k]
    BY <1>0, <1>2, NamesOf DEF SurviveInv
  <1> HIDE DEF v, k, n, d
  <1>v. v = TopicOfGroup(client, g) /\ k = client.grp[g].key
    BY DEF v, k
  <1>5. CASE n > 0 \/ client.grp[g].pending
    <2>1. /\ Touches(client, d, g) /\ d.groups = client.groups /\ d.byTopic = client.byTopic
          /\ d.out = client.out /\ d.grp[g].pending = client.grp[g].pending
          /\ d.grp[g].at = client.grp[g].at /\ d.grp[g].subs = n
      BY <1>4, <1>5 DEF Removes
    <2>2. d \in Client /\ \A h \in Gid : /\ d.grp[h].pending = client.grp[h].pending
                                         /\ d.grp[h].key = client.grp[h].key
                                         /\ d.grp[h].at = client.grp[h].at
      BY <2>1 DEF Touches
    <2>3. Named(d, v)
      <3>1. ASSUME client.byTopic[v] # 0 PROVE d.grp[client.byTopic[v]].subs > 0
        <4>1. CASE client.byTopic[v] = g
          <5>1. Free(client, v)
            BY <1>s, <3>1, DispatchedRests DEF Resting
          <5>2. ~client.grp[g].pending
            BY <1>v, <5>1 DEF Free
          <5> QED
            BY <1>5, <2>1, <4>1, <5>2
        <4>2. CASE client.byTopic[v] # g
          BY <1>n, <1>s, <2>1, <3>1, <4>2 DEF Touches, Side, Named
        <4> QED
          BY <4>1, <4>2
      <3>2. ASSUME NEW l \in Key, TopicOf[l] = v, client.groups[l] # 0
            PROVE  client.byTopic[v] = client.groups[l] \/ d.grp[client.groups[l]].pending
        <4>1. client.groups[l] \in Gid
          BY <1>0, <3>2 DEF Linked
        <4> QED
          BY <1>s, <2>2, <3>2, <4>1 DEF Side, Named
      <3> QED
        BY <2>1, <3>1, <3>2 DEF Named
    <2>4. Wrote(d, v) /\ toServer' = toServer
      BY <1>1, <2>1, WritesNone
    <2>5. Side(d, toServer', tasks, toClient', member[v], pos[v], v)
      <3>1. client.byTopic[v] \in Gid \union {0}
        BY <1>n
      <3>2. d.byTopic[v] = client.byTopic[v] /\ d.groups = client.groups
        BY <2>1
      <3>3. Side(d, toServer, tasks, toClient, member[v], pos[v], v)
        BY <1>0, <1>s, <2>2, <2>3, <3>1, <3>2, SideReaders
      <3> QED
        BY <1>1, <2>4, <3>3
    <2> QED
      BY <1>1, <1>t, <1>v, <2>1, <2>2, <2>4, <2>5, TouchStep
  <1>6. CASE n = 0 /\ ~client.grp[g].pending
    <2>1. /\ Touches(client, d, g) /\ d.groups[k] = 0
          /\ d.grp[g].pending = client.grp[g].pending
          /\ d.byTopic[v] = IF client.grp[g].acked /\ client.byTopic[v] = g THEN 0
                            ELSE client.byTopic[v]
      BY <1>4, <1>6, <1>v DEF Removes
    <2>2. d.byTopic[v] = 0
      BY <1>1, <1>n, <2>1
    <2>3. Resting(client, toServer, tasks, toClient, v)
      <3>1. \A h \in Gid : ~Waits(client, v, h)
        <4>1. ASSUME NEW h \in Gid, Waits(client, v, h) PROVE FALSE
          <5>1. h = g /\ client.grp[h].pending
            BY <1>1, <1>n, <4>1 DEF Waits, Gid
          <5> QED
            BY <1>6, <5>1
        <4> QED
          BY <4>1
      <3> QED
        BY <1>s, <3>1 DEF Side, Asking
    <2>4. /\ Free(client, v) /\ NoTask(client, tasks, v) /\ None(toServer, Ask, v)
          /\ None(toClient', Answer, v) /\ LeavesFirst(toServer, v)
      BY <1>1, <1>s, <2>3 DEF Resting, Side, Cleared
    <2>5. CASE client.grp[g].acked
      <3>1. \E x \in Asked : /\ x.kind = "unsubscribe" /\ x.topic = v
                             /\ d.out = Append(client.out, x)
        BY <1>4, <1>6, <2>5 DEF Removes
      <3>2. Releases(client, d, g)
        BY <1>6, <1>v, <2>1, <2>2, <3>1 DEF Releases
      <3> QED
        BY <1>1, <1>t, <1>v, <2>4, <3>2, ReleaseStep
    <2>6. CASE ~client.grp[g].acked
      <3>1. d.out = client.out
        BY <1>4, <1>6, <2>6 DEF Removes
      <3>2. Drops(client, d, g)
        BY <1>6, <1>v, <2>1, <2>2, <3>1 DEF Drops
      <3>3. client.byTopic[v] = 0
        BY <1>1, <1>n, <2>6
      <3>4. member[v] = "explicit" => ~None(toServer, Leave, v)
        BY <1>0, <1>1, <1>s, <2>4, <3>3, ForgottenLeaves
      <3> QED
        BY <1>1, <1>t, <1>v, <2>4, <3>2, <3>4, DropStep
    <2> QED
      BY <2>5, <2>6
  <1> QED
    BY <1>3, <1>5, <1>6

\* One more handle.
LEMMA MoreSides ==
  ASSUME KeysApart, StreamInv, StreamInv', SurviveInv, SidesInv, ready,
         NEW k \in Key, SubscribeMore(k)
  PROVE  SidesInv'
  <1> DEFINE g == client.groups[k]
             v == TopicOfGroup(client, g)
             n == client.grp[g].subs + 1
             d == [client EXCEPT !.grp[g].subs = n]
  <1>0. /\ client \in Client /\ Known \in SUBSET Gid /\ Linked(client, Known)
        /\ toServer \in Seq(Asked) /\ toClient \in Seq(Sent) /\ tasks \in SUBSET Gid
    BY SidesType
  <1>1. /\ g # 0 /\ Becomes(d) /\ toClient' = toClient /\ ready' = ready
        /\ UNCHANGED serverVars
    BY DEF SubscribeMore
  <1>2. g \in Gid /\ client.grp[g].key = k
    BY <1>0, <1>1 DEF Linked
  <1>3. client.grp[g].subs \in Nat /\ v \in Topic /\ v = TopicOf[k]
    BY <1>0, <1>2, ClientFields DEF Group, TopicOfGroup
  <1>4. n \in Nat /\ n > 0
    BY <1>3
  <1>5. /\ d \in Client /\ d.groups = client.groups /\ d.byTopic = client.byTopic
        /\ d.out = client.out /\ d.grp[g].subs = n /\ d.grp[g].key = client.grp[g].key
        /\ d.grp[g].at = client.grp[g].at /\ d.grp[g].pending = client.grp[g].pending
        /\ \A h \in Gid : h # g => d.grp[h] = client.grp[h]
    <2> HIDE DEF n, g
    <2> QED
      BY <1>0, <1>2, <1>4, SubsFacts
  <1>s. Side(client, toServer, tasks, toClient, member[v], pos[v], v)
    BY <1>3 DEF SidesInv
  <1>n. client.byTopic[v] # 0 => client.byTopic[v] \in Gid
    <2>1. Dispatched(client)
      BY DEF SurviveInv
    <2>2. v = TopicOf[k]
      BY <1>3
    <2> HIDE DEF v
    <2> QED
      BY ONLY KeysApart, <1>0, <2>1, <2>2, k \in Key, NamesOf
  <1>v. v = TopicOfGroup(client, g)
    OBVIOUS
  <1>t. Took(v)
    BY <1>1 DEF Took
  <1> HIDE DEF g, v, n, d
  <1>6. Touches(client, d, g) /\ \A h \in Gid : /\ d.grp[h].pending = client.grp[h].pending
                                                /\ d.grp[h].key = client.grp[h].key
                                                /\ d.grp[h].at = client.grp[h].at
    BY <1>2, <1>5 DEF Touches
  <1>7. Named(d, v)
    <2>1. client.byTopic[v] # 0 => d.grp[client.byTopic[v]].subs > 0
      <3>1. CASE client.byTopic[v] = g
        BY <1>4, <1>5, <3>1
      <3>2. CASE client.byTopic[v] # g
        BY <1>n, <1>s, <1>5, <3>2 DEF Side, Named
      <3> QED
        BY <3>1, <3>2
    <2>2. ASSUME NEW l \in Key, TopicOf[l] = v, client.groups[l] # 0
          PROVE  client.byTopic[v] = client.groups[l] \/ d.grp[client.groups[l]].pending
      <3>1. client.groups[l] \in Gid
        BY <1>0, <2>2 DEF Linked
      <3> QED
        BY <1>s, <1>6, <2>2, <3>1 DEF Side, Named
    <2> QED
      BY <1>5, <2>1, <2>2 DEF Named
  <1>8. Wrote(d, v) /\ toServer' = toServer
    BY <1>1, <1>5, WritesNone
  <1>9. Side(d, toServer', tasks, toClient', member[v], pos[v], v)
    <2>1. client.byTopic[v] \in Gid \union {0}
      BY <1>n
    <2>2. d.byTopic[v] = client.byTopic[v] /\ d.groups = client.groups
      BY <1>5
    <2>3. Side(d, toServer, tasks, toClient, member[v], pos[v], v)
      BY <1>0, <1>s, <1>6, <1>7, <2>1, <2>2, SideReaders
    <2> QED
      BY <1>1, <1>8, <2>3
  <1> QED
    BY <1>1, <1>2, <1>5, <1>6, <1>8, <1>9, <1>t, <1>v, TouchStep

\* A key gets a group, which is asked for.
LEMMA NewSides ==
  ASSUME KeysApart, StreamInv, StreamInv', SurviveInv, SidesInv, ready,
         NEW k \in Key, SubscribeNew(k)
  PROVE  SidesInv'
  <1> DEFINE n == nextGroup
             v == TopicOf[k]
             e == New(client, k, n)
             d == Send(e, n)
  <1>0. /\ client \in Client /\ Known \in SUBSET Gid /\ Linked(client, Known)
        /\ toServer \in Seq(Asked) /\ toClient \in Seq(Sent) /\ tasks \in SUBSET Known
        /\ client.out = <<>> /\ tasks \in SUBSET Gid
    BY SidesType
  <1>1. /\ n \in Gid /\ client.groups[k] = 0 /\ Becomes(d) /\ toClient' = toClient
        /\ ready' = ready /\ UNCHANGED serverVars
    BY DEF SubscribeNew, New
  <1>2. /\ e \in Client /\ e.byTopic = client.byTopic /\ e.out = client.out
        /\ e.groups[k] = n /\ \A j \in Key : j # k => e.groups[j] = client.groups[j]
        /\ e.grp[n].key = k /\ \A h \in Gid : h # n => e.grp[h] = client.grp[h]
    BY <1>0, <1>1, NewFacts
  <1>3. v \in Topic /\ v = TopicOf[k]
    BY Constants
  <1>4. n \notin Known
    BY DEF Known, StreamInv, TypeOK
  <1>t. Took(v)
    BY <1>1 DEF Took
  <1> HIDE DEF n, v, e
  <1>5. AskedFor(e, d, n)
    BY <1>1, <1>2, SendSides
  <1> HIDE DEF d
  <1>6. /\ d \in Client /\ d.byTopic = client.byTopic
        /\ d.groups[k] = n /\ \A j \in Key : j # k => d.groups[j] = client.groups[j]
        /\ d.grp[n].key = k /\ d.grp[n].pending
        /\ \A h \in Gid : h # n => d.grp[h] = client.grp[h]
    BY <1>2, <1>5 DEF AskedFor, Touches
  <1>7. PICK x \in Asked : x.kind = "subscribe" /\ x.group = n /\ x.topic = v
                           /\ d.out = Append(client.out, x)
    BY <1>2, <1>3, <1>5 DEF AskedFor, TopicOfGroup
  <1>8. Wrote(d, v) /\ AddsOne(toServer, toServer', v, x) /\ toServer' \in Seq(Asked)
    BY <1>1, <1>7, WritesOne
  <1>s. Side(client, toServer, tasks, toClient, member[v], pos[v], v)
    BY <1>3 DEF SidesInv
  <1>n. client.byTopic[v] = 0 /\ Resting(client, toServer, tasks, toClient, v)
    <2>1. /\ client.byTopic[v] # 0 => client.byTopic[v] = client.groups[k]
          /\ \A h \in Gid : Waits(client, v, h) => h = client.groups[k]
      BY <1>0, <1>3, NamesOf DEF SurviveInv
    <2>2. \A h \in Gid : ~Waits(client, v, h)
      BY <1>1, <2>1 DEF Gid
    <2> QED
      BY <1>1, <1>s, <2>1, <2>2 DEF Side, Asking
  <1>9. Waits(d, v, n)
    <2>1. TopicOfGroup(d, n) = v
      BY <1>3, <1>6 DEF TopicOfGroup
    <2>2. ASSUME NEW h \in Gid, d.grp[h].pending, TopicOfGroup(d, h) = v, h # n PROVE FALSE
      <3>1. client.grp[h].pending /\ TopicOfGroup(client, h) = v
        BY <1>6, <2>2 DEF TopicOfGroup
      <3> QED
        BY <1>n, <3>1 DEF Resting, Free
    <2> QED
      BY <1>6, <1>n, <2>1, <2>2 DEF Waits
  <1>10. Named(d, v)
    <2>1. \A l \in Key : TopicOf[l] = v => l = k
      BY <1>3 DEF KeysApart
    <2> QED
      BY <1>6, <1>n, <2>1 DEF Named
  <1>11. NoTask(d, tasks, v)
    <2>1. \A h \in tasks : h # n /\ h \in Gid
      BY <1>0, <1>4
    <2>2. \A h \in tasks : TopicOfGroup(d, h) = TopicOfGroup(client, h)
      BY <1>6, <2>1 DEF TopicOfGroup
    <2> QED
      BY <1>n, <2>2 DEF Resting, NoTask
  <1>12. Side(d, toServer', tasks, toClient', member[v], pos[v], v)
    <2>1. member[v] = "explicit" => ~None(toServer, Leave, v)
      BY <1>0, <1>n, <1>s, ForgottenLeaves DEF Resting
    <2>2. None(toServer, Ask, v) /\ LeavesFirst(toServer, v) /\ None(toClient', Answer, v)
      BY <1>1, <1>n, <1>s DEF Resting, Side, Cleared
    <2> QED
      BY <1>0, <1>1, <1>7, <1>8, <1>9, <1>10, <1>11, <2>1, <2>2, SideAsks
  <1>13. ASSUME NEW t \in Topic
         PROVE  Side(client', toServer', tasks', toClient', member'[t], pos'[t], t)
    <2>1. CASE t = v
      <3>1. client' = Flushed(d) /\ tasks' = tasks /\ member' = member /\ pos' = pos
        BY <1>1 DEF Becomes, Flushed, serverVars
      <3>2. client'.groups = d.groups /\ client'.grp = d.grp /\ client'.byTopic = d.byTopic
        BY <1>6, <3>1, FlushedFacts
      <3>3. Side(client', toServer', tasks, toClient', member[v], pos[v], v)
        BY <1>12, <3>2, SideSame
      <3> QED
        BY <2>1, <3>1, <3>3
    <2>2. CASE t # v
      <3>1. Elsewhere(client, d, t, Known)
        <4>1. \A j \in Key : TopicOf[j] = t => j # k
          BY <1>3, <2>2
        <4>2. TopicOfGroup(d, n) # t
          BY <1>3, <1>6, <2>2 DEF TopicOfGroup
        <4> QED
          BY <1>0, <1>4, <1>6, <4>1, <4>2 DEF Elsewhere
      <3>2. Side(client, toServer, tasks, toClient, member[t], pos[t], t)
        BY DEF SidesInv
      <3> QED
        BY <1>1, <1>6, <1>8, <1>t, <2>2, <3>1, <3>2, OtherTopics
    <2> QED
      BY <2>1, <2>2
  <1> QED
    BY <1>1, <1>13 DEF SidesInv

\* While the connection is down the client writes nothing and waits for nothing.
LEMMA OwnQuiet ==
  ASSUME StreamInv, SidesInv, ~ready, ready' = ready, toClient' = toClient,
         UNCHANGED serverVars, NEW d \in Client, Becomes(d), d.out = client.out,
         \A g \in Gid : ~d.grp[g].pending
  PROVE  SidesInv'
  <1>1. Quiet
    BY DEF SidesInv
  <1>2. toServer' = toServer
    BY WritesNone
  <1>3. client' = Flushed(d) /\ tasks' = tasks /\ member' = member
    BY DEF Becomes, Flushed, serverVars
  <1>4. client'.grp = d.grp
    BY <1>3, FlushedFacts
  <1>5. Quiet'
    BY <1>1, <1>2, <1>3, <1>4 DEF Quiet
  <1> QED
    BY <1>5 DEF SidesInv

LEMMA OwnDown ==
  ASSUME StreamInv, SidesInv, ~ready,
         \/ \E k \in Key : SubscribeNew(k) \/ SubscribeMore(k)
         \/ \E g \in Gid : Unsubscribe(g)
  PROVE  SidesInv'
  <1>0. /\ client \in Client /\ Known \in SUBSET Gid /\ Linked(client, Known)
        /\ ready \in BOOLEAN /\ \A g \in Gid : ~client.grp[g].pending
    BY SidesType DEF StreamInv, TypeOK, SidesInv, Quiet
  <1>1. ASSUME NEW k \in Key, SubscribeNew(k) PROVE SidesInv'
    <2> DEFINE n == nextGroup
               d == New(client, k, n)
    <2>1. /\ n \in Gid /\ Becomes(d) /\ toClient' = toClient
          /\ ready' = ready /\ UNCHANGED serverVars
      BY <1>1 DEF SubscribeNew, New
    <2>2. /\ d \in Client /\ d.out = client.out /\ ~d.grp[n].pending
          /\ \A h \in Gid : h # n => d.grp[h] = client.grp[h]
      BY <1>0, <2>1, NewFacts
    <2> HIDE DEF d, n
    <2>3. \A h \in Gid : ~d.grp[h].pending
      BY <1>0, <2>2
    <2> QED
      BY <2>1, <2>2, <2>3, OwnQuiet
  <1>2. ASSUME NEW k \in Key, SubscribeMore(k) PROVE SidesInv'
    <2> DEFINE g == client.groups[k]
               n == client.grp[g].subs + 1
               d == [client EXCEPT !.grp[g].subs = n]
    <2>1. /\ g # 0 /\ Becomes(d) /\ toClient' = toClient /\ ready' = ready
          /\ UNCHANGED serverVars
      BY <1>2 DEF SubscribeMore
    <2>2. g \in Gid
      BY <1>0, <2>1 DEF Linked
    <2>3. n \in Nat
      BY <1>0, <2>2, ClientFields DEF Group
    <2> HIDE DEF g, n
    <2>4. /\ d \in Client /\ d.out = client.out /\ d.grp[g].pending = client.grp[g].pending
          /\ \A h \in Gid : h # g => d.grp[h] = client.grp[h]
      BY <1>0, <2>2, <2>3, SubsFacts
    <2> HIDE DEF d
    <2>5. \A h \in Gid : ~d.grp[h].pending
      BY <1>0, <2>2, <2>4
    <2> QED
      BY <2>1, <2>4, <2>5, OwnQuiet
  <1>3. ASSUME NEW g \in Gid, Unsubscribe(g) PROVE SidesInv'
    <2> DEFINE v == TopicOfGroup(client, g)
               n == client.grp[g].subs - 1
               d == RemoveHandle(client, g, n, ready)
    <2>1. /\ client.grp[g].subs > 0 /\ Becomes(d)
          /\ toClient' = toClient /\ ready' = ready /\ UNCHANGED serverVars
      BY <1>3 DEF Unsubscribe
    <2>2. client.grp[g].subs \in Nat
      BY <1>0, ClientFields DEF Group
    <2>3. n \in Nat /\ n <= client.grp[g].subs
      BY <2>1, <2>2
    <2>4. Removes(client, d, g, n, ready, v)
      BY <1>0, <2>3, RemoveHandleSides
    <2> HIDE DEF v, n, d
    <2>5. /\ Touches(client, d, g) /\ d.grp[g].pending = client.grp[g].pending
          /\ d.out = client.out
      BY <1>0, <2>3, <2>4 DEF Removes
    <2>6. d \in Client /\ \A h \in Gid : ~d.grp[h].pending
      BY <1>0, <2>5 DEF Touches
    <2> QED
      BY <2>1, <2>5, <2>6, OwnQuiet
  <1> QED
    BY <1>1, <1>2, <1>3

\* A frame about a topic that is not dispatched.
LEMMA IgnoreStep ==
  ASSUME StreamInv, StreamInv', SidesInv, ready, ready' = ready,
         NEW d, SameNames(client, d), Becomes(d), UNCHANGED serverVars,
         NEW f, NEW v \in Topic, TakesOne(toClient, toClient', v, f), f.kind \notin Answer,
         client.byTopic[v] = 0
  PROVE  SidesInv'
  <1>0. /\ client \in Client /\ toClient \in Seq(Sent) /\ client.out = <<>>
    BY SidesType
  <1>1. /\ d \in Client /\ d.groups = client.groups /\ d.grp = client.grp
        /\ d.byTopic = client.byTopic /\ d.out = client.out
    BY DEF SameNames
  <1>2. Wrote(d, v) /\ toServer' = toServer
    BY <1>1, WritesNone
  <1>3. Took(v)
    BY DEF Took, TakesOne
  <1>4. ASSUME NEW t \in Topic
        PROVE  Side(client', toServer', tasks', toClient', member'[t], pos'[t], t)
    <2>0. Side(client, toServer, tasks, toClient, member[t], pos[t], t)
      BY DEF SidesInv
    <2>1. CASE t = v
      <3>1. client' = Flushed(d) /\ tasks' = tasks /\ member' = member /\ pos' = pos
        BY DEF Becomes, Flushed, serverVars
      <3>2. /\ client'.groups = client.groups /\ client'.grp = client.grp
            /\ client'.byTopic = client.byTopic
        BY <1>1, <3>1, FlushedFacts
      <3>3. Side(client, toServer, tasks, toClient', member[t], pos[t], t)
        BY <1>0, <2>0, <2>1, SideIgnores
      <3>4. Side(client', toServer, tasks, toClient', member[t], pos[t], t)
        BY <3>2, <3>3, SideSame
      <3> QED
        BY <1>2, <3>1, <3>4
    <2>2. CASE t # v
      <3>1. Elsewhere(client, d, t, Known)
        BY <1>1 DEF Elsewhere, TopicOfGroup
      <3> QED
        BY <1>1, <1>2, <1>3, <2>0, <2>2, <3>1, OtherTopics
    <2> QED
      BY <2>1, <2>2
  <1> QED
    BY <1>4 DEF SidesInv

\* The frame f, about v, is taken; the group g is dispatched for it.
LEMMA TakenFacts ==
  ASSUME StreamInv, SidesInv, ready, toClient # <<>>, toClient' = Tail(toClient),
         NEW f, f = Head(toClient), NEW v, v = f.topic, NEW g, g = client.byTopic[v]
  PROVE  /\ f \in Sent /\ v \in Topic /\ TakesOne(toClient, toClient', v, f) /\ Took(v)
         /\ Side(client, toServer, tasks, toClient, member[v], pos[v], v)
         /\ g # 0 =>
              /\ g \in Gid /\ TopicOfGroup(client, g) = v /\ client.grp[g].acked
              /\ ~client.grp[g].pending /\ Resting(client, toServer, tasks, toClient, v)
              /\ LeavesFirst(toServer, v) /\ None(toServer, Leave, v)
         /\ f.kind \notin Answer => (None(toClient', Answer, v) <=> None(toClient, Answer, v))
  <1>0. /\ client \in Client /\ Known \in SUBSET Gid /\ Linked(client, Known)
        /\ toClient \in Seq(Sent)
    BY SidesType
  <1>1. f \in Sent /\ v \in Topic
    <2>1. f \in Sent
      BY <1>0, TailFacts
    <2> QED
      BY <2>1 DEF Sent
  <1>2. TakesOne(toClient, toClient', v, f) /\ Took(v)
    BY DEF TakesOne, Took
  <1>3. Side(client, toServer, tasks, toClient, member[v], pos[v], v)
    BY <1>1 DEF SidesInv
  <1>4. ASSUME g # 0
        PROVE  /\ g \in Gid /\ TopicOfGroup(client, g) = v /\ client.grp[g].acked
               /\ ~client.grp[g].pending /\ Resting(client, toServer, tasks, toClient, v)
               /\ LeavesFirst(toServer, v) /\ None(toServer, Leave, v)
    <2>1. g \in Known /\ TopicOfGroup(client, g) = v /\ client.grp[g].acked
      BY <1>0, <1>1, <1>4 DEF Linked
    <2>2. /\ Resting(client, toServer, tasks, toClient, v)
          /\ LeavesFirst(toServer, v) /\ None(toServer, Leave, v)
      BY <1>3, <1>4, DispatchedRests
    <2>3. g \in Gid
      BY <1>0, <2>1
    <2>4. ~client.grp[g].pending
      BY <2>1, <2>2, <2>3 DEF Resting, Free
    <2> QED
      BY <2>1, <2>2, <2>3, <2>4
  <1>5. f.kind \notin Answer => (None(toClient', Answer, v) <=> None(toClient, Answer, v))
    BY <1>0, <1>2, TakesNone
  <1> QED
    BY <1>1, <1>2, <1>3, <1>4, <1>5

\* A reader that knows of every message learns of no other.
LEMMA NothingNewer ==
  ASSUME StreamInv, toClient # <<>>, NEW f, f = Head(toClient), f.kind \in Telling,
         NEW v, v = f.topic, NEW g \in Known, TopicOfGroup(client, g) = v,
         client.grp[g].epoch # 0
  PROVE  /\ client.grp[g].at = pos[v] => f.pos = pos[v]
         /\ f.epoch = client.grp[g].epoch /\ f.seq = client.grp[g].seq =>
               client.grp[g].at = f.pos
  <1> DEFINE m == Mark(client, g)
  <1>0. /\ client \in Client /\ toClient \in Seq(Sent) /\ Known \in SUBSET Gid /\ TypeOK
    BY SidesType DEF StreamInv
  <1>1. f = toClient[1] /\ 1 \in DOMAIN toClient /\ f \in Sent
    BY <1>0, TailFacts
  <1>2. v \in Topic /\ f.pos \in Nat /\ f.seq \in Nat
    BY <1>1 DEF Sent
  <1>3. client.grp[g].at \in Nat /\ client.grp[g].seq \in Nat /\ pos[v] \in Nat
    BY <1>0, <1>2, ClientFields DEF Group, TypeOK
  <1>4. /\ m.epoch = client.grp[g].epoch /\ m.seq = client.grp[g].seq
        /\ m.pos = client.grp[g].at
    BY DEF Mark
  <1>5. m \in Places(client, Known, v)
    BY DEF Places
  <1> HIDE DEF m
  <1>6. Ahead(toClient, 1, v, m)
    BY <1>2, <1>5 DEF StreamInv, FeedInv, InOrder
  <1>7. Then(m, f)
    BY <1>1, <1>6 DEF Ahead
  <1>8. f.pos <= pos[v]
    <2>1. Past(Streams, v, f)
      BY <1>1 DEF StreamInv, FeedInv, InOrder
    <2> QED
      BY <1>0, <2>1, StreamsFacts DEF Past
  <1>9. m.pos <= f.pos /\ (m.epoch = f.epoch => m.pos + f.seq = f.pos + m.seq)
    BY <1>7 DEF Then
  <1> QED
    BY <1>2, <1>3, <1>4, <1>8, <1>9

\* The client is told where a topic is.
LEMMA TellSides ==
  ASSUME KeysApart, StreamInv, StreamInv', SidesInv, ready, ready' = ready,
         toClient # <<>>, toClient' = Tail(toClient), UNCHANGED serverVars,
         NEW f, f = Head(toClient), f.kind \in {"publish", "reset"},
         NEW g, g = client.byTopic[f.topic], NEW d, Becomes(d),
         g = 0 => SameNames(client, d),
         g \in Gid /\ g # 0 /\ TopicOfGroup(client, g) = f.topic /\ ~client.grp[g].pending
            /\ client.grp[g].acked => Hears(client, d, g, f.pos) \/ Releases(client, d, g)
  PROVE  SidesInv'
  <1> DEFINE v == f.topic
  <1>k. f.kind \notin Answer /\ f.kind \in Telling
    BY DEF Answer, Telling
  <1>0. /\ client \in Client /\ Known \in SUBSET Gid /\ Linked(client, Known)
        /\ toClient \in Seq(Sent) /\ tasks \in SUBSET Gid
    BY SidesType
  <1>1. /\ f \in Sent /\ v \in Topic /\ TakesOne(toClient, toClient', v, f) /\ Took(v)
        /\ Side(client, toServer, tasks, toClient, member[v], pos[v], v)
        /\ g # 0 =>
             /\ g \in Gid /\ TopicOfGroup(client, g) = v /\ client.grp[g].acked
             /\ ~client.grp[g].pending /\ Resting(client, toServer, tasks, toClient, v)
             /\ LeavesFirst(toServer, v) /\ None(toServer, Leave, v)
        /\ f.kind \notin Answer => (None(toClient', Answer, v) <=> None(toClient, Answer, v))
    BY TakenFacts
  <1>v. v = f.topic
    OBVIOUS
  <1> HIDE DEF v
  <1>2. CASE g = 0
    <2>1. SameNames(client, d) /\ client.byTopic[v] = 0
      BY <1>2, <1>v
    <2> QED
      BY <1>k, <1>1, <2>1, IgnoreStep
  <1>3. CASE g # 0
    <2>1. Hears(client, d, g, f.pos) \/ Releases(client, d, g)
      BY <1>1, <1>3, <1>v
    <2>2. CASE Releases(client, d, g)
      <3>1. /\ Free(client, v) /\ NoTask(client, tasks, v) /\ None(toServer, Ask, v)
            /\ None(toClient', Answer, v) /\ LeavesFirst(toServer, v)
        BY <1>k, <1>1, <1>3 DEF Resting
      <3> QED
        BY <1>1, <1>3, <2>2, <3>1, ReleaseStep
    <2>3. CASE Hears(client, d, g, f.pos)
      <3>1. /\ Turns(client, d, g) /\ d.grp[g].at = f.pos /\ d \in Client
            /\ d.byTopic = client.byTopic /\ d.groups = client.groups
            /\ d.out = client.out
        BY <2>3 DEF Hears, Turns
      <3>2. Touches(client, d, g)
        BY <1>1, <1>3, <3>1, TurnsTouches
      <3>3. Wrote(d, v) /\ toServer' = toServer
        BY <3>1, WritesNone
      <3>4. /\ \A h \in Gid : /\ d.grp[h].pending = client.grp[h].pending
                              /\ d.grp[h].key = client.grp[h].key
                              /\ d.grp[h].subs = client.grp[h].subs
        BY <3>1 DEF Turns
      <3>5. /\ Free(client, v) => Free(d, v)
            /\ NoTask(client, tasks, v) => NoTask(d, tasks, v)
        BY <1>0, <3>4 DEF Free, NoTask, TopicOfGroup
      <3>6. Named(d, v)
        <4>1. g = client.byTopic[v] /\ g \in Gid
          BY <1>1, <1>3, <1>v
        <4>2. client.byTopic[v] # 0 => d.grp[client.byTopic[v]].subs > 0
          BY <1>1, <3>4, <4>1 DEF Side, Named
        <4>3. ASSUME NEW l \in Key, TopicOf[l] = v, client.groups[l] # 0
              PROVE  client.byTopic[v] = client.groups[l] \/ d.grp[client.groups[l]].pending
          <5>1. client.groups[l] \in Gid
            BY <1>0, <4>3 DEF Linked
          <5> QED
            BY <1>1, <3>4, <4>3, <5>1 DEF Side, Named
        <4> QED
          BY <3>1, <4>2, <4>3 DEF Named
      <3>7. client.grp[g].at = pos[v] => f.pos = pos[v]
        <4>1. g \in Known /\ client.grp[g].epoch # 0 /\ TopicOfGroup(client, g) = v
          BY <1>0, <1>1, <1>3, <1>v DEF Linked
        <4> QED
          BY <1>k, <1>v, <4>1, NothingNewer
      <3>8. Side(d, toServer, tasks, toClient', member[v], pos[v], v)
        <4>1. /\ client.byTopic[v] # 0 /\ d.byTopic[v] = client.byTopic[v]
              /\ d.grp[client.byTopic[v]].at = f.pos
              /\ client.grp[client.byTopic[v]].at = pos[v] => f.pos = pos[v]
          BY <1>3, <1>v, <3>1, <3>7
        <4> QED
          BY <1>0, <1>1, <3>5, <3>6, <4>1, SideHears
      <3> QED
        BY <1>1, <1>3, <3>1, <3>2, <3>3, <3>8, TouchStep
    <2> QED
      BY <2>1, <2>2, <2>3
  <1> QED
    BY <1>2, <1>3

\* An ack is taken: what was asked for is dispatched, or left at once.
LEMMA AckSides ==
  ASSUME KeysApart, StreamInv, StreamInv', SidesInv, ready, ready' = ready,
         toClient # <<>>, toClient' = Tail(toClient), UNCHANGED serverVars,
         NEW f, f = Head(toClient), f.kind = "ack",
         NEW leave \in BOOLEAN, NEW d, d = OnAck(client, f, ready, leave), Becomes(d)
  PROVE  SidesInv'
  <1> DEFINE v == f.topic
             g == f.group
  <1>k. f.kind \in Answer /\ f.kind \in Telling
    BY DEF Answer, Telling
  <1>0. /\ client \in Client /\ Known \in SUBSET Gid /\ Linked(client, Known)
        /\ toClient \in Seq(Sent) /\ tasks \in SUBSET Gid
    BY SidesType
  <1>1. /\ f \in Sent /\ v \in Topic /\ TakesOne(toClient, toClient', v, f) /\ Took(v)
        /\ Side(client, toServer, tasks, toClient, member[v], pos[v], v)
    <2>1. PICK h : h = client.byTopic[f.topic]
      OBVIOUS
    <2> QED
      BY <2>1, TakenFacts
  <1>v. v = f.topic /\ g = f.group
    OBVIOUS
  <1> HIDE DEF v, g
  <1>2. /\ g \in Gid /\ Waits(client, v, g) /\ None(toServer, Ask, v) /\ NoTask(client, tasks, v)
        /\ None(toClient', Answer, v) /\ LeavesFirst(toServer, v)
    BY <1>k, <1>0, <1>1, <1>v, SideAnswered
  <1>3. /\ TopicOfGroup(client, g) = v /\ client.groups[client.grp[g].key] = g
        /\ client.byTopic[v] = 0 /\ client.grp[g].key \in Key
        /\ client.grp[g].subs \in Nat
    BY <1>0, <1>2, ClientFields DEF Waits, Group
  <1>4. \A i \in DOMAIN client.early[f.topic] : ~Newer(client.early[f.topic][i], f)
    BY EarlyOlder
  <1>5. client.grp[g].epoch # 0 /\ f.epoch = client.grp[g].epoch /\ f.seq = client.grp[g].seq =>
            client.grp[g].at = f.pos
    <2>1. g \in Known
      BY <1>2, <1>3, <1>0 DEF Linked, Gid
    <2> QED
      BY <1>k, <1>v, <1>3, <2>1, NothingNewer
  <1>6. Starts(client, d, g, f.pos) \/ Releases(client, d, g)
    BY <1>0, <1>1, <1>2, <1>3, <1>4, <1>5, <1>v, OnAckSides
  <1>7. CASE Releases(client, d, g)
    BY <1>1, <1>2, <1>3, <1>7, ReleaseStep
  <1>8. CASE Starts(client, d, g, f.pos)
    <2>1. /\ Touches(client, d, g) /\ d \in Client /\ d.groups = client.groups
          /\ d.byTopic[v] = g /\ ~d.grp[g].pending /\ d.grp[g].subs # 0
          /\ d.grp[g].at = f.pos /\ d.out = client.out
          /\ \A h \in Gid : h # g => d.grp[h] = client.grp[h]
      BY <1>3, <1>8 DEF Starts, Touches
    <2>2. Wrote(d, v) /\ toServer' = toServer
      BY <2>1, WritesNone
    <2>3. \A h \in Gid : TopicOfGroup(d, h) = TopicOfGroup(client, h)
      BY <2>1 DEF Touches, TopicOfGroup
    <2>4. Free(d, v)
      BY <1>2, <2>1, <2>3 DEF Free, Waits
    <2>5. NoTask(d, tasks, v)
      BY <1>0, <1>2, <2>3 DEF NoTask
    <2>6. Named(d, v)
      <3>1. \A l \in Key : TopicOf[l] = v => l = client.grp[g].key
        BY <1>3 DEF KeysApart, TopicOfGroup
      <3>2. d.grp[g].subs \in Nat
        BY <1>2, <2>1, ClientFields DEF Group
      <3>3. d.grp[g].subs > 0
        BY ONLY <2>1, <3>2
      <3>4. d.groups[client.grp[g].key] = g
        BY ONLY <1>3, <2>1
      <3>5. d.byTopic[v] = g
        BY ONLY <2>1
      <3> QED
        BY ONLY <3>1, <3>3, <3>4, <3>5 DEF Named
    <2>7. Side(d, toServer, tasks, toClient', member[v], pos[v], v)
      <3>1. d.byTopic[v] = f.group /\ d.grp[f.group].at = f.pos
        BY ONLY <1>v, <2>1
      <3>2. /\ toClient \in Seq(Sent) /\ TakesOne(toClient, toClient', v, f)
            /\ Side(client, toServer, tasks, toClient, member[v], pos[v], v)
        BY ONLY <1>0, <1>1
      <3>3. f.kind = "ack"
        OBVIOUS
      <3> QED
        BY ONLY <2>4, <2>5, <2>6, <3>1, <3>2, <3>3, SideStarts
    <2> QED
      BY <1>1, <1>2, <1>3, <2>1, <2>2, <2>7, TouchStep
  <1> QED
    BY <1>6, <1>7, <1>8

\* What was asked for is refused.
LEMMA ErrorSides ==
  ASSUME KeysApart, StreamInv, StreamInv', SidesInv, ready, ready' = ready,
         toClient # <<>>, toClient' = Tail(toClient), UNCHANGED serverVars,
         NEW f, f = Head(toClient), f.kind = "error",
         NEW d, d = OnError(client, f), Becomes(d)
  PROVE  SidesInv'
  <1> DEFINE v == f.topic
             g == f.group
  <1>k. f.kind \in Answer
    BY DEF Answer
  <1>0. /\ client \in Client /\ Known \in SUBSET Gid /\ Linked(client, Known)
        /\ toClient \in Seq(Sent) /\ tasks \in SUBSET Gid
    BY SidesType
  <1>1. /\ f \in Sent /\ v \in Topic /\ TakesOne(toClient, toClient', v, f) /\ Took(v)
        /\ Side(client, toServer, tasks, toClient, member[v], pos[v], v)
    <2>1. PICK h : h = client.byTopic[f.topic]
      OBVIOUS
    <2> QED
      BY <2>1, TakenFacts
  <1>v. v = f.topic /\ g = f.group
    OBVIOUS
  <1> HIDE DEF v, g
  <1>2. /\ g \in Gid /\ Waits(client, v, g) /\ None(toServer, Ask, v) /\ NoTask(client, tasks, v)
        /\ None(toClient', Answer, v) /\ LeavesFirst(toServer, v)
        /\ OneFor(toClient, Answer, v, g) /\ (member[v] = "explicit" => HasBegin(toClient, v))
    BY <1>k, <1>0, <1>1, <1>v, SideAnswered
  <1>3. /\ TopicOfGroup(client, g) = v /\ client.groups[client.grp[g].key] = g
        /\ client.byTopic[v] = 0
    BY <1>2 DEF Waits
  <1>4. Drops(client, d, g)
    BY <1>0, <1>1, <1>2, <1>3, <1>v, OnErrorSides
  <1>5. member[v] # "explicit"
    <2>1. HasBegin(toClient, v) => f.kind = "ack"
      <3>1. PICK p : p = pos[v]
        OBVIOUS
      <3> QED
        BY <1>k, <1>0, <1>1, <1>2, TakesAnswer
    <2> QED
      BY <1>2, <2>1
  <1> QED
    BY <1>1, <1>2, <1>3, <1>4, <1>5, DropStep

\* The end of a subscription the client dispatches: the hub has none.
LEMMA EndedMember ==
  ASSUME NEW c, NEW up, NEW tk, NEW down \in Seq(Sent), NEW dq, NEW m, NEW p, NEW t,
         NEW f, Side(c, up, tk, down, m, p, t), TakesOne(down, dq, t, f), f.kind \in Ending,
         None(down, Answer, t), None(up, Leave, t)
  PROVE  m # "explicit"
  <1>1. ~HasBegin(down, t)
    BY BeginAnswers
  <1>2. ~None(down, Ending, t)
    BY TakesNone
  <1> QED
    BY <1>1, <1>2 DEF Side, Matched, Sure

LEMMA KickSides ==
  ASSUME KeysApart, StreamInv, StreamInv', SidesInv, ready, ready' = ready,
         toClient # <<>>, toClient' = Tail(toClient), UNCHANGED serverVars,
         NEW f, f = Head(toClient), f.kind = "unsubscribed_kicked",
         NEW d, d = OnKick(client, f), Becomes(d)
  PROVE  SidesInv'
  <1> DEFINE v == f.topic
             g == client.byTopic[v]
  <1>k. f.kind \notin Answer /\ f.kind \in Ending
    BY DEF Answer, Ending
  <1>0. client \in Client /\ toClient \in Seq(Sent) /\ tasks \in SUBSET Gid
    BY SidesType
  <1>1. /\ f \in Sent /\ v \in Topic /\ TakesOne(toClient, toClient', v, f) /\ Took(v)
        /\ Side(client, toServer, tasks, toClient, member[v], pos[v], v)
        /\ g # 0 =>
             /\ g \in Gid /\ TopicOfGroup(client, g) = v /\ client.grp[g].acked
             /\ ~client.grp[g].pending /\ Resting(client, toServer, tasks, toClient, v)
             /\ LeavesFirst(toServer, v) /\ None(toServer, Leave, v)
        /\ f.kind \notin Answer => (None(toClient', Answer, v) <=> None(toClient, Answer, v))
    BY TakenFacts
  <1>v. v = f.topic /\ g = client.byTopic[v] /\ g = client.byTopic[f.topic]
    OBVIOUS
  <1> HIDE DEF v, g
  <1>2. /\ g = 0 => SameNames(client, d)
        /\ g \in Gid /\ g # 0 /\ TopicOfGroup(client, g) = f.topic /\ ~client.grp[g].pending
              /\ client.grp[g].acked => Drops(client, d, g)
    BY <1>0, <1>1, <1>v, OnKickSides
  <1>3. CASE g = 0
    BY <1>k, <1>1, <1>2, <1>3, <1>v, IgnoreStep
  <1>4. CASE g # 0
    <2>1. Drops(client, d, g)
      BY <1>1, <1>2, <1>4, <1>v
    <2>2. /\ Free(client, v) /\ NoTask(client, tasks, v) /\ None(toServer, Ask, v)
          /\ None(toClient, Answer, v) /\ None(toClient', Answer, v)
          /\ LeavesFirst(toServer, v) /\ None(toServer, Leave, v)
      BY <1>k, <1>1, <1>4 DEF Resting
    <2>3. member[v] # "explicit"
      BY <1>k, <1>0, <1>1, <2>2, EndedMember
    <2> QED
      BY <1>1, <1>4, <2>1, <2>2, <2>3, DropStep
  <1> QED
    BY <1>3, <1>4

\* ... and it asks for it again.
LEMMA ResetSides ==
  ASSUME KeysApart, StreamInv, StreamInv', SurviveInv, SidesInv, ready, ready' = ready,
         toClient # <<>>, toClient' = Tail(toClient), UNCHANGED serverVars,
         NEW f, f = Head(toClient), f.kind = "unsubscribed_reset",
         NEW d, d = OnUnsubscribedReset(client, f, ready, FALSE), Becomes(d)
  PROVE  SidesInv'
  <1> DEFINE v == f.topic
             g == client.byTopic[v]
  <1>k. f.kind \notin Answer /\ f.kind \in Ending
    BY DEF Answer, Ending
  <1>0. /\ client \in Client /\ toClient \in Seq(Sent) /\ tasks \in SUBSET Gid
        /\ toServer \in Seq(Asked)
    BY SidesType
  <1>1. /\ f \in Sent /\ v \in Topic /\ TakesOne(toClient, toClient', v, f) /\ Took(v)
        /\ Side(client, toServer, tasks, toClient, member[v], pos[v], v)
        /\ g # 0 =>
             /\ g \in Gid /\ TopicOfGroup(client, g) = v /\ client.grp[g].acked
             /\ ~client.grp[g].pending /\ Resting(client, toServer, tasks, toClient, v)
             /\ LeavesFirst(toServer, v) /\ None(toServer, Leave, v)
        /\ f.kind \notin Answer => (None(toClient', Answer, v) <=> None(toClient, Answer, v))
    BY TakenFacts
  <1>v. v = f.topic /\ g = client.byTopic[v] /\ g = client.byTopic[f.topic]
    OBVIOUS
  <1> HIDE DEF v, g
  <1>2. /\ g = 0 => SameNames(client, d)
        /\ g \in Gid /\ g # 0 /\ TopicOfGroup(client, g) = f.topic => AsksAgain(client, d, g)
    BY <1>0, <1>1, <1>v, OnUnsubscribedResetSides
  <1>3. CASE g = 0
    BY <1>k, <1>1, <1>2, <1>3, <1>v, IgnoreStep
  <1>4. CASE g # 0
    <2>1. AsksAgain(client, d, g)
      BY <1>1, <1>2, <1>4, <1>v
    <2>2. /\ Free(client, v) /\ NoTask(client, tasks, v) /\ None(toServer, Ask, v)
          /\ None(toClient, Answer, v) /\ None(toClient', Answer, v)
          /\ LeavesFirst(toServer, v) /\ None(toServer, Leave, v)
      BY <1>k, <1>1, <1>4 DEF Resting
    <2>3. member[v] # "explicit"
      BY <1>k, <1>0, <1>1, <2>2, EndedMember
    <2>4. /\ Touches(client, d, g) /\ d \in Client /\ d.groups = client.groups
          /\ d.byTopic[v] = 0 /\ d.grp[g].pending /\ d.grp[g].key = client.grp[g].key
          /\ \A h \in Gid : h # g => d.grp[h] = client.grp[h]
      BY <1>1, <1>4, <2>1 DEF AsksAgain, Touches
    <2>5. PICK x \in Asked : x.kind = "subscribe" /\ x.group = g /\ x.topic = v
                             /\ d.out = Append(client.out, x)
      BY <1>1, <1>4, <2>1 DEF AsksAgain
    <2>6. Wrote(d, v) /\ AddsOne(toServer, toServer', v, x) /\ toServer' \in Seq(Asked)
      BY <2>5, WritesOne
    <2>7. \A h \in Gid : TopicOfGroup(d, h) = TopicOfGroup(client, h)
      BY <2>4 DEF TopicOfGroup
    <2>8. client.groups[client.grp[g].key] = g
      BY <1>1, <1>4, <1>v DEF SurviveInv, Dispatched
    <2>9. Waits(d, v, g)
      BY <1>1, <1>4, <2>2, <2>4, <2>7, <2>8 DEF Waits, Free
    <2>10. Named(d, v)
      <3>1. client.grp[g].key \in Key /\ TopicOf[client.grp[g].key] = v
        BY <1>0, <1>1, <1>4, ClientFields DEF TopicOfGroup
      <3>2. \A l \in Key : TopicOf[l] = v => l = client.grp[g].key
        BY <3>1 DEF KeysApart
      <3> QED
        BY <2>4, <2>8, <3>2 DEF Named
    <2>11. NoTask(d, tasks, v)
      BY <1>0, <2>2, <2>7 DEF NoTask
    <2>12. Side(d, toServer', tasks, toClient', member[v], pos[v], v)
      BY <1>0, <1>1, <1>4, <2>2, <2>3, <2>5, <2>6, <2>9, <2>10, <2>11, SideAsks
    <2> QED
      BY <1>1, <1>4, <2>4, <2>6, <2>12, TouchStep
  <1> QED
    BY <1>3, <1>4

LEMMA ReceiveSides ==
  ASSUME KeysApart, "reset" \notin Leaving, StreamInv, StreamInv', SurviveInv, SidesInv,
         ClientReceives
  PROVE  SidesInv'
  <1>0. /\ ready /\ ready' = ready /\ toClient # <<>> /\ toClient' = Tail(toClient)
        /\ UNCHANGED serverVars
    BY ReceiveEffect
  <1>1. PICK f : f = Head(toClient)
    OBVIOUS
  <1>2. client \in Client /\ f \in Sent
    BY <1>0, <1>1, SidesType, TailFacts
  <1>3. PICK g : g = client.byTopic[f.topic]
    OBVIOUS
  <1>4. \A why : \A leave \in MayLeave(why) : leave \in BOOLEAN
    BY DEF MayLeave
  <1>5. CASE ReceivePublish
    <2>1. PICK leave \in MayLeave("message") :
             f.kind = "publish" /\ Becomes(OnPublish(client, f, leave))
      BY <1>1, <1>5 DEF ReceivePublish, Receive
    <2>2. PICK d : d = OnPublish(client, f, leave)
      OBVIOUS
    <2>3. leave \in BOOLEAN /\ Becomes(d) /\ f.kind \in {"publish", "reset"}
      BY <1>4, <2>1, <2>2
    <2>4. /\ g = 0 => SameNames(client, d)
          /\ g \in Gid /\ g # 0 /\ TopicOfGroup(client, g) = f.topic /\ ~client.grp[g].pending
                /\ client.grp[g].acked => Hears(client, d, g, f.pos) \/ Releases(client, d, g)
      BY <1>2, <1>3, <2>2, <2>3, OnPublishSides
    <2> QED
      BY <1>0, <1>1, <1>3, <2>3, <2>4, TellSides
  <1>6. CASE ReceiveReset
    <2>1. PICK leave \in MayLeave("message") :
             f.kind = "reset" /\ Becomes(OnReset(client, f, leave))
      BY <1>1, <1>6 DEF ReceiveReset, Receive
    <2>2. PICK d : d = OnReset(client, f, leave)
      OBVIOUS
    <2>3. leave \in BOOLEAN /\ Becomes(d) /\ f.kind \in {"publish", "reset"}
      BY <1>4, <2>1, <2>2
    <2>4. /\ g = 0 => SameNames(client, d)
          /\ g \in Gid /\ g # 0 /\ TopicOfGroup(client, g) = f.topic /\ ~client.grp[g].pending
                /\ client.grp[g].acked => Hears(client, d, g, f.pos) \/ Releases(client, d, g)
      BY <1>2, <1>3, <2>2, <2>3, OnResetSides
    <2> QED
      BY <1>0, <1>1, <1>3, <2>3, <2>4, TellSides
  <1>7. CASE ReceiveAck
    <2>1. PICK leave \in MayLeave("resubscribe") :
             f.kind = "ack" /\ Becomes(OnAck(client, f, ready, leave))
      BY <1>1, <1>7 DEF ReceiveAck, Receive
    <2>2. PICK d : d = OnAck(client, f, ready, leave)
      OBVIOUS
    <2>3. leave \in BOOLEAN /\ Becomes(d) /\ f.kind = "ack"
      BY <1>4, <2>1, <2>2
    <2> QED
      BY <1>0, <1>1, <2>2, <2>3, AckSides
  <1>8. CASE ReceiveError
    <2>1. PICK d : d = OnError(client, f)
      OBVIOUS
    <2>2. f.kind = "error" /\ Becomes(d)
      BY <1>1, <1>8, <2>1 DEF ReceiveError, Receive
    <2> QED
      BY <1>0, <1>1, <2>1, <2>2, ErrorSides
  <1>9. CASE ReceiveKick
    <2>1. PICK d : d = OnKick(client, f)
      OBVIOUS
    <2>2. f.kind = "unsubscribed_kicked" /\ Becomes(d)
      BY <1>1, <1>9, <2>1 DEF ReceiveKick, Receive
    <2> QED
      BY <1>0, <1>1, <2>1, <2>2, KickSides
  <1>10. CASE ReceiveUnsubscribedReset
    <2>1. PICK leave \in MayLeave("reset") :
             /\ f.kind = "unsubscribed_reset"
             /\ Becomes(OnUnsubscribedReset(client, f, ready, leave))
      BY <1>1, <1>10 DEF ReceiveUnsubscribedReset, Receive
    <2>2. leave = FALSE
      BY DEF MayLeave
    <2>3. PICK d : d = OnUnsubscribedReset(client, f, ready, FALSE)
      OBVIOUS
    <2>4. f.kind = "unsubscribed_reset" /\ Becomes(d)
      BY <2>1, <2>2, <2>3
    <2> QED
      BY <1>0, <1>1, <2>3, <2>4, ResetSides
  <1> QED
    BY <1>5, <1>6, <1>7, <1>8, <1>9, <1>10 DEF ClientReceives

\* The connection goes down: who waits is the group its key names, and no longer does.
LEMMA DownSides ==
  ASSUME StreamInv, SidesInv, Lose \/ Close
  PROVE  SidesInv'
  <1> DEFINE current == {client.groups[k] : k \in Key}
             grp == Pended(client.grp, current, FALSE)
  <1>0. client \in Client /\ client.grp \in [Gid -> Group]
    BY SidesType, ClientFields
  <1>1. /\ ~ready' /\ toServer' = <<>> /\ toClient' = <<>> /\ tasks' = {}
        /\ member' = [t \in Topic |-> "no"]
        /\ client' = Disconnected(client) \/ client' = Clear(Disconnected(client))
    BY DEF Lose, Close, HubForgets
  <1>2. client'.grp = grp
    <2>1. /\ Quieted(client, Disconnected(client), client.groups, Settled(client.grp, current))
          /\ Quieted(client, Clear(Disconnected(client)), [k \in Key |-> 0],
                     Settled(client.grp, current))
      BY <1>0, DisconnectedFacts
    <2>2. Settled(client.grp, current) = grp
      BY DEF Settled
    <2> HIDE DEF grp, current
    <2> QED
      BY <1>1, <2>1, <2>2 DEF Quieted
  <1>3. ASSUME NEW g \in Gid, client.grp[g].pending PROVE g \in current
    <2>1. ready
      BY <1>3 DEF SidesInv, Quiet
    <2>2. client.grp[g].key \in Key /\ TopicOfGroup(client, g) \in Topic
      BY <1>0, ClientFields
    <2> DEFINE v == TopicOfGroup(client, g)
    <2>3. Side(client, toServer, tasks, toClient, member[v], pos[v], v)
      BY <2>1, <2>2 DEF SidesInv
    <2>4. ~Free(client, v)
      BY <1>3 DEF Free
    <2>5. Waits(client, v, g)
      <3>1. PICK h \in Gid : Waits(client, v, h)
        BY <2>3, <2>4 DEF Side, Resting, Asking
      <3>2. h = g
        BY <1>3, <3>1 DEF Waits
      <3> QED
        BY <3>1, <3>2
    <2> QED
      BY <2>2, <2>5 DEF Waits
  <1>4. \A g \in Gid : ~client'.grp[g].pending
    <2> HIDE DEF current
    <2>1. ASSUME NEW g \in Gid PROVE ~grp[g].pending
      <3>1. PICK b \in BOOLEAN : b = FALSE
        OBVIOUS
      <3>2. /\ g \in current => Pended(client.grp, current, b)[g].pending = b
            /\ g \notin current => Pended(client.grp, current, b)[g] = client.grp[g]
        BY <1>0, PendedPending
      <3> QED
        BY <1>3, <3>1, <3>2
    <2> QED
      BY <1>2, <2>1
  <1>5. Quiet'
    BY <1>1, <1>4 DEF Quiet
  <1> QED
    BY <1>1, <1>5 DEF SidesInv

\* A sequence of the elements of S, each once.
LEMMA Enumerates ==
  ASSUME NEW S, IsFiniteSet(S), NEW order \in SetToSeqs(S)
  PROVE  /\ order \in Seq(S)
         /\ \A x \in S : \E i \in DOMAIN order : order[i] = x
         /\ \A i \in DOMAIN order : \A j \in DOMAIN order : order[i] = order[j] => i = j
  <1> DEFINE n == Cardinality(S)
             D == 1 .. n
  <1>1. n \in Nat
    BY FS_CardinalityType
  <1>2. order \in [D -> S] /\ \A i, j \in D : i # j => order[i] # order[j]
    BY DEF SetToSeqs
  <1>3. order \in Injection(D, S)
    BY <1>2 DEF Injection, IsInjective
  <1>4. Cardinality(D) = Cardinality(S)
    <2>1. PICK a \in Int : a = 1
      OBVIOUS
    <2>2. Cardinality(a .. n) = IF a > n THEN 0 ELSE n - a + 1
      BY <1>1, FS_Interval
    <2> HIDE DEF n
    <2>3. Cardinality(D) = n
      BY <1>1, <2>1, <2>2
    <2> QED
      BY <2>3 DEF n
  <1>5. order \in Surjection(D, S)
    BY <1>3, <1>4, FS_Injection
  <1>6. \A x \in S : \E i \in D : order[i] = x
    BY <1>5 DEF Surjection
  <1>7. DOMAIN order = D
    BY <1>2
  <1> HIDE DEF n
  <1>8. order \in Seq(S)
    BY <1>1, <1>2
  <1> QED
    BY <1>2, <1>6, <1>7, <1>8

\* The connection is up: every live group asks for its topic, once.
LEMMA ReadySides ==
  ASSUME KeysApart, StreamInv, SurviveInv, SidesInv, BecomeReady
  PROVE  SidesInv'
  <1>0. /\ client \in Client /\ Known \in SUBSET Gid /\ Linked(client, Known)
        /\ client.out = <<>>
    BY SidesType
  <1>1. PICK order \in SetToSeqs(Live(client)) : Becomes(Resubscribe(client, order))
    BY DEF BecomeReady
  <1>2. PICK d : d = Resubscribe(client, order)
    OBVIOUS
  <1>3. /\ ~ready /\ ready' = TRUE /\ toClient' = toClient /\ tasks' = tasks
        /\ member' = member /\ pos' = pos /\ Becomes(d)
    BY <1>1, <1>2 DEF BecomeReady, serverVars
  <1>4. /\ toServer = <<>> /\ toClient = <<>> /\ tasks = {}
        /\ \A t \in Topic : member[t] = "no"
        /\ \A g \in Gid : ~client.grp[g].pending
        /\ \A t \in Topic : client.byTopic[t] = 0
    BY <1>3 DEF SidesInv, Quiet, SurviveInv
  <1>5. d \in Client /\ Resumes(client, d, order)
    BY <1>0, <1>2, ResubscribeFacts
  <1>6. /\ d.byTopic = client.byTopic /\ d.out = Requests(client, order)
        /\ \A k \in Key : d.groups[k] = IF k \in Live(client) THEN client.groups[k] ELSE 0
        /\ \A g \in Gid : d.grp[g].key = client.grp[g].key
        /\ \A g \in Gid : d.grp[g].pending <=> \E k \in Live(client) : client.groups[k] = g
    BY <1>4, <1>5 DEF Resumes
  <1>7. /\ Live(client) \in SUBSET Key /\ IsFiniteSet(Live(client))
        /\ \A k \in Live(client) : client.groups[k] \in Gid /\ client.grp[client.groups[k]].key = k
    <2>1. Live(client) \in SUBSET Key /\ \A k \in Live(client) : client.groups[k] # 0
      BY DEF Live
    <2>2. IsFiniteSet(Live(client))
      BY <2>1, SubscriptionsAssumption, FS_Subset
    <2> QED
      BY <1>0, <2>1, <2>2 DEF Linked
  <1> DEFINE L == Live(client)
  <1>8. /\ order \in Seq(L)
        /\ \A x \in L : \E i \in DOMAIN order : order[i] = x
        /\ \A i \in DOMAIN order : \A j \in DOMAIN order : order[i] = order[j] => i = j
    BY <1>7, Enumerates
  <1>9. toServer' = Requests(client, order) /\ client' = Flushed(d)
    <2>1. toServer' = toServer \o d.out /\ client' = Flushed(d) /\ d.out \in Seq(Asked)
      BY <1>3, <1>5, ClientFields DEF Becomes, Flushed
    <2> QED
      BY <1>4, <1>6, <2>1
  <1>10. client'.groups = d.groups /\ client'.grp = d.grp /\ client'.byTopic = d.byTopic
    BY <1>5, <1>9, FlushedFacts
  <1>11. /\ DOMAIN toServer' = DOMAIN order
         /\ \A i \in DOMAIN order :
               /\ toServer'[i].kind = "subscribe" /\ toServer'[i].topic = TopicOf[order[i]]
               /\ toServer'[i].group = client.groups[order[i]] /\ order[i] \in L
    BY <1>8, <1>9 DEF Requests
  <1> HIDE DEF L
  <1>12. ASSUME NEW t \in Topic
         PROVE  Side(client', toServer', tasks', toClient', member'[t], pos'[t], t)
    <2>1. /\ None(toClient', Answer, t) /\ ~HasBegin(toClient', t)
          /\ BeginsTold(toClient', t, pos'[t])
      BY <1>3, <1>4 DEF None, HasBegin, BeginsTold
    <2>2. NoTask(client', tasks', t)
      BY <1>3, <1>4 DEF NoTask
    <2>3. client'.byTopic[t] = 0 /\ member'[t] = "no"
      BY <1>3, <1>4, <1>6, <1>10
    <2>4. None(toServer', Leave, t) /\ LeavesFirst(toServer', t)
      BY <1>11 DEF None, LeavesFirst, Match, Leave
    <2>5. Cleared(client', toServer', tasks', toClient', t)
      BY <2>4 DEF Cleared
    <2>6. Matched(client', toServer', toClient', member'[t], pos'[t], t)
      BY <2>1, <2>3 DEF Matched, Sure
    <2>7. Named(client', t)
      BY <1>6, <1>7, <1>10, <2>3 DEF Named
    <2>8. CASE \A k \in L : TopicOf[k] # t
      <3>1. None(toServer', Ask, t)
        BY <1>11, <2>8 DEF None, Match
      <3>2. Free(client', t)
        <4>1. ASSUME NEW h \in Gid, client'.grp[h].pending, TopicOfGroup(client', h) = t
              PROVE  FALSE
          <5>1. PICK k \in L : client.groups[k] = h
            BY <1>6, <1>10, <4>1 DEF L
          <5>2. TopicOf[k] = t
            BY <1>6, <1>7, <1>10, <4>1, <5>1 DEF TopicOfGroup, L
          <5> QED
            BY <2>8, <5>2
        <4> QED
          BY <4>1 DEF Free
      <3> QED
        BY <2>1, <2>2, <2>5, <2>6, <2>7, <3>1, <3>2 DEF Side, Resting
    <2>9. CASE \E k \in L : TopicOf[k] = t
      <3>1. PICK k \in L : TopicOf[k] = t
        BY <2>9
      <3> DEFINE g == client.groups[k]
      <3>2. k \in Key /\ g \in Gid /\ client.grp[g].key = k
        BY <1>7 DEF L
      <3>3. \A l \in L : TopicOf[l] = t => l = k
        BY <1>7, <3>1, <3>2 DEF KeysApart, L
      <3>g. g = client.groups[k]
        OBVIOUS
      <3> HIDE DEF g
      <3>4. Waits(client', t, g)
        <4>1. client'.grp[g].pending /\ TopicOfGroup(client', g) = t
          BY <1>6, <1>10, <3>1, <3>2, <3>g DEF TopicOfGroup, L
        <4>2. ASSUME NEW h \in Gid, client'.grp[h].pending, TopicOfGroup(client', h) = t
              PROVE  h = g
          <5>1. PICK l \in L : client.groups[l] = h
            BY <1>6, <1>10, <4>2 DEF L
          <5>2. TopicOf[l] = t
            BY <1>6, <1>7, <1>10, <4>2, <5>1 DEF TopicOfGroup, L
          <5> QED
            BY <3>3, <3>g, <5>1, <5>2
        <4>3. client'.groups[client'.grp[g].key] = g
          BY <1>6, <1>10, <3>1, <3>2, <3>g DEF L
        <4> QED
          BY <2>3, <4>1, <4>2, <4>3 DEF Waits
      <3>5. OneFor(toServer', Ask, t, g)
        <4>1. PICK i \in DOMAIN order : order[i] = k
          BY <1>8
        <4>2. Match(toServer'[i], Ask, t) /\ toServer'[i].group = g
          BY <1>11, <3>1, <3>g, <4>1 DEF Match, Ask
        <4>3. \A j \in DOMAIN order : Match(toServer'[j], Ask, t) => j = i
          BY <1>8, <1>11, <3>3, <4>1 DEF Match
        <4> QED
          BY <1>11, <4>2, <4>3 DEF OneFor
      <3>6. Asking(client', toServer', tasks', toClient', t, g)
        BY <2>1, <2>2, <3>4, <3>5 DEF Asking
      <3> QED
        BY <2>5, <2>6, <2>7, <3>2, <3>6 DEF Side
    <2> QED
      BY <2>8, <2>9
  <1> QED
    BY <1>3, <1>12 DEF SidesInv

\* A step of the hub that is not about t.
LEMMA HubOther ==
  ASSUME StreamInv, StreamInv', client' = client, nextGroup' = nextGroup, NEW t \in Topic,
         Side(client, toServer, tasks, toClient, member[t], pos[t], t),
         Keeps(toServer, toServer', t), Keeps(toClient, toClient', t),
         \A h \in Known : TopicOfGroup(client, h) = t => (h \in tasks' <=> h \in tasks),
         member'[t] = member[t], pos'[t] = pos[t]
  PROVE  Side(client', toServer', tasks', toClient', member'[t], pos'[t], t)
  <1>1. /\ client \in Client /\ Known \in SUBSET Gid /\ Linked(client, Known)
        /\ toServer \in Seq(Asked) /\ toClient \in Seq(Sent) /\ tasks \in SUBSET Known
    BY SidesType
  <1>2. toServer' \in Seq(Asked) /\ toClient' \in Seq(Sent) /\ tasks' \in SUBSET Known
    BY DEF StreamInv, TypeOK, LinkInv, Known
  <1>3. Elsewhere(client, client, t, Known)
    BY ElsewhereRefl
  <1>4. Side(client, toServer', tasks', toClient', member[t], pos[t], t)
    BY <1>1, <1>2, <1>3, SideStays
  <1> QED
    BY <1>4

\* ... of which only v may differ.
LEMMA HubTopic ==
  ASSUME StreamInv, StreamInv', SidesInv, ready, ready' = ready, client' = client,
         nextGroup' = nextGroup, NEW v,
         \A t \in Topic : t # v =>
            /\ Keeps(toServer, toServer', t) /\ Keeps(toClient, toClient', t)
            /\ \A h \in Known : TopicOfGroup(client, h) = t => (h \in tasks' <=> h \in tasks)
            /\ member'[t] = member[t] /\ pos'[t] = pos[t],
         v \in Topic => Side(client, toServer', tasks', toClient', member'[v], pos'[v], v)
  PROVE  SidesInv'
  <1>1. ASSUME NEW t \in Topic
        PROVE  Side(client', toServer', tasks', toClient', member'[t], pos'[t], t)
    <2>1. Side(client, toServer, tasks, toClient, member[t], pos[t], t)
      BY DEF SidesInv
    <2>2. CASE t = v
      BY <2>2
    <2>3. CASE t # v
      BY <2>1, <2>3, HubOther
    <2> QED
      BY <2>2, <2>3
  <1> QED
    BY <1>1 DEF SidesInv

LEMMA ReadsSides ==
  ASSUME StreamInv, StreamInv', SidesInv, ready, ServerReads
  PROVE  SidesInv'
  <1> DEFINE f == Head(toServer)
             v == f.topic
  <1>0. /\ client \in Client /\ toServer \in Seq(Asked) /\ toClient \in Seq(Sent)
        /\ tasks \in SUBSET Gid /\ Known \in SUBSET Gid /\ TypeOK
    BY SidesType DEF StreamInv
  <1>1. /\ toServer # <<>> /\ toServer' = Tail(toServer) /\ toClient' = toClient
        /\ pos' = pos /\ client' = client /\ nextGroup' = nextGroup /\ ready' = ready
    BY DEF ServerReads, clientVars
  <1>2. TakesOne(toServer, toServer', v, f)
    BY <1>1 DEF TakesOne
  <1>3. \A t : Keeps(toClient, toClient', t)
    BY <1>0, <1>1, KeepsRefl
  <1>4. ASSUME NEW t, t # v PROVE Keeps(toServer, toServer', t)
    BY <1>0, <1>1, <1>4, KeepsTail
  <1>5. v \in Topic
    <2>1. f \in Asked
      BY <1>0, <1>1
    <2> QED
      BY <2>1 DEF Asked
  <1>s. Side(client, toServer, tasks, toClient, member[v], pos[v], v)
    BY <1>5 DEF SidesInv
  <1>6. CASE f.kind = "subscribe" /\ tasks' = tasks \union {f.group} /\ member' = member
    <2> HIDE DEF f, v
    <2>1. /\ f.group \in Gid /\ TopicOfGroup(client, f.group) = v
          /\ Side(client, toServer', tasks \union {f.group}, toClient, member[v], pos[v], v)
      BY <1>0, <1>2, <1>5, <1>6, <1>s, SideReadsAsk
    <2>2. Side(client, toServer', tasks', toClient', member'[v], pos'[v], v)
      BY <1>1, <1>6, <2>1
    <2>3. \A t \in Topic : t # v =>
            \A h \in Known : TopicOfGroup(client, h) = t => (h \in tasks' <=> h \in tasks)
      BY <1>6, <2>1
    <2> QED
      BY <1>1, <1>3, <1>4, <1>6, <2>2, <2>3, HubTopic
  <1>7. CASE f.kind = "unsubscribe" /\ member' = [member EXCEPT ![f.topic] = "no"] /\ tasks' = tasks
    <2>1. member'[v] = "no" /\ \A t \in Topic : t # v => member'[t] = member[t]
      BY <1>0, <1>5, <1>7 DEF TypeOK
    <2> HIDE DEF f, v
    <2>2. Side(client, toServer', tasks, toClient, "no", pos[v], v)
      BY <1>0, <1>2, <1>5, <1>7, <1>s, SideReadsLeave
    <2>3. Side(client, toServer', tasks', toClient', member'[v], pos'[v], v)
      BY <1>1, <1>7, <2>1, <2>2
    <2> QED
      BY <1>1, <1>3, <1>4, <1>7, <2>1, <2>3, HubTopic
  <1> QED
    BY <1>6, <1>7 DEF ServerReads

LEMMA AnswersSides ==
  ASSUME StreamInv, StreamInv', SidesInv, ready, NEW g \in Gid, Grant(g) \/ Deny(g)
  PROVE  SidesInv'
  <1> DEFINE v == TopicOfGroup(client, g)
             none == [epoch |-> 0, seq |-> 0]
             x == Frame("ack", v, g, CursorFor(v), pos[v])
             y == Frame("error", v, g, none, 0)
  <1>0. /\ client \in Client /\ toServer \in Seq(Asked) /\ toClient \in Seq(Sent)
        /\ tasks \in SUBSET Gid /\ Known \in SUBSET Gid /\ TypeOK /\ v \in Topic /\ g \in Nat
    BY SidesType, ClientFields, Constants DEF StreamInv, Gid
  <1>1. /\ g \in tasks /\ tasks' = tasks \ {g} /\ toServer' = toServer /\ pos' = pos
        /\ client' = client /\ nextGroup' = nextGroup /\ ready' = ready
    BY DEF Grant, Deny, clientVars
  <1>s. Side(client, toServer, tasks, toClient, member[v], pos[v], v)
    BY <1>0 DEF SidesInv
  <1>2. \A t : Keeps(toServer, toServer', t)
    BY <1>0, <1>1, KeepsRefl
  <1>3. \A t \in Topic : t # v =>
          \A h \in Known : TopicOfGroup(client, h) = t => (h \in tasks' <=> h \in tasks)
    BY <1>1
  <1>v. v = TopicOfGroup(client, g)
    OBVIOUS
  <1>4. CASE Grant(g)
    <2>1. /\ Hold(v) /\ toClient' = Append(toClient, x)
          /\ member' = [member EXCEPT ![v] = IF @ = "no" THEN "explicit" ELSE @]
      BY <1>4 DEF Grant
    <2> HIDE DEF v
    <2>2. CursorFor(v) \in [epoch : Nat, seq : Nat] /\ pos[v] \in Nat
      BY <1>0, <2>1, HoldFacts DEF TypeOK
    <2>3. x \in Sent /\ x.kind = "ack" /\ x.topic = v /\ x.group = g /\ x.pos = pos[v]
      BY <1>0, <2>2 DEF Frame, Sent
    <2> HIDE DEF x
    <2>4. member'[v] # "no" /\ \A t \in Topic : t # v => member'[t] = member[t]
      BY <1>0, <2>1 DEF TypeOK
    <2>5. AddsOne(toClient, toClient', v, x) /\ toClient' \in Seq(Sent)
      BY <1>0, <2>1, <2>3, AppendAdds
    <2>6. \A t : t # v => Keeps(toClient, toClient', t)
      BY <1>0, <2>1, <2>3, KeepsAppend
    <2>7. x.kind \in Answer
      BY <2>3 DEF Answer
    <2>8. \A n : n # "no" => Side(client, toServer, tasks \ {g}, toClient', n, pos[v], v)
      BY <1>0, <1>1, <1>s, <1>v, <2>3, <2>5, <2>7, SideAnswers
    <2>9. Side(client, toServer', tasks', toClient', member'[v], pos'[v], v)
      BY <1>1, <2>4, <2>8
    <2> QED
      BY <1>1, <1>2, <1>3, <2>4, <2>6, <2>9, HubTopic
  <1>5. CASE Deny(g)
    <2>1. member' = member /\ toClient' = Append(toClient, y)
      BY <1>5 DEF Deny
    <2>2. none \in [epoch : Nat, seq : Nat]
      OBVIOUS
    <2> HIDE DEF v, none
    <2>3. y \in Sent /\ y.kind = "error" /\ y.topic = v /\ y.group = g
      BY <1>0, <2>2, FrameFacts
    <2> HIDE DEF y
    <2>5. AddsOne(toClient, toClient', v, y) /\ toClient' \in Seq(Sent)
      BY <1>0, <2>1, <2>3, AppendAdds
    <2>6. \A t : t # v => Keeps(toClient, toClient', t)
      BY <1>0, <2>1, <2>3, KeepsAppend
    <2>7. y.kind \in Answer
      BY <2>3 DEF Answer
    <2>8. Side(client, toServer, tasks \ {g}, toClient', member[v], pos[v], v)
      BY <1>0, <1>1, <1>s, <1>v, <2>3, <2>5, <2>7, SideAnswers
    <2>9. Side(client, toServer', tasks', toClient', member'[v], pos'[v], v)
      BY <1>1, <2>1, <2>8
    <2> QED
      BY <1>1, <1>2, <1>3, <2>1, <2>6, <2>9, HubTopic
  <1> QED
    BY <1>4, <1>5

LEMMA PublishSides ==
  ASSUME StreamInv, StreamInv', SidesInv, ready, NEW v \in Topic, Publish(v)
  PROVE  SidesInv'
  <1> DEFINE next == [cursor[v] EXCEPT !.seq = @ + 1]
             x == Frame("publish", v, 0, next, pos[v] + 1)
  <1>0. /\ client \in Client /\ toServer \in Seq(Asked) /\ toClient \in Seq(Sent)
        /\ tasks \in SUBSET Gid /\ TypeOK
    BY SidesType DEF StreamInv
  <1>1. /\ tasks' = tasks /\ toServer' = toServer /\ member' = member
        /\ pos' = [pos EXCEPT ![v] = @ + 1]
        /\ toClient' = IF member[v] = "no" THEN toClient ELSE Append(toClient, x)
        /\ client' = client /\ nextGroup' = nextGroup /\ ready' = ready
    BY DEF Publish, clientVars
  <1>s. Side(client, toServer, tasks, toClient, member[v], pos[v], v)
    BY DEF SidesInv
  <1>2. \A t : Keeps(toServer, toServer', t)
    BY <1>0, <1>1, KeepsRefl
  <1>3. pos'[v] = pos[v] + 1 /\ \A t \in Topic : t # v => pos'[t] = pos[t]
    BY <1>0, <1>1 DEF TypeOK
  <1>4. CASE member[v] = "no"
    <2>1. toClient' = toClient
      BY <1>1, <1>4
    <2>2. \A t : Keeps(toClient, toClient', t)
      BY <1>0, <2>1, KeepsRefl
    <2>3. PICK q : q = pos[v] + 1
      OBVIOUS
    <2>4. Side(client, toServer, tasks, toClient, "no", q, v)
      BY <1>s, <1>4, SideAbsent
    <2>5. Side(client, toServer', tasks', toClient', member'[v], pos'[v], v)
      BY <1>1, <1>3, <1>4, <2>1, <2>3, <2>4
    <2> QED
      BY <1>1, <1>2, <1>3, <2>2, <2>5, HubTopic
  <1>5. CASE member[v] # "no"
    <2>1. toClient' = Append(toClient, x)
      BY <1>1, <1>5
    <2>2. next \in [epoch : Nat, seq : Nat] /\ pos[v] + 1 \in Nat
      <3>1. cursor[v] \in [epoch : Nat, seq : Nat] /\ pos[v] \in Nat
        BY <1>0 DEF TypeOK
      <3> QED
        BY <3>1
    <2> HIDE DEF next
    <2>3. x \in Sent /\ x.kind = "publish" /\ x.topic = v /\ x.pos = pos[v] + 1
      BY <2>2 DEF Frame, Sent
    <2> HIDE DEF x
    <2>5. AddsOne(toClient, toClient', v, x) /\ toClient' \in Seq(Sent)
      BY <1>0, <2>1, <2>3, AppendAdds
    <2>6. \A t : t # v => Keeps(toClient, toClient', t)
      BY <1>0, <2>1, <2>3, KeepsAppend
    <2>8. Side(client, toServer, tasks, toClient', member[v], x.pos, v)
      <3>1. x.kind \in {"publish", "reset"}
        BY <2>3
      <3> QED
        BY <1>0, <1>s, <1>5, <2>5, <3>1, SideTells
    <2>9. Side(client, toServer', tasks', toClient', member'[v], pos'[v], v)
      BY <1>1, <1>3, <2>3, <2>8
    <2> QED
      BY <1>1, <1>2, <1>3, <2>6, <2>9, HubTopic
  <1> QED
    BY <1>4, <1>5

LEMMA HubKickSides ==
  ASSUME StreamInv, StreamInv', SidesInv, ready, NEW v \in Topic, Kick(v)
  PROVE  SidesInv'
  <1> DEFINE x == Frame("unsubscribed_kicked", v, 0, cursor[v], pos[v])
  <1>0. /\ client \in Client /\ toServer \in Seq(Asked) /\ toClient \in Seq(Sent)
        /\ tasks \in SUBSET Gid /\ TypeOK
    BY SidesType DEF StreamInv
  <1>1. /\ tasks' = tasks /\ toServer' = toServer /\ pos' = pos
        /\ member' = [member EXCEPT ![v] = "no"] /\ toClient' = Append(toClient, x)
        /\ client' = client /\ nextGroup' = nextGroup /\ ready' = ready
    BY DEF Kick, clientVars
  <1>s. Side(client, toServer, tasks, toClient, member[v], pos[v], v)
    BY DEF SidesInv
  <1>2. \A t : Keeps(toServer, toServer', t)
    BY <1>0, <1>1, KeepsRefl
  <1>3. member'[v] = "no" /\ \A t \in Topic : t # v => member'[t] = member[t]
    BY <1>0, <1>1 DEF TypeOK
  <1>4. cursor[v] \in [epoch : Nat, seq : Nat] /\ pos[v] \in Nat
    BY <1>0 DEF TypeOK
  <1>5. x \in Sent /\ x.kind = "unsubscribed_kicked" /\ x.topic = v
    BY <1>4 DEF Frame, Sent
  <1> HIDE DEF x
  <1>6. AddsOne(toClient, toClient', v, x) /\ toClient' \in Seq(Sent)
    BY <1>0, <1>1, <1>5, AppendAdds
  <1>7. \A t : t # v => Keeps(toClient, toClient', t)
    BY <1>0, <1>1, <1>5, KeepsAppend
  <1>8. x.kind \in Ending
    BY <1>5 DEF Ending
  <1>9. Side(client, toServer, tasks, toClient', "no", pos[v], v)
    BY <1>0, <1>s, <1>6, <1>8, SideEnds
  <1>10. Side(client, toServer', tasks', toClient', member'[v], pos'[v], v)
    BY <1>1, <1>3, <1>9
  <1> QED
    BY <1>1, <1>2, <1>3, <1>7, <1>10, HubTopic

LEMMA ServerSubscribeSides ==
  ASSUME StreamInv, StreamInv', SidesInv, ready, NEW v \in Topic, ServerSubscribe(v)
  PROVE  SidesInv'
  <1>0. /\ toServer \in Seq(Asked) /\ toClient \in Seq(Sent) /\ TypeOK
    BY SidesType DEF StreamInv
  <1>1. /\ tasks' = tasks /\ toServer' = toServer /\ toClient' = toClient /\ pos' = pos
        /\ member[v] = "no" /\ member' = [member EXCEPT ![v] = "auto"]
        /\ client' = client /\ nextGroup' = nextGroup /\ ready' = ready
    BY DEF ServerSubscribe, clientVars
  <1>2. \A t : Keeps(toServer, toServer', t) /\ Keeps(toClient, toClient', t)
    BY <1>0, <1>1, KeepsRefl
  <1>3. member'[v] = "auto" /\ \A t \in Topic : t # v => member'[t] = member[t]
    BY <1>0, <1>1 DEF TypeOK
  <1>4. Side(client, toServer, tasks, toClient, "no", pos[v], v)
    BY <1>1 DEF SidesInv
  <1>5. Side(client, toServer, tasks, toClient, "auto", pos[v], v)
    BY <1>4, SideAbsent
  <1>6. Side(client, toServer', tasks', toClient', member'[v], pos'[v], v)
    BY <1>1, <1>3, <1>5
  <1> QED
    BY <1>1, <1>2, <1>3, <1>6, HubTopic

\* Many frames at once, at most one of them about t.
LEMMA ConcatFor ==
  ASSUME NEW S, NEW s \in Seq(S), NEW r \in Seq(S), NEW t
  PROVE  /\ (\A i \in DOMAIN r : r[i].topic # t) => Keeps(s, s \o r, t)
         /\ \A i \in DOMAIN r :
               r[i].topic = t /\ (\A j \in DOMAIN r : r[j].topic = t => j = i) =>
                  AddsOne(s, s \o r, t, r[i])
  <1> DEFINE q == s \o r
             n == Len(s)
  <1>1. /\ n \in Nat /\ Len(r) \in Nat /\ Len(q) = n + Len(r) /\ q \in Seq(S)
        /\ DOMAIN s = 1 .. n /\ DOMAIN r = 1 .. Len(r) /\ DOMAIN q = 1 .. n + Len(r)
        /\ \A i \in DOMAIN s : q[i] = s[i]
    OBVIOUS
  <1>2. ASSUME NEW i \in DOMAIN q, i \notin DOMAIN s
        PROVE  i - n \in DOMAIN r /\ q[i] = r[i - n]
    BY <1>1, <1>2
  <1>3. ASSUME NEW i \in DOMAIN r PROVE n + i \in DOMAIN q /\ q[n + i] = r[i] /\ n + i > n
    BY <1>1, <1>3
  <1> HIDE DEF q, n
  <1>d. \A i \in DOMAIN s : i \in DOMAIN q /\ i <= n /\ i - 0 = i
    BY <1>1
  <1>4. ASSUME \A i \in DOMAIN r : r[i].topic # t PROVE Keeps(s, q, t)
    <2>1. \A i \in DOMAIN q : q[i].topic = t => i \in DOMAIN s /\ q[i] = s[i] /\ i + 0 = i
      BY <1>1, <1>2, <1>4
    <2>2. PICK z \in Nat : z = 0
      OBVIOUS
    <2>3. SameFor(s, q, t, z)
      BY <1>1, <1>d, <2>1, <2>2 DEF SameFor
    <2> QED
      BY <2>3 DEF Keeps
  <1>5. ASSUME NEW i \in DOMAIN r, r[i].topic = t, \A j \in DOMAIN r : r[j].topic = t => j = i
        PROVE  AddsOne(s, q, t, r[i])
    <2>1. PICK m : m = n + i
      OBVIOUS
    <2>2. m \in DOMAIN q /\ q[m] = r[i] /\ \A j \in DOMAIN s : j < m
      BY <1>1, <1>3, <1>d, <2>1
    <2>3. \A j \in DOMAIN q : q[j].topic = t => j = m \/ (j \in DOMAIN s /\ q[j] = s[j])
      <3>1. ASSUME NEW j \in DOMAIN q, q[j].topic = t, j \notin DOMAIN s PROVE j = m
        <4>1. j - n = i
          BY <1>2, <1>5, <3>1
        <4> QED
          BY <1>1, <2>1, <4>1
      <3> QED
        BY <1>1, <3>1
    <2> QED
      BY <1>1, <1>5, <1>d, <2>2, <2>3 DEF AddsOne
  <1> QED
    BY <1>4, <1>5 DEF q

\* Every member is told of the reset: whoever asked is no longer one.
LEMMA BrokerResetSides ==
  ASSUME StreamInv, StreamInv', SidesInv, NEW missed \in SUBSET Topic, BrokerReset(missed)
  PROVE  SidesInv'
  <1> DEFINE fresh == [epoch |-> nextEpoch, seq |-> 0]
             held == {t \in Topic : member[t] # "no"}
             frameOf(t) == Frame(IF member[t] = "explicit" THEN "unsubscribed_reset"
                                 ELSE "reset", t, 0, fresh, pos'[t])
  <1>0. /\ client \in Client /\ toServer \in Seq(Asked) /\ toClient \in Seq(Sent)
        /\ tasks \in SUBSET Known /\ tasks \in SUBSET Gid /\ TypeOK /\ TypeOK'
        /\ Known \in SUBSET Gid /\ Linked(client, Known)
    BY SidesType DEF StreamInv
  <1>1. /\ tasks' = tasks /\ toServer' = toServer
        /\ member' = [t \in Topic |-> IF member[t] = "explicit" THEN "no" ELSE member[t]]
        /\ client' = client /\ nextGroup' = nextGroup /\ ready' = ready
    BY DEF BrokerReset, clientVars
  <1>2. PICK order \in SetToSeqs(held) :
           toClient' = toClient \o [i \in DOMAIN order |-> frameOf(order[i])]
    BY DEF BrokerReset
  <1>3. IsFiniteSet(held)
    BY SubscriptionsAssumption, FS_Subset
  <1>4. ASSUME NEW t \in Topic
        PROVE  /\ frameOf(t) \in Sent /\ frameOf(t).topic = t /\ frameOf(t).pos = pos'[t]
               /\ member[t] = "explicit" => frameOf(t).kind = "unsubscribed_reset"
               /\ member[t] # "explicit" => frameOf(t).kind = "reset"
    <2>1. fresh \in [epoch : Nat, seq : Nat] /\ pos'[t] \in Nat
      BY <1>0 DEF TypeOK
    <2> HIDE DEF fresh
    <2> QED
      BY <2>1 DEF Frame, Sent
  <1> DEFINE added == [i \in DOMAIN order |-> frameOf(order[i])]
  <1> HIDE DEF fresh, frameOf, held
  <1>5. /\ order \in Seq(held)
        /\ \A x \in held : \E i \in DOMAIN order : order[i] = x
        /\ \A i \in DOMAIN order : \A j \in DOMAIN order : order[i] = order[j] => i = j
    BY <1>3, Enumerates
  <1>6. /\ DOMAIN order = 1 .. Len(order) /\ Len(order) \in Nat
        /\ \A i \in DOMAIN order : order[i] \in held /\ order[i] \in Topic
    BY <1>5 DEF held
  <1>7. /\ added \in Seq(Sent) /\ DOMAIN added = DOMAIN order
        /\ \A i \in DOMAIN order : added[i] = frameOf(order[i]) /\ added[i].topic = order[i]
    BY <1>4, <1>6
  <1>8. toClient' = toClient \o added
    BY <1>2
  <1> HIDE DEF added
  <1>9. toClient' \in Seq(Sent)
    BY <1>0 DEF TypeOK
  <1>10. CASE ~ready
    <2>1. Quiet
      BY <1>10 DEF SidesInv
    <2>2. held = {}
      BY <2>1 DEF Quiet, held
    <2>3. DOMAIN added = {}
      BY <1>6, <1>7, <2>2
    <2>4. toClient' = <<>>
      BY <1>7, <1>8, <2>1, <2>3 DEF Quiet
    <2>5. Quiet'
      BY <1>1, <2>1, <2>4 DEF Quiet
    <2> QED
      BY <1>1, <1>10, <2>5 DEF SidesInv
  <1>11. CASE ready
    <2>1. ASSUME NEW t \in Topic
          PROVE  Side(client', toServer', tasks', toClient', member'[t], pos'[t], t)
      <3>1. Side(client, toServer, tasks, toClient, member[t], pos[t], t)
        BY <1>11 DEF SidesInv
      <3>2. PICK q : q = pos'[t]
        OBVIOUS
      <3>3. CASE member[t] = "no"
        <4>1. \A i \in DOMAIN added : added[i].topic # t
          BY <1>6, <1>7, <3>3 DEF held
        <4>2. Keeps(toClient, toClient', t) /\ Keeps(toServer, toServer, t)
          BY <1>0, <1>7, <1>8, <4>1, ConcatFor, KeepsRefl
        <4>3. Side(client, toServer, tasks, toClient, "no", q, t)
          BY <3>1, <3>3, SideAbsent
        <4>4. Elsewhere(client, client, t, Known)
          BY ElsewhereRefl
        <4>5. Side(client, toServer, tasks, toClient', "no", q, t)
          BY <1>0, <1>9, <4>2, <4>3, <4>4, SideStays
        <4> QED
          BY <1>1, <3>2, <3>3, <4>5
      <3>4. CASE member[t] # "no"
        <4>1. PICK i \in DOMAIN order : order[i] = t
          BY <1>5, <3>4 DEF held
        <4>2. \A j \in DOMAIN added : added[j].topic = t => j = i
          BY <1>5, <1>7, <4>1
        <4>3. PICK x : x = added[i]
          OBVIOUS
        <4>4. AddsOne(toClient, toClient', t, x)
          BY <1>0, <1>7, <1>8, <4>1, <4>2, <4>3, ConcatFor
        <4>5. x = frameOf(t)
          BY <1>7, <4>1, <4>3
        <4>6. CASE member[t] = "explicit"
          <5>1. x.kind \in Ending
            BY <1>4, <4>5, <4>6 DEF Ending
          <5>2. Side(client, toServer, tasks, toClient', "no", q, t)
            BY <1>0, <1>9, <3>1, <4>4, <5>1, SideEnds
          <5> QED
            BY <1>1, <3>2, <4>6, <5>2
        <4>7. CASE member[t] # "explicit"
          <5>1. x.kind \in {"publish", "reset"} /\ x.pos = q
            BY <1>4, <3>2, <4>5, <4>7
          <5>2. Side(client, toServer, tasks, toClient', member[t], x.pos, t)
            BY <1>0, <1>9, <3>1, <3>4, <4>4, <5>1, SideTells
          <5> QED
            BY <1>1, <3>2, <4>7, <5>1, <5>2
        <4> QED
          BY <4>6, <4>7
      <3> QED
        BY <3>3, <3>4
    <2> QED
      BY <1>1, <1>11, <2>1 DEF SidesInv
  <1> QED
    BY <1>10, <1>11

LEMMA HubSides ==
  ASSUME StreamInv, StreamInv', SidesInv, HubActs
  PROVE  SidesInv'
  <1>0. ready \in BOOLEAN
    BY DEF StreamInv, TypeOK
  <1>1. CASE \E missed \in SUBSET Topic : BrokerReset(missed)
    BY <1>1, BrokerResetSides
  <1>2. CASE \E t \in Topic : OthersJoin(t) \/ OthersLeave(t)
    <2>1. UNCHANGED <<client, ready, toServer, toClient, tasks, member, pos>>
      BY <1>2 DEF OthersJoin, OthersLeave, clientVars
    <2> QED
      BY <2>1 DEF SidesInv, Quiet
  <1>3. CASE ready
    <2>1. CASE ServerReads
      BY <1>3, <2>1, ReadsSides
    <2>2. CASE \E g \in Gid : Grant(g) \/ Deny(g)
      BY <1>3, <2>2, AnswersSides
    <2>3. CASE \E t \in Topic : ServerSubscribe(t)
      BY <1>3, <2>3, ServerSubscribeSides
    <2>4. CASE \E t \in Topic : Publish(t)
      BY <1>3, <2>4, PublishSides
    <2>5. CASE \E t \in Topic : Kick(t)
      BY <1>3, <2>5, HubKickSides
    <2> QED
      BY <1>1, <1>2, <2>1, <2>2, <2>3, <2>4, <2>5 DEF HubActs
  <1>4. CASE ~ready
    <2>0. Quiet
      BY <1>4 DEF SidesInv
    <2>1. CASE ServerReads
      BY <2>0, <2>1 DEF Quiet, ServerReads
    <2>2. CASE \E g \in Gid : Grant(g) \/ Deny(g)
      BY <2>0, <2>2 DEF Quiet, Grant, Deny
    <2>3. CASE \E t \in Topic : ServerSubscribe(t)
      BY <1>4, <2>3 DEF ServerSubscribe
    <2>4. CASE \E t \in Topic : Publish(t)
      <3>1. UNCHANGED <<client, ready, toServer, toClient, tasks, member>>
        BY <2>0, <2>4 DEF Publish, clientVars, Quiet
      <3> QED
        BY <1>4, <2>0, <3>1 DEF SidesInv, Quiet
    <2>5. CASE \E t \in Topic : Kick(t)
      BY <2>0, <2>5 DEF Quiet, Kick
    <2> QED
      BY <1>1, <1>2, <2>1, <2>2, <2>3, <2>4, <2>5 DEF HubActs
  <1> QED
    BY <1>0, <1>3, <1>4

LEMMA StepSides ==
  ASSUME KeysApart, ~StaleHandles, "reset" \notin Leaving,
         StreamInv, StreamInv', SurviveInv, SidesInv, Next
  PROVE  SidesInv'
  <1>0. ready \in BOOLEAN
    BY DEF StreamInv, TypeOK
  <1>1. CASE \/ \E k \in Key : SubscribeNew(k) \/ SubscribeMore(k)
             \/ \E g \in Gid : Unsubscribe(g)
    <2>1. CASE ready
      BY <1>1, <2>1, NewSides, MoreSides, UnsubscribeSides
    <2>2. CASE ~ready
      BY <1>1, <2>2, OwnDown
    <2> QED
      BY <1>0, <2>1, <2>2
  <1>2. CASE ClientReceives
    BY <1>2, ReceiveSides
  <1>3. CASE BecomeReady
    BY <1>3, ReadySides
  <1>4. CASE Lose \/ Close
    BY <1>4, DownSides
  <1>5. CASE HubActs
    BY <1>5, HubSides
  <1> QED
    BY <1>1, <1>2, <1>3, <1>4, <1>5 DEF Next

LEMMA InitSides ==
  ASSUME Init
  PROVE  SidesInv
  <1>1. toServer = <<>> /\ toClient = <<>> /\ tasks = {}
    BY DEF Init
  <1>2. \A t \in Topic : member[t] = "no"
    BY DEF Init
  <1>3. \A g \in Gid : ~client.grp[g].pending
    BY Constants DEF Init, ClientInit
  <1>4. ~ready
    BY ZenonT(20) DEF Init
  <1> QED
    BY <1>1, <1>2, <1>3, <1>4 DEF SidesInv, Quiet

\* When nothing is on the way, no group waits and no ack is to come.
LEMMA IdleAgree ==
  ASSUME StreamInv, SidesInv
  PROVE  SidesAgree
  <1> SUFFICES ASSUME Idle PROVE SidesAgree
    BY DEF SidesAgree
  <1>0. ready /\ toServer = <<>> /\ toClient = <<>> /\ tasks = {}
    BY DEF Idle
  <1>1. /\ client \in Client /\ Known \in SUBSET Gid /\ Linked(client, Known)
    BY SidesType
  <1>2. ASSUME NEW t \in Topic
        PROVE  /\ Free(client, t) /\ Named(client, t)
               /\ member[t] = "explicit" => client.byTopic[t] # 0
               /\ client.byTopic[t] # 0 =>
                     member[t] # "no" /\ client.grp[client.byTopic[t]].at = pos[t]
    <2>1. Side(client, toServer, tasks, toClient, member[t], pos[t], t)
      BY <1>0 DEF SidesInv
    <2>2. \A g : ~OneFor(toServer, Ask, t, g) /\ ~OneTask(client, tasks, t, g)
                 /\ ~OneFor(toClient, Answer, t, g)
      BY <1>0 DEF OneFor, OneTask
    <2>3. Resting(client, toServer, tasks, toClient, t) /\ Named(client, t)
      BY <2>1, <2>2 DEF Side, Asking
    <2>4. /\ None(toServer, Leave, t) /\ ~HasBegin(toClient, t) /\ None(toClient, Ending, t)
          /\ ~Tells(toClient, t, pos[t])
      BY <1>0 DEF None, HasBegin, Tells
    <2>5. Matched(client, toServer, toClient, member[t], pos[t], t)
      BY <2>1 DEF Side
    <2> QED
      BY <2>3, <2>4, <2>5 DEF Resting, Matched, Sure
  <1>3. \A t \in Topic : client.byTopic[t] # 0 => client.grp[client.byTopic[t]].subs > 0
    BY <1>2 DEF Named
  <1>4. ASSUME NEW k \in Key, client.groups[k] # 0
        PROVE  client.byTopic[TopicOf[k]] = client.groups[k]
    <2>1. TopicOf[k] \in Topic
      BY Constants
    <2>2. client.groups[k] \in Gid /\ TopicOfGroup(client, client.groups[k]) = TopicOf[k]
      BY <1>1, <1>4 DEF Linked, TopicOfGroup
    <2>3. ~client.grp[client.groups[k]].pending
      BY <1>2, <2>1, <2>2 DEF Free
    <2> QED
      BY <1>2, <1>4, <2>1, <2>3 DEF Named
  <1> QED
    BY <1>2, <1>3, <1>4 DEF SidesAgree

\* Whenever the connection is up and nothing is on the way, the hub has this
\* connection as the subscriber of exactly what the client dispatches, each
\* with a reader, and every reader knows of every message: no unsubscribe that
\* crosses a grant, kick or reset leaves either side with a subscription the
\* other has forgotten.  This is so for keys with topics of their own, of an
\* application that unsubscribes no handle of an ended group whose key it has
\* subscribed again and does not unsubscribe in the callback that announces a
\* server reset.
THEOREM SidesAlwaysAgree ==
  ASSUME KeysApart, ~StaleHandles, "reset" \notin Leaving
  PROVE  Spec => []SidesAgree
  <1>1. Init => SurviveInv /\ SidesInv
    BY InitSurvive, InitSides
  <1>2. StreamInv /\ StreamInv' /\ SurviveInv /\ SidesInv /\ [Next]_vars =>
            SurviveInv' /\ SidesInv'
    <2> SUFFICES ASSUME StreamInv, StreamInv', SurviveInv, SidesInv, [Next]_vars
                 PROVE  SurviveInv' /\ SidesInv'
      OBVIOUS
    <2>1. CASE Next
      BY <2>1, StepSurvive, StepSides
    <2>2. CASE UNCHANGED vars
      <3>1. client' = client /\ ready' = ready /\ closed' = closed /\ Known' = Known
        BY <2>2 DEF vars, Known
      <3>2. SurviveInv'
        BY <3>1 DEF SurviveInv
      <3>3. SidesInv'
        BY <2>2 DEF vars, SidesInv, Quiet
      <3> QED
        BY <3>2, <3>3
    <2> QED
      BY <2>1, <2>2
  <1>3. StreamInv /\ SidesInv => SidesAgree
    BY IdleAgree
  <1> QED
    BY <1>1, <1>2, <1>3, StreamAlways, PTL DEF Spec

=============================================================================

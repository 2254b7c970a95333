------------------------ MODULE OrmConnectionsProofs ------------------------
(***************************************************************************)
(* Proof that what the ORM's connections acknowledge is so, for any number *)
(* of transactions, statements, migrators and versions.                    *)
(***************************************************************************)
EXTENDS OrmConnections, FiniteSetTheorems, WellFoundedInduction, TLAPS

TxRecord ==
    [state : {"idle", "open", "returned ok", "returned err", "abandoned",
              "committing", "rolling back", "done"},
     work : SUBSET Tags, told : SUBSET Tags, failed : BOOLEAN, asked : BOOLEAN,
     result : {NoTx, "ok", "err", "cancelled"}, stray : BOOLEAN]

TxTypeOK ==
    /\ txn \in [Txs -> TxRecord]
    /\ committed \in SUBSET Tags /\ acked \in SUBSET Tags /\ used \in SUBSET Tags

(* None of a transaction's work is committed before the database decides,  *)
(* which it does once, for all of it, and only for commit after COMMIT was *)
(* asked for; Ok is heard of no other work than what was kept.             *)
Held(t) ==
    /\ txn[t].work \subseteq used /\ txn[t].told \subseteq txn[t].work
    /\ txn[t].state = "idle" => txn[t].work = {}
    /\ txn[t].state # "done" => txn[t].work \cap committed = {} /\ txn[t].result # "ok"
    /\ txn[t].state = "committing" => txn[t].asked
    /\ ~txn[t].asked => txn[t].work \cap committed = {}
    /\ txn[t].result = "ok" => txn[t].failed \/ txn[t].work \subseteq committed
    /\ txn[t].work \subseteq committed \/ txn[t].work \cap committed = {}

(* A statement is the work of one transaction.                             *)
Apart(t, u) == txn[t].work \cap txn[u].work = {}

TxInv ==
    /\ TxTypeOK
    /\ committed \subseteq used /\ acked \subseteq used
    /\ \A t \in Txs : Held(t)
    /\ \A t \in Txs : \A u \in Txs : t # u => Apart(t, u)
    /\ OnlyConnection => \A t \in Txs : \A u \in Txs : Live(t) /\ Live(u) => t = u
    /\ ~OnlyConnection => acked \subseteq committed

MigRecord == [pc : {"idle", "applying", "committing"}, seen : SUBSET (1..MaxVersion), runs : Nat]

MigTypeOK ==
    /\ migrator \in [Migrators -> MigRecord]
    /\ recorded \in SUBSET (1..MaxVersion)
    /\ effects \in [1..MaxVersion -> Nat]

(* The versions from the first up to some version.                         *)
Segment(S) == \E k \in Nat : S = 1..k

(* A migrator about to commit has a version of its own that is not         *)
(* recorded yet, or, where DDL commits, one it has recorded.               *)
MigInv ==
    /\ MigTypeOK
    /\ ~OnlyConnection =>
         /\ Segment(recorded)
         /\ \A m \in Migrators : Segment(migrator[m].seen) /\ migrator[m].seen \subseteq recorded
    /\ \A m \in Migrators : migrator[m].pc = "committing" =>
         /\ NextVersion(m) \in 1..MaxVersion
         /\ NextVersion(m) \in recorded <=> DdlCommits
    /\ ~DdlCommits => \A m \in Migrators : \A n \in Migrators :
         migrator[m].pc = "committing" /\ migrator[n].pc = "committing" => m = n
    /\ ~DdlCommits => \A v \in 1..MaxVersion : effects[v] = (IF v \in recorded THEN 1 ELSE 0)
    /\ \A v \in recorded : effects[v] > 0

ConnInv == TxInv /\ MigInv

-----------------------------------------------------------------------------
(* Transactions                                                            *)

LEMMA TxInitInv == ConnInit => TxInv
  <1> SUFFICES ASSUME ConnInit PROVE TxInv
    OBVIOUS
  <1>1. FreshTx \in TxRecord
    BY DEF FreshTx, TxRecord
  <1>2. TxTypeOK
    BY <1>1 DEF ConnInit, TxTypeOK
  <1>3. \A t \in Txs : Held(t) /\ ~Live(t)
    BY ResultAssumption DEF ConnInit, Held, Live, Full, FreshTx
  <1>4. \A t \in Txs : \A u \in Txs : t # u => Apart(t, u)
    BY DEF ConnInit, Apart, FreshTx
  <1> QED
    BY <1>2, <1>3, <1>4 DEF TxInv, ConnInit

\* A step that changes one transaction, given as the record it becomes.
LEMMA TxStep ==
  ASSUME TxInv, NEW t \in Txs, NEW r \in TxRecord,
         txn' = [txn EXCEPT ![t] = r], UNCHANGED dialect,
         committed' \in SUBSET Tags, used' \in SUBSET Tags, UNCHANGED acked,
         used \subseteq used', committed \subseteq committed', committed' \subseteq used',
         committed' \subseteq committed \cup txn[t].work,
         Held(t)', r.work \subseteq txn[t].work \cup (used' \ used),
         OnlyConnection /\ Live(t)' => \A u \in Txs : Live(u) => u = t
  PROVE  TxInv'
  <1>1. /\ txn'[t] = r
        /\ \A u \in Txs : u # t => txn'[u] = txn[u]
    BY DEF TxInv, TxTypeOK
  <1>2. TxTypeOK'
    BY DEF TxInv, TxTypeOK
  <1>3. ASSUME NEW u \in Txs, u # t PROVE Held(u)'
    <2>1. Held(u) /\ Apart(u, t)
      BY <1>3 DEF TxInv
    <2>2. txn'[u] = txn[u] /\ txn[u].work \cap committed' = txn[u].work \cap committed
      BY <1>1, <1>3, <2>1 DEF Apart
    <2> QED
      BY <2>1, <2>2 DEF Held
  <1>4. ASSUME NEW u \in Txs, NEW w \in Txs, u # w PROVE Apart(u, w)'
    <2>1. Held(u) /\ Held(w) /\ Apart(u, w)
      BY <1>4 DEF TxInv
    <2>2. CASE u = t
      BY <1>1, <1>4, <2>1, <2>2 DEF Held, Apart
    <2>3. CASE w = t
      BY <1>1, <1>4, <2>1, <2>3 DEF Held, Apart
    <2>4. CASE u # t /\ w # t
      BY <1>1, <2>1, <2>4 DEF Apart
    <2> QED
      BY <2>2, <2>3, <2>4
  <1>5. ASSUME OnlyConnection', NEW u \in Txs, NEW w \in Txs, Live(u)', Live(w)' PROVE u = w
    <2>1. OnlyConnection /\ \A x \in Txs : x # t => (Live(x)' <=> Live(x))
      BY <1>1, <1>5 DEF Live, Full, OnlyConnection
    <2> QED
      BY <1>5, <2>1 DEF TxInv
  <1>6. acked' \subseteq used' /\ (~OnlyConnection' => acked' \subseteq committed')
    BY DEF TxInv, OnlyConnection
  <1> QED
    BY <1>2, <1>3, <1>4, <1>5, <1>6 DEF TxInv

\* A step of one transaction's state and result that writes and commits nothing:
\* it does not go back to idle, does not come by Ok, has asked for COMMIT when
\* it is committing, and opens nothing beside an open transaction on one
\* connection.
LEMMA TxQuietStep ==
  ASSUME TxInv, NEW t \in Txs, NEW r \in TxRecord, txn' = [txn EXCEPT ![t] = r],
         UNCHANGED <<dialect, committed, acked, used>>,
         r.work = txn[t].work, r.told = txn[t].told, r.failed = txn[t].failed,
         r.state # "idle", txn[t].state = "done" => r.state = "done",
         r.result = "ok" => txn[t].result = "ok",
         txn[t].state = "done" => r.asked = txn[t].asked, r.state = "committing" => r.asked,
         Live(t)' => Live(t) \/ ~OnlyConnection \/ \A u \in Txs : ~Live(u)
  PROVE  TxInv'
  <1>1. Held(t) /\ txn'[t] = r
    BY DEF TxInv, TxTypeOK
  <1>2. Held(t)'
    BY <1>1 DEF Held
  <1>3. OnlyConnection /\ Live(t)' => \A u \in Txs : Live(u) => u = t
    BY DEF TxInv
  <1> QED
    BY <1>2, <1>3, TxStep DEF TxInv, TxTypeOK

LEMMA BeginInv == ASSUME TxInv, NEW t \in Txs, begin(t) PROVE TxInv'
  <1>1. txn[t] \in TxRecord /\ txn \in [Txs -> TxRecord]
    BY DEF TxInv, TxTypeOK
  <1>2. CASE OnlyConnection /\ \E u \in Txs : Live(u)
    <2> DEFINE r == [txn[t] EXCEPT !.state = "done", !.result = "err"]
    <2>1. /\ r \in TxRecord /\ r.work = txn[t].work /\ r.told = txn[t].told /\ r.failed = txn[t].failed
          /\ r.asked = txn[t].asked /\ r.state = "done" /\ r.result = "err"
      BY <1>1 DEF TxRecord
    <2>2. txn' = [txn EXCEPT ![t] = r] /\ txn'[t] = r
      BY <1>1, <1>2 DEF begin
    <2> HIDE DEF r
    <2>3. ~Live(t)'
      BY <2>1, <2>2 DEF Live, Full
    <2> QED
      BY <2>1, <2>2, <2>3, TxQuietStep DEF begin
  <1>3. CASE ~(OnlyConnection /\ \E u \in Txs : Live(u))
    <2> DEFINE r == [txn[t] EXCEPT !.state = "open"]
    <2>1. /\ r \in TxRecord /\ r.work = txn[t].work /\ r.told = txn[t].told /\ r.failed = txn[t].failed
          /\ r.asked = txn[t].asked /\ r.state = "open" /\ r.result = txn[t].result
      BY <1>1 DEF TxRecord
    <2>2. txn' = [txn EXCEPT ![t] = r]
      BY <1>3 DEF begin
    <2> HIDE DEF r
    <2> QED
      BY <1>3, <2>1, <2>2, TxQuietStep DEF begin
  <1> QED
    BY <1>2, <1>3

LEMMA ExecuteInv ==
  ASSUME TxInv, NEW t \in Txs, NEW tag \in Tags, NEW ok \in BOOLEAN, NEW heard \in BOOLEAN,
         execute(t, tag, ok, heard)
  PROVE  TxInv'
  <1>1. Held(t) /\ txn[t] \in TxRecord /\ Live(t) /\ txn[t].state \notin {"idle", "done"}
    BY DEF TxInv, TxTypeOK, execute, Full, Live
  <1>2. /\ used' = used \cup {tag} /\ tag \notin used /\ used' \in SUBSET Tags
        /\ committed' = committed /\ committed \in SUBSET Tags /\ committed \subseteq used
        /\ acked' = acked /\ dialect' = dialect
    BY DEF TxInv, TxTypeOK, execute
  <1>3. OnlyConnection => \A u \in Txs : Live(u) => u = t
    BY <1>1 DEF TxInv
  <1>4. CASE ok /\ ~txn[t].failed
    <2> DEFINE told == IF heard THEN txn[t].told \cup {tag} ELSE txn[t].told
               r == [txn[t] EXCEPT !.work = @ \cup {tag}, !.told = told]
    <2>1. told \in SUBSET Tags /\ told \subseteq txn[t].told \cup {tag}
      BY <1>1 DEF TxRecord
    <2>2. txn' = [txn EXCEPT ![t] = r]
      BY <1>4 DEF execute
    <2> HIDE DEF told
    <2>3. /\ r \in TxRecord /\ r.work = txn[t].work \cup {tag} /\ r.told = told
          /\ r.state = txn[t].state /\ r.result = txn[t].result /\ r.asked = txn[t].asked
      BY <1>1, <2>1 DEF TxRecord
    <2>4. txn'[t] = r
      BY <2>2 DEF TxInv, TxTypeOK
    <2> HIDE DEF r
    <2>5. Held(t)'
      BY <1>1, <1>2, <2>1, <2>3, <2>4 DEF Held
    <2> QED
      BY <1>2, <1>3, <2>2, <2>3, <2>5, TxStep
  <1>5. CASE ~(ok /\ ~txn[t].failed)
    <2> DEFINE r == [txn[t] EXCEPT !.failed = @ \/ dialect = "postgres"]
    <2>1. /\ r \in TxRecord /\ r.work = txn[t].work /\ r.told = txn[t].told
          /\ r.state = txn[t].state /\ r.result = txn[t].result /\ r.asked = txn[t].asked
      BY <1>1 DEF TxRecord
    <2>2. txn' = [txn EXCEPT ![t] = r] /\ txn'[t] = r
      BY <1>5 DEF execute, TxInv, TxTypeOK
    <2> HIDE DEF r
    <2>3. Held(t)'
      BY <1>1, <1>2, <2>1, <2>2 DEF Held
    <2> QED
      BY <1>2, <1>3, <2>1, <2>2, <2>3, TxStep
  <1> QED
    BY <1>4, <1>5

LEMMA StrayInv == ASSUME TxInv, NEW t \in Txs, execute_finished(t) PROVE TxInv'
  <1> DEFINE r == [txn[t] EXCEPT !.stray = TRUE]
  <1>1. Held(t) /\ txn[t] \in TxRecord
    BY DEF TxInv, TxTypeOK
  <1>2. /\ r \in TxRecord /\ r.work = txn[t].work /\ r.told = txn[t].told /\ r.failed = txn[t].failed
        /\ r.asked = txn[t].asked /\ r.state = txn[t].state /\ r.result = txn[t].result
    BY <1>1 DEF TxRecord
  <1>3. txn' = [txn EXCEPT ![t] = r] /\ txn'[t] = r
    BY DEF execute_finished, TxInv, TxTypeOK
  <1> HIDE DEF r
  <1>4. Live(t)' => Live(t)
    BY <1>2, <1>3 DEF Live, Full
  <1>5. /\ r.state # "idle" /\ (r.state = "committing" => r.asked)
        /\ UNCHANGED <<dialect, committed, acked, used>>
    BY <1>1, <1>2 DEF Held, execute_finished
  <1> QED
    BY <1>2, <1>3, <1>4, <1>5, TxQuietStep

\* The closure returns, the connection is taken out of the cell, the future is
\* dropped, or the driver rolls back: no work is written or committed.
LEMMA StateInv ==
  ASSUME TxInv, NEW t \in Txs, Live(t), NEW s, NEW a \in BOOLEAN, NEW res \in {"err", "cancelled", txn[t].result},
         s \in {"returned ok", "returned err", "abandoned", "committing", "rolling back", "done"},
         s = "committing" => a,
         txn' = [txn EXCEPT ![t].state = s, ![t].asked = a, ![t].result = res],
         UNCHANGED <<dialect, committed, acked, used>>
  PROVE  TxInv'
  <1> DEFINE r == [txn[t] EXCEPT !.state = s, !.asked = a, !.result = res]
  <1>1. txn[t] \in TxRecord
    BY DEF TxInv, TxTypeOK
  <1>2. /\ r \in TxRecord /\ r.work = txn[t].work /\ r.told = txn[t].told /\ r.failed = txn[t].failed
        /\ r.asked = a /\ r.state = s /\ r.result = res
    BY <1>1 DEF TxRecord
  <1>3. txn' = [txn EXCEPT ![t] = r]
    OBVIOUS
  <1>4. txn[t].state # "done"
    BY DEF Live, Full
  <1> HIDE DEF r
  <1> QED
    BY <1>2, <1>3, <1>4, TxQuietStep

LEMMA ReturnsInv == ASSUME TxInv, NEW t \in Txs, NEW ok \in BOOLEAN, returns(t, ok) PROVE TxInv'
  <1> DEFINE s == IF ok THEN "returned ok" ELSE "returned err"
  <1>1. txn \in [Txs -> TxRecord] /\ Live(t) /\ txn[t].asked \in BOOLEAN
    BY DEF TxInv, TxTypeOK, TxRecord, returns, Live, Full
  <1>2. txn' = [txn EXCEPT ![t].state = s, ![t].asked = txn[t].asked, ![t].result = txn[t].result]
    BY <1>1 DEF returns, TxRecord
  <1>3. s \in {"returned ok", "returned err"}
    OBVIOUS
  <1> HIDE DEF s
  <1> QED
    BY <1>1, <1>2, <1>3, StateInv DEF returns

LEMMA TakeInv == ASSUME TxInv, NEW t \in Txs, take(t) PROVE TxInv'
  <1> DEFINE ok == txn[t].state = "returned ok"
             s == IF ok THEN "committing" ELSE "rolling back"
  <1>1. txn \in [Txs -> TxRecord] /\ Live(t) /\ Held(t) /\ txn[t].asked \in BOOLEAN
    BY DEF TxInv, TxTypeOK, TxRecord, take, Live, Full
  <1>2. txn' = [txn EXCEPT ![t].state = s, ![t].asked = ok, ![t].result = txn[t].result]
    BY <1>1 DEF take, TxRecord
  <1>3. ok \in BOOLEAN /\ s \in {"committing", "rolling back"} /\ (s = "committing" => ok)
    OBVIOUS
  <1>4. UNCHANGED <<dialect, committed, acked, used>>
    BY DEF take
  <1> HIDE DEF ok, s
  <1> QED
    BY <1>1, <1>2, <1>3, <1>4, StateInv

LEMMA CancelInv == ASSUME TxInv, NEW t \in Txs, cancel(t) PROVE TxInv'
  <1> DEFINE s == IF Full(t) THEN "abandoned" ELSE txn[t].state
  <1>1. txn \in [Txs -> TxRecord] /\ txn[t].asked \in BOOLEAN /\ Held(t)
    BY DEF TxInv, TxTypeOK, TxRecord
  <1>2. txn' = [txn EXCEPT ![t].state = s, ![t].asked = txn[t].asked, ![t].result = "cancelled"]
    BY <1>1 DEF cancel, TxRecord
  <1>3. Live(t) /\ s \in {"abandoned", "committing", "rolling back"}
    BY <1>1 DEF cancel, TxRecord, Live, Full
  <1>4. s = "committing" => txn[t].asked
    BY <1>1 DEF Held
  <1> HIDE DEF s
  <1> QED
    BY <1>1, <1>2, <1>3, <1>4, StateInv DEF cancel

\* The driver rolls back: nothing of the transaction is kept.
LEMMA RollbackInv == ASSUME TxInv, NEW t \in Txs, rollback(t) \/ drop_last(t) PROVE TxInv'
  <1>1. txn \in [Txs -> TxRecord] /\ txn[t].asked \in BOOLEAN /\ Live(t)
    BY DEF TxInv, TxTypeOK, TxRecord, rollback, drop_last, Live, Full
  <1>2. UNCHANGED <<dialect, committed, acked, used>>
    BY DEF rollback, drop_last
  <1> DEFINE s == "done"
             a == txn[t].asked
  <1>3. s \in {"done"} /\ s # "committing" /\ a \in BOOLEAN
    BY <1>1
  <1>4. \E res \in {"err", txn[t].result} :
            txn' = [txn EXCEPT ![t].state = s, ![t].asked = a, ![t].result = res]
    <2>1. CASE rollback(t)
      <3> DEFINE res == IF txn[t].result # NoTx THEN txn[t].result ELSE "err"
      <3>1. txn' = [txn EXCEPT ![t].state = s, ![t].asked = a, ![t].result = res]
        BY <1>1, <2>1 DEF rollback, TxRecord
      <3>2. res \in {"err", txn[t].result}
        OBVIOUS
      <3> HIDE DEF res, s, a
      <3> QED
        BY <3>1, <3>2
    <2>2. CASE drop_last(t)
      <3>1. txn' = [txn EXCEPT ![t].state = s, ![t].asked = a, ![t].result = txn[t].result]
        BY <1>1, <2>2 DEF drop_last, TxRecord
      <3> HIDE DEF s, a
      <3> QED
        BY <3>1
    <2> QED
      BY <2>1, <2>2
  <1> HIDE DEF s, a
  <1> QED
    BY <1>1, <1>2, <1>3, <1>4, StateInv

\* COMMIT is decided: all of the work is kept or none, whatever the caller hears.
LEMMA CommitInv ==
  ASSUME TxInv, NEW t \in Txs, NEW kept \in BOOLEAN, NEW heard \in BOOLEAN, commit(t, kept, heard)
  PROVE  TxInv'
  <1> DEFINE res == IF txn[t].result # NoTx THEN txn[t].result
                    ELSE IF kept /\ heard THEN "ok" ELSE "err"
             r == [txn[t] EXCEPT !.state = "done", !.result = res]
  <1>1. Held(t) /\ txn[t] \in TxRecord /\ txn[t].state = "committing" /\ txn[t].asked
    BY DEF TxInv, TxTypeOK, Held, commit
  <1>2. txn[t].result # "ok"
    BY <1>1 DEF Held
  <1>3. res \in {NoTx, "ok", "err", "cancelled"} /\ (res = "ok" => kept)
    BY <1>1, <1>2 DEF TxRecord
  <1>4. txn' = [txn EXCEPT ![t] = r] /\ txn'[t] = r
    BY DEF commit, TxInv, TxTypeOK
  <1> HIDE DEF res
  <1>5. /\ r \in TxRecord /\ r.work = txn[t].work /\ r.told = txn[t].told /\ r.failed = txn[t].failed
        /\ r.asked = txn[t].asked /\ r.state = "done" /\ r.result = res
    BY <1>1, <1>3 DEF TxRecord
  <1> HIDE DEF r
  <1>6. /\ used' = used /\ acked' = acked /\ dialect' = dialect
        /\ committed' = IF kept /\ ~txn[t].failed THEN committed \cup txn[t].work ELSE committed
    BY DEF commit
  <1>7. ~Live(t)'
    BY <1>4, <1>5 DEF Live, Full
  <1>8. Held(t)'
    BY <1>1, <1>3, <1>4, <1>5, <1>6 DEF Held
  <1>9. committed' \in SUBSET Tags /\ committed' \subseteq used'
    BY <1>1, <1>6 DEF Held, TxInv, TxTypeOK
  <1> QED
    BY <1>4, <1>5, <1>6, <1>7, <1>8, <1>9, TxStep DEF TxInv, TxTypeOK

\* A pool statement: kept at once, or carried by the one open transaction.
LEMMA PoolInv ==
  ASSUME TxInv, NEW tag \in Tags, NEW heard \in BOOLEAN, execute_pool(tag, heard) PROVE TxInv'
  <1>1. /\ used' = used \cup {tag} /\ tag \notin used /\ used' \in SUBSET Tags
        /\ acked' \subseteq acked \cup {tag} /\ dialect' = dialect
        /\ committed \in SUBSET Tags /\ committed \subseteq used /\ acked \subseteq used
        /\ acked' \in SUBSET Tags
    BY DEF TxInv, TxTypeOK, execute_pool
  <1>2. CASE OnlyConnection /\ \E u \in Txs : Live(u)
    <2>1. committed' = committed
      BY <1>2 DEF execute_pool
    <2>2. ASSUME NEW u \in Txs
          PROVE  /\ txn'[u] \in TxRecord
                 /\ txn'[u].work = IF Live(u) THEN txn[u].work \cup {tag} ELSE txn[u].work
                 /\ txn'[u].told = txn[u].told /\ txn'[u].state = txn[u].state
                 /\ txn'[u].result = txn[u].result /\ txn'[u].failed = txn[u].failed
                 /\ txn'[u].asked = txn[u].asked
      <3>1. txn[u] \in TxRecord
        BY DEF TxInv, TxTypeOK
      <3>2. txn'[u] = IF Live(u) THEN [txn[u] EXCEPT !.work = @ \cup {tag}] ELSE txn[u]
        BY <1>2 DEF execute_pool
      <3>3. CASE Live(u)
        <4> DEFINE r == [txn[u] EXCEPT !.work = @ \cup {tag}]
        <4>1. txn'[u] = r
          BY <3>2, <3>3
        <4>2. /\ r \in TxRecord /\ r.work = txn[u].work \cup {tag} /\ r.told = txn[u].told
              /\ r.state = txn[u].state /\ r.result = txn[u].result /\ r.failed = txn[u].failed
              /\ r.asked = txn[u].asked
          BY <3>1 DEF TxRecord
        <4> HIDE DEF r
        <4> QED
          BY <3>3, <4>1, <4>2
      <3>4. CASE ~Live(u)
        BY <3>1, <3>2, <3>4
      <3> QED
        BY <3>3, <3>4
    <2>3. txn' \in [Txs -> TxRecord]
      <3>1. txn' = [u \in Txs |-> IF Live(u) THEN [txn[u] EXCEPT !.work = @ \cup {tag}] ELSE txn[u]]
        BY <1>2 DEF execute_pool
      <3> HIDE DEF Live, TxRecord
      <3>2. \A u \in Txs : (IF Live(u) THEN [txn[u] EXCEPT !.work = @ \cup {tag}] ELSE txn[u]) \in TxRecord
        BY <2>2, <3>1
      <3> QED
        BY <3>1, <3>2
    <2>4. \A u \in Txs : Live(u)' <=> Live(u)
      BY <2>2 DEF Live, Full
    <2>5. ASSUME NEW u \in Txs PROVE Held(u)'
      <3>1. Held(u) /\ (Live(u) => txn[u].state \notin {"idle", "done"})
        BY DEF TxInv, Live, Full
      <3> QED
        BY <1>1, <2>1, <2>2, <2>4, <3>1 DEF Held
    <2>6. ASSUME NEW u \in Txs, NEW w \in Txs, u # w PROVE Apart(u, w)'
      <3>1. Held(u) /\ Held(w) /\ Apart(u, w) /\ (~Live(u) \/ ~Live(w))
        BY <1>2, <2>6 DEF TxInv
      <3>2. tag \notin txn[u].work /\ tag \notin txn[w].work
        BY <1>1, <3>1 DEF Held
      <3> QED
        BY <2>2, <3>1, <3>2 DEF Apart
    <2> QED
      BY <1>1, <1>2, <2>1, <2>3, <2>4, <2>5, <2>6 DEF TxInv, TxTypeOK, OnlyConnection
  <1>3. CASE ~(OnlyConnection /\ \E u \in Txs : Live(u))
    <2>1. committed' = committed \cup {tag} /\ txn' = txn
      BY <1>3 DEF execute_pool
    <2>2. ASSUME NEW u \in Txs PROVE Held(u)'
      <3>1. Held(u) /\ tag \notin txn[u].work
        BY <1>1 DEF TxInv, Held
      <3> QED
        BY <1>1, <2>1, <3>1 DEF Held
    <2>3. \A u \in Txs : \A w \in Txs : u # w => Apart(u, w)'
      BY <2>1 DEF TxInv, Apart
    <2>4. OnlyConnection' => \A u \in Txs : \A w \in Txs : Live(u)' /\ Live(w)' => u = w
      BY <1>1, <2>1 DEF TxInv, Live, Full, OnlyConnection
    <2> QED
      BY <1>1, <2>1, <2>2, <2>3, <2>4 DEF TxInv, TxTypeOK, OnlyConnection
  <1> QED
    BY <1>2, <1>3

\* The migrators leave the transactions alone.
LEMMA TxSameInv == TxInv /\ UNCHANGED <<dialect, txVars>> => TxInv'
  BY DEF TxInv, TxTypeOK, txVars, Held, Apart, Live, Full, OnlyConnection

LEMMA TxNextInv == TxInv /\ [ConnNext]_connVars => TxInv'
  <1> SUFFICES ASSUME TxInv, [ConnNext]_connVars PROVE TxInv'
    OBVIOUS
  <1>1. ASSUME NEW t \in Txs, begin(t) PROVE TxInv'
    BY <1>1, BeginInv
  <1>2. ASSUME NEW t \in Txs, execute_finished(t) PROVE TxInv'
    BY <1>2, StrayInv
  <1>3. ASSUME NEW t \in Txs, cancel(t) PROVE TxInv'
    BY <1>3, CancelInv
  <1>4. ASSUME NEW t \in Txs, rollback(t) \/ drop_last(t) PROVE TxInv'
    BY <1>4, RollbackInv
  <1>5. ASSUME NEW t \in Txs, NEW ok \in BOOLEAN, returns(t, ok) \/ take(t) PROVE TxInv'
    BY <1>5, ReturnsInv, TakeInv
  <1>6. ASSUME NEW t \in Txs, NEW kept \in BOOLEAN, NEW heard \in BOOLEAN, commit(t, kept, heard)
        PROVE  TxInv'
    BY <1>6, CommitInv
  <1>7. ASSUME NEW t \in Txs, NEW tag \in Tags, NEW ok \in BOOLEAN, NEW heard \in BOOLEAN,
               execute(t, tag, ok, heard)
        PROVE  TxInv'
    BY <1>7, ExecuteInv
  <1>8. ASSUME NEW tag \in Tags, NEW heard \in BOOLEAN, execute_pool(tag, heard) PROVE TxInv'
    BY <1>8, PoolInv
  <1>9. ASSUME NEW m \in Migrators, NEW ok \in BOOLEAN, NEW heard \in BOOLEAN,
               migrate(m) \/ migrated(m) \/ apply_pending(m, ok) \/ commit_pending(m, ok, heard)
        PROVE  TxInv'
    BY <1>9, TxSameInv DEF migrate, migrated, apply_pending, commit_pending
  <1>10. CASE UNCHANGED connVars
    BY <1>10, TxSameInv DEF connVars
  <1> QED
    BY <1>1, <1>2, <1>3, <1>4, <1>5, <1>6, <1>7, <1>8, <1>9, <1>10 DEF ConnNext

-----------------------------------------------------------------------------
(* Migrators                                                               *)

LEMMA LeastNatural ==
  ASSUME NEW S, S \subseteq Nat, S # {}
  PROVE  \E v \in S : \A w \in S : v <= w
  <1> DEFINE R == OpToRel(<, Nat)
  <1>1. PICK v \in S : \A w \in S : ~ (<<w, v>> \in R)
    <2>1. IsWellFoundedOn(R, Nat)
      BY NatLessThanWellFounded
    <2> HIDE DEF R
    <2> QED
      BY <2>1, WFMin
  <1>2. \A w \in S : ~ (w < v)
    BY <1>1 DEF OpToRel
  <1> QED
    BY <1>2

\* The next version is the least that the migrator has not seen.
LEMMA NextVersionIs ==
  ASSUME NEW m \in Migrators, migrator[m].seen \in SUBSET (1..MaxVersion)
  PROVE  /\ NextVersion(m) \in 1..(MaxVersion + 1) \ migrator[m].seen
         /\ \A w \in 1..(MaxVersion + 1) \ migrator[m].seen : NextVersion(m) <= w
  <1> DEFINE S == 1..(MaxVersion + 1) \ migrator[m].seen
  <1>1. MaxVersion + 1 \in S /\ S \subseteq Nat
    BY BoundAssumption
  <1>2. \E v \in S : \A w \in S : v <= w
    BY <1>1, LeastNatural
  <1> QED
    BY <1>2 DEF NextVersion

LEMMA NextVersionType ==
  ASSUME MigTypeOK, NEW m \in Migrators
  PROVE  /\ migrator[m].seen \in SUBSET (1..MaxVersion)
         /\ NextVersion(m) \in 1..(MaxVersion + 1) /\ NextVersion(m) \in Nat
         /\ NextVersion(m) \notin migrator[m].seen
         /\ \A w \in 1..MaxVersion : w \notin migrator[m].seen => NextVersion(m) <= w
  <1>1. migrator[m].seen \in SUBSET (1..MaxVersion)
    BY DEF MigTypeOK, MigRecord
  <1>2. NextVersion(m) \in 1..(MaxVersion + 1) \ migrator[m].seen
    BY <1>1, NextVersionIs
  <1>3. \A w \in 1..(MaxVersion + 1) \ migrator[m].seen : NextVersion(m) <= w
    BY <1>1, NextVersionIs
  <1>4. \A w \in 1..MaxVersion : w \in 1..(MaxVersion + 1)
    BY BoundAssumption
  <1> QED
    BY <1>1, <1>2, <1>3, <1>4, BoundAssumption

\* After the versions 1..j comes j + 1.
LEMMA NextOfSegment ==
  ASSUME MigTypeOK, NEW m \in Migrators, NEW j \in Nat, migrator[m].seen = 1..j
  PROVE  NextVersion(m) = j + 1
  <1> DEFINE v == NextVersion(m)
  <1>1. v \in Nat /\ v >= 1 /\ v \notin 1..j /\ v <= MaxVersion + 1
    BY NextVersionType, BoundAssumption
  <1>2. v > j
    BY <1>1
  <1>3. j <= MaxVersion
    <2>1. CASE j = 0
      BY <2>1, BoundAssumption
    <2>2. CASE j > 0
      <3>1. j \in 1..j
        BY <2>2
      <3> QED
        BY <3>1, NextVersionType, BoundAssumption
    <2> QED
      BY <2>1, <2>2
  <1>4. CASE j = MaxVersion
    BY <1>1, <1>2, <1>4, BoundAssumption
  <1>5. CASE j # MaxVersion
    <2>1. j + 1 \in 1..MaxVersion /\ j + 1 \notin migrator[m].seen
      BY <1>3, <1>5, BoundAssumption
    <2>2. v <= j + 1
      BY <2>1, NextVersionType
    <2> QED
      BY <1>1, <1>2, <2>2
  <1> QED
    BY <1>4, <1>5

\* The next version depends on what the migrator has seen, and on nothing else.
LEMMA NextVersionSame ==
  ASSUME NEW m \in Migrators, migrator'[m].seen = migrator[m].seen
  PROVE  NextVersion(m)' = NextVersion(m)
  BY DEF NextVersion

LEMMA MigInitInv == ConnInit => MigInv
  <1> SUFFICES ASSUME ConnInit PROVE MigInv
    OBVIOUS
  <1>1. MigTypeOK
    BY BoundAssumption DEF ConnInit, MigTypeOK, MigRecord
  <1>2. {} = 1..0 /\ 0 \in Nat
    OBVIOUS
  <1>3. Segment(recorded) /\ \A m \in Migrators : Segment(migrator[m].seen) /\ migrator[m].seen \subseteq recorded
    BY <1>2 DEF Segment, ConnInit
  <1>4. \A m \in Migrators : migrator[m].pc = "idle"
    BY DEF ConnInit
  <1>5. recorded = {} /\ \A v \in 1..MaxVersion : effects[v] = 0
    BY DEF ConnInit
  <1> QED
    BY <1>1, <1>3, <1>4, <1>5 DEF MigInv

\* A step that leaves what is recorded and done alone, and changes one
\* migrator to one that is not about to commit.
LEMMA MigIdleStep ==
  ASSUME MigInv, NEW m \in Migrators, NEW r \in MigRecord,
         migrator' = [migrator EXCEPT ![m] = r], r.pc # "committing",
         ~OnlyConnection => Segment(r.seen) /\ r.seen \subseteq recorded,
         UNCHANGED <<dialect, recorded, effects>>
  PROVE  MigInv'
  <1>1. /\ migrator'[m] = r
        /\ \A n \in Migrators : n # m => migrator'[n] = migrator[n]
    BY DEF MigInv, MigTypeOK
  <1>2. MigTypeOK'
    BY DEF MigInv, MigTypeOK
  <1>3. ~OnlyConnection' =>
         /\ Segment(recorded')
         /\ \A n \in Migrators : Segment(migrator'[n].seen) /\ migrator'[n].seen \subseteq recorded'
    BY <1>1 DEF MigInv, OnlyConnection
  <1>4. \A n \in Migrators : migrator'[n].pc = "committing" => n # m /\ NextVersion(n)' = NextVersion(n)
    BY <1>1, NextVersionSame
  <1> QED
    BY <1>1, <1>2, <1>3, <1>4 DEF MigInv, DdlCommits, OnlyConnection, Segment

LEMMA MigrateInv == ASSUME MigInv, NEW m \in Migrators, migrate(m) PROVE MigInv'
  <1> DEFINE seen == IF OnlyConnection THEN recorded \cup Uncommitted ELSE recorded
             r == [pc |-> "applying", runs |-> migrator[m].runs + 1, seen |-> seen]
  <1>1. migrator[m] \in MigRecord /\ recorded \in SUBSET (1..MaxVersion)
    BY DEF MigInv, MigTypeOK
  <1>2. seen \in SUBSET (1..MaxVersion) /\ (~OnlyConnection => seen = recorded)
    BY <1>1 DEF Uncommitted
  <1>3. migrator' = [migrator EXCEPT ![m] = r]
    BY DEF migrate
  <1> HIDE DEF seen
  <1>4. r \in MigRecord /\ r.pc # "committing" /\ r.seen = seen
    BY <1>1, <1>2 DEF MigRecord
  <1> HIDE DEF r
  <1>5. ~OnlyConnection => Segment(r.seen) /\ r.seen \subseteq recorded
    BY <1>2, <1>4 DEF MigInv
  <1> QED
    BY <1>3, <1>4, <1>5, MigIdleStep DEF migrate

\* A run ends, at the last version or with an error that leaves nothing behind.
LEMMA EndedInv ==
  ASSUME MigInv, NEW m \in Migrators, migrator' = [migrator EXCEPT ![m].pc = "idle"],
         UNCHANGED <<dialect, recorded, effects>>
  PROVE  MigInv'
  <1> DEFINE r == [migrator[m] EXCEPT !.pc = "idle"]
  <1>1. migrator[m] \in MigRecord
    BY DEF MigInv, MigTypeOK
  <1>2. r \in MigRecord /\ r.pc # "committing" /\ r.seen = migrator[m].seen
    BY <1>1 DEF MigRecord
  <1>3. migrator' = [migrator EXCEPT ![m] = r]
    OBVIOUS
  <1> HIDE DEF r
  <1>4. ~OnlyConnection => Segment(r.seen) /\ r.seen \subseteq recorded
    BY <1>2 DEF MigInv
  <1> QED
    BY <1>2, <1>3, <1>4, MigIdleStep

\* Without DDL that commits, a version is applied only by a migrator that is
\* alone in committing.
LEMMA ApplyOpenInv ==
  ASSUME MigInv, NEW m \in Migrators, NEW works \in BOOLEAN, apply_pending(m, works), ~DdlCommits
  PROVE  MigInv'
  <1> DEFINE v == NextVersion(m)
             ok == works /\ v \notin recorded /\ ~(OnlyConnection /\ Uncommitted # {})
             r == [migrator[m] EXCEPT !.pc = "committing"]
  <1>1. UNCHANGED <<dialect, recorded, effects>>
    BY DEF apply_pending
  <1>2. CASE ~ok
    BY <1>1, <1>2, EndedInv DEF apply_pending
  <1>3. CASE ok
    <2>1. migrator[m] \in MigRecord /\ MigTypeOK
      BY DEF MigInv, MigTypeOK
    <2>2. r \in MigRecord /\ r.pc = "committing" /\ r.seen = migrator[m].seen
      BY <2>1 DEF MigRecord
    <2>3. migrator' = [migrator EXCEPT ![m] = r]
      BY <1>3 DEF apply_pending
    <2> HIDE DEF r
    <2>4. /\ migrator'[m] = r
          /\ \A n \in Migrators : n # m => migrator'[n] = migrator[n]
      BY <2>1, <2>3 DEF MigTypeOK
    <2>5. \A n \in Migrators : NextVersion(n)' = NextVersion(n) /\ migrator'[n].seen = migrator[n].seen
      BY <2>2, <2>4, NextVersionSame
    <2>6. MigTypeOK'
      BY <1>1, <2>1, <2>2, <2>3 DEF MigTypeOK
    <2>7. v \in 1..MaxVersion /\ v \notin recorded
      BY <1>3, <2>1, NextVersionType, BoundAssumption DEF apply_pending
    <2>8. ASSUME NEW n \in Migrators, migrator[n].pc = "committing" PROVE FALSE
      <3>1. NextVersion(n) \in Uncommitted /\ NextVersion(n) \notin recorded
        BY <2>8 DEF MigInv, Uncommitted
      <3>2. ~OnlyConnection
        BY <1>3, <3>1
      <3>3. v \notin Uncommitted
        BY <3>2 DEF apply_pending
      <3>4. PICK k \in Nat : recorded = 1..k
        BY <3>2 DEF MigInv, Segment
      <3>5. PICK i \in Nat : migrator[m].seen = 1..i
        BY <3>2 DEF MigInv, Segment
      <3>6. PICK j \in Nat : migrator[n].seen = 1..j
        BY <3>2 DEF MigInv, Segment
      <3>7. v = i + 1 /\ NextVersion(n) = j + 1
        BY <2>1, <3>5, <3>6, NextOfSegment
      <3>8. 1..i \subseteq 1..k /\ 1..j \subseteq 1..k
        BY <3>2, <3>4, <3>5, <3>6 DEF MigInv
      <3>9. \A a \in Nat : 1..a \subseteq 1..k /\ a + 1 \notin 1..k => a = k
        OBVIOUS
      <3>10. i = k /\ j = k
        BY <2>7, <3>1, <3>4, <3>7, <3>8, <3>9
      <3> QED
        BY <3>1, <3>3, <3>7, <3>10
    <2>9. \A n \in Migrators : migrator'[n].pc = "committing" => n = m
      BY <2>4, <2>8
    <2> QED
      BY <1>1, <2>5, <2>6, <2>7, <2>9 DEF MigInv, DdlCommits, OnlyConnection, Segment
  <1> QED
    BY <1>2, <1>3

LEMMA SegmentGrows ==
  ASSUME NEW k \in Nat PROVE Segment((1..k) \cup {k + 1})
  <1>1. (1..k) \cup {k + 1} = 1..(k + 1) /\ k + 1 \in Nat
    OBVIOUS
  <1> QED
    BY <1>1 DEF Segment

\* Where DDL commits, the record is kept as soon as it is inserted.
LEMMA ApplyDdlInv ==
  ASSUME MigInv, NEW m \in Migrators, NEW works \in BOOLEAN, apply_pending(m, works), DdlCommits
  PROVE  MigInv'
  <1> DEFINE v == NextVersion(m)
             ok == works /\ v \notin recorded
             pc == IF ok THEN "committing" ELSE "idle"
             r == [migrator[m] EXCEPT !.pc = pc]
  <1>1. ~OnlyConnection /\ UNCHANGED dialect /\ DdlCommits' /\ ~OnlyConnection'
    BY DEF apply_pending, DdlCommits, OnlyConnection
  <1>2. migrator[m] \in MigRecord /\ MigTypeOK
    BY DEF MigInv, MigTypeOK
  <1>3. v \in 1..MaxVersion
    BY <1>2, NextVersionType, BoundAssumption DEF apply_pending
  <1>4. /\ migrator' = [migrator EXCEPT ![m] = r]
        /\ recorded' = IF ok THEN recorded \cup {v} ELSE recorded
        /\ effects' = [effects EXCEPT ![v] = @ + 1]
    BY <1>1 DEF apply_pending
  <1>5. pc \in {"committing", "idle"} /\ (pc = "committing" <=> ok)
    OBVIOUS
  <1> HIDE DEF pc
  <1>6. r \in MigRecord /\ r.pc = pc /\ r.seen = migrator[m].seen
    BY <1>2, <1>5 DEF MigRecord
  <1> HIDE DEF r
  <1>7. /\ migrator'[m] = r
        /\ \A n \in Migrators : n # m => migrator'[n] = migrator[n]
    BY <1>2, <1>4 DEF MigTypeOK
  <1>8. \A n \in Migrators : NextVersion(n)' = NextVersion(n) /\ migrator'[n].seen = migrator[n].seen
    BY <1>6, <1>7, NextVersionSame
  <1>9. MigTypeOK'
    <2>1. migrator' \in [Migrators -> MigRecord]
      BY <1>2, <1>4, <1>6 DEF MigTypeOK
    <2>2. recorded' \in SUBSET (1..MaxVersion)
      BY <1>2, <1>3, <1>4 DEF MigTypeOK
    <2>3. effects[v] + 1 \in Nat /\ effects \in [1..MaxVersion -> Nat]
      BY <1>2, <1>3 DEF MigTypeOK
    <2>4. effects' \in [1..MaxVersion -> Nat]
      BY <1>4, <2>3
    <2> QED
      BY <2>1, <2>2, <2>4 DEF MigTypeOK
  <1>10. recorded \subseteq recorded'
    BY <1>4
  <1>11. Segment(recorded')
    <2>1. PICK k \in Nat : recorded = 1..k
      BY <1>1 DEF MigInv, Segment
    <2>2. PICK i \in Nat : migrator[m].seen = 1..i
      BY <1>1 DEF MigInv, Segment
    <2>3. v = i + 1 /\ 1..i \subseteq 1..k
      BY <1>1, <1>2, <2>1, <2>2, NextOfSegment DEF MigInv
    <2>4. i + 1 \notin 1..k => i = k
      BY <2>3
    <2>5. CASE ok
      BY <1>4, <2>1, <2>3, <2>4, <2>5, SegmentGrows
    <2>6. CASE ~ok
      BY <1>4, <2>1, <2>6 DEF Segment
    <2> QED
      BY <2>5, <2>6
  <1>12. \A n \in Migrators : Segment(migrator'[n].seen) /\ migrator'[n].seen \subseteq recorded'
    BY <1>1, <1>8, <1>10 DEF MigInv
  <1>13. ASSUME NEW n \in Migrators, migrator'[n].pc = "committing"
         PROVE  NextVersion(n) \in 1..MaxVersion /\ NextVersion(n) \in recorded'
    <2>1. CASE n = m
      BY <1>3, <1>4, <1>5, <1>6, <1>7, <1>13, <2>1
    <2>2. CASE n # m
      BY <1>7, <1>10, <1>13, <2>2 DEF MigInv
    <2> QED
      BY <2>1, <2>2
  <1>14. ASSUME NEW w \in recorded' PROVE effects'[w] > 0
    <2>1. w \in 1..MaxVersion /\ effects \in [1..MaxVersion -> Nat]
      BY <1>2, <1>9 DEF MigTypeOK
    <2>2. CASE w = v
      BY <1>4, <2>1, <2>2
    <2>3. CASE w # v
      BY <1>4, <2>1, <2>3 DEF MigInv
    <2> QED
      BY <2>2, <2>3
  <1> QED
    BY <1>1, <1>8, <1>9, <1>11, <1>12, <1>13, <1>14 DEF MigInv

\* A commit of what DDL has already committed only moves the migrator on, or ends
\* its run.
LEMMA CommitDdlInv ==
  ASSUME MigInv, NEW m \in Migrators, NEW heard \in BOOLEAN, commit_pending(m, TRUE, heard), DdlCommits
  PROVE  MigInv'
  <1> DEFINE v == NextVersion(m)
             r == [migrator[m] EXCEPT !.pc = "applying", !.seen = @ \cup {v}]
  <1>1. ~OnlyConnection
    BY DEF DdlCommits, OnlyConnection
  <1>2. migrator[m] \in MigRecord /\ MigTypeOK
    BY DEF MigInv, MigTypeOK
  <1>3. v \in 1..MaxVersion /\ v \in recorded
    BY DEF MigInv, commit_pending
  <1>4. UNCHANGED <<dialect, recorded, effects>>
    BY <1>3 DEF commit_pending
  <1>5. CASE ~heard
    BY <1>4, <1>5, EndedInv DEF commit_pending
  <1>6. CASE heard
    <2>1. migrator' = [migrator EXCEPT ![m] = r]
      BY <1>6 DEF commit_pending
    <2>2. r \in MigRecord /\ r.pc # "committing" /\ r.seen = migrator[m].seen \cup {v}
      BY <1>2, <1>3 DEF MigRecord
    <2> HIDE DEF r
    <2>3. PICK i \in Nat : migrator[m].seen = 1..i
      BY <1>1 DEF MigInv, Segment
    <2>4. v = i + 1
      BY <1>2, <2>3, NextOfSegment
    <2>5. Segment(r.seen) /\ r.seen \subseteq recorded
      BY <1>1, <1>3, <2>2, <2>3, <2>4, SegmentGrows DEF MigInv
    <2> QED
      BY <1>4, <2>1, <2>2, <2>5, MigIdleStep
  <1> QED
    BY <1>5, <1>6

\* A commit of an open transaction: its version is the first that is not
\* recorded, and nobody else is about to commit.
LEMMA CommitOpenInv ==
  ASSUME MigInv, NEW m \in Migrators, NEW heard \in BOOLEAN, commit_pending(m, TRUE, heard), ~DdlCommits
  PROVE  MigInv'
  <1> DEFINE v == NextVersion(m)
             r == IF heard THEN [migrator[m] EXCEPT !.pc = "applying", !.seen = @ \cup {v}]
                  ELSE [migrator[m] EXCEPT !.pc = "idle"]
  <1>1. UNCHANGED dialect /\ ~DdlCommits' /\ (OnlyConnection' <=> OnlyConnection)
    BY DEF commit_pending, DdlCommits, OnlyConnection
  <1>2. migrator[m] \in MigRecord /\ MigTypeOK
    BY DEF MigInv, MigTypeOK
  <1>3. v \in 1..MaxVersion /\ v \notin recorded
    BY DEF MigInv, commit_pending
  <1>4. /\ migrator' = [migrator EXCEPT ![m] = r]
        /\ recorded' = recorded \cup {v}
        /\ effects' = [effects EXCEPT ![v] = @ + 1]
    BY DEF commit_pending
  <1>5. /\ r \in MigRecord /\ r.pc # "committing"
        /\ r.seen = migrator[m].seen \cup {v} \/ r.seen = migrator[m].seen
    <2>1. CASE heard
      BY <1>2, <1>3, <2>1 DEF MigRecord
    <2>2. CASE ~heard
      BY <1>2, <2>2 DEF MigRecord
    <2> QED
      BY <2>1, <2>2
  <1> HIDE DEF r
  <1>6. /\ migrator'[m] = r
        /\ \A n \in Migrators : n # m => migrator'[n] = migrator[n]
    BY <1>2, <1>4 DEF MigTypeOK
  <1>7. MigTypeOK'
    <2>1. migrator' \in [Migrators -> MigRecord]
      BY <1>2, <1>4, <1>5 DEF MigTypeOK
    <2>2. recorded' \in SUBSET (1..MaxVersion)
      BY <1>2, <1>3, <1>4 DEF MigTypeOK
    <2>3. effects[v] + 1 \in Nat /\ effects \in [1..MaxVersion -> Nat]
      BY <1>2, <1>3 DEF MigTypeOK
    <2>4. effects' \in [1..MaxVersion -> Nat]
      BY <1>4, <2>3
    <2> QED
      BY <2>1, <2>2, <2>4 DEF MigTypeOK
  <1>8. \A n \in Migrators : migrator'[n].pc # "committing"
    BY <1>5, <1>6 DEF MigInv, commit_pending
  <1>9. ASSUME ~OnlyConnection
        PROVE  /\ Segment(recorded')
               /\ \A n \in Migrators : Segment(migrator'[n].seen) /\ migrator'[n].seen \subseteq recorded'
    <2>1. PICK k \in Nat : recorded = 1..k
      BY <1>9 DEF MigInv, Segment
    <2>2. PICK i \in Nat : migrator[m].seen = 1..i
      BY <1>9 DEF MigInv, Segment
    <2>3. v = i + 1 /\ 1..i \subseteq 1..k
      BY <1>9, <1>2, <2>1, <2>2, NextOfSegment DEF MigInv
    <2>4. i = k
      BY <1>3, <2>1, <2>3
    <2>5. Segment(recorded') /\ Segment(r.seen) /\ r.seen \subseteq recorded'
      BY <1>4, <1>5, <2>1, <2>2, <2>3, <2>4, SegmentGrows DEF Segment
    <2>6. ASSUME NEW n \in Migrators, n # m
          PROVE  Segment(migrator'[n].seen) /\ migrator'[n].seen \subseteq recorded'
      BY <1>4, <1>6, <1>9, <2>6 DEF MigInv
    <2> QED
      BY <1>6, <2>5, <2>6
  <1>10. ASSUME NEW w \in 1..MaxVersion PROVE effects'[w] = IF w \in recorded' THEN 1 ELSE 0
    <2>1. effects \in [1..MaxVersion -> Nat] /\ effects[w] = IF w \in recorded THEN 1 ELSE 0
      BY <1>2 DEF MigInv, MigTypeOK
    <2>2. CASE w = v
      BY <1>3, <1>4, <2>1, <2>2
    <2>3. CASE w # v
      BY <1>4, <2>1, <2>3
    <2> QED
      BY <2>2, <2>3
  <1>11. \A w \in recorded' : effects'[w] > 0
    BY <1>7, <1>10 DEF MigTypeOK
  <1> QED
    BY <1>1, <1>7, <1>8, <1>9, <1>10, <1>11 DEF MigInv

\* The transactions leave the migrators alone.
LEMMA MigSameInv == MigInv /\ UNCHANGED <<dialect, migVars>> => MigInv'
  BY DEF MigInv, MigTypeOK, migVars, NextVersion, DdlCommits, OnlyConnection, Segment

LEMMA MigNextInv == MigInv /\ [ConnNext]_connVars => MigInv'
  <1> SUFFICES ASSUME MigInv, [ConnNext]_connVars PROVE MigInv'
    OBVIOUS
  <1>1. ASSUME NEW t \in Txs, NEW tag \in Tags, NEW ok \in BOOLEAN, NEW heard \in BOOLEAN,
               execute(t, tag, ok, heard)
        PROVE  UNCHANGED <<dialect, migVars>>
    BY <1>1 DEF execute
  <1>2. ASSUME NEW t \in Txs, NEW ok \in BOOLEAN, NEW heard \in BOOLEAN,
               \/ begin(t) \/ execute_finished(t) \/ take(t) \/ rollback(t) \/ cancel(t) \/ drop_last(t)
               \/ returns(t, ok) \/ commit(t, ok, heard)
        PROVE  UNCHANGED <<dialect, migVars>>
    BY <1>2 DEF begin, execute_finished, take, rollback, cancel, drop_last, returns, commit
  <1>3. ASSUME NEW tag \in Tags, NEW heard \in BOOLEAN, execute_pool(tag, heard)
        PROVE  UNCHANGED <<dialect, migVars>>
    BY <1>3 DEF execute_pool
  <1>4. ASSUME NEW m \in Migrators, migrate(m) PROVE MigInv'
    BY <1>4, MigrateInv
  <1>5. ASSUME NEW m \in Migrators, migrated(m) PROVE MigInv'
    BY <1>5, EndedInv DEF migrated
  <1>6. ASSUME NEW m \in Migrators, NEW ok \in BOOLEAN, apply_pending(m, ok) PROVE MigInv'
    BY <1>6, ApplyOpenInv, ApplyDdlInv
  <1>7. ASSUME NEW m \in Migrators, NEW heard \in BOOLEAN, commit_pending(m, FALSE, heard) PROVE MigInv'
    BY <1>7, EndedInv DEF commit_pending
  <1>8. ASSUME NEW m \in Migrators, NEW heard \in BOOLEAN, commit_pending(m, TRUE, heard) PROVE MigInv'
    BY <1>8, CommitOpenInv, CommitDdlInv
  <1>9. CASE UNCHANGED connVars
    BY <1>9, MigSameInv DEF connVars
  <1> QED
    BY <1>1, <1>2, <1>3, <1>4, <1>5, <1>6, <1>7, <1>8, <1>9, MigSameInv DEF ConnNext

-----------------------------------------------------------------------------
LEMMA InvIsHonest == ConnInv => Honest
  <1> SUFFICES ASSUME ConnInv PROVE Honest
    OBVIOUS
  <1>1. AcksAreHonest
    <2>1. ASSUME NEW t \in Txs
          PROVE  /\ txn[t].result = "ok" /\ ~txn[t].failed => txn[t].told \subseteq committed
                 /\ ~txn[t].asked => txn[t].work \cap committed = {}
                 /\ txn[t].work \subseteq committed \/ txn[t].work \cap committed = {}
      BY DEF ConnInv, TxInv, Held
    <2> QED
      BY <2>1 DEF AcksAreHonest, ConnInv, TxInv
  <1>2. ~OnlyConnection => recorded = 1..Cardinality(recorded)
    <2>1. SUFFICES ASSUME ~OnlyConnection PROVE recorded = 1..Cardinality(recorded)
      OBVIOUS
    <2>2. PICK k \in Nat : recorded = 1..k
      BY <2>1 DEF ConnInv, MigInv, Segment
    <2>3. Cardinality(1..k) = k
      BY FS_Interval
    <2> QED
      BY <2>2, <2>3
  <1> QED
    BY <1>1, <1>2 DEF Honest, MigratedOnce, ConnInv, MigInv

\* What the ORM's connections acknowledge is so (Honest), for any number of
\* transactions, statements, migrators and versions: a transaction that returned
\* Ok is committed; one whose closure failed, or that was dropped before COMMIT was
\* asked for, left nothing; one whose COMMIT was dropped on its way, failed or lost
\* its answer is committed as a whole or not at all; and migrators that race, fail,
\* lose answers and are run again record and apply each version once, in order
\* (Db::transaction, SharedTx, the drivers' begin and commit, Db::migrate).
THEOREM AlwaysHonest == ConnSpec => []Honest
  <1>1. ConnInit => ConnInv
    BY TxInitInv, MigInitInv DEF ConnInv
  <1>2. ConnInv /\ [ConnNext]_connVars => ConnInv'
    BY TxNextInv, MigNextInv DEF ConnInv
  <1>3. ConnInv => Honest
    BY InvIsHonest
  <1> QED
    BY <1>1, <1>2, <1>3, PTL DEF ConnSpec
=============================================================================

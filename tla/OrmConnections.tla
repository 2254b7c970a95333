--------------------------- MODULE OrmConnections ---------------------------
(***************************************************************************)
(* The ORM's connections: the closure transaction of db.rs over the shared *)
(* connection cell of exec.rs, the pool's statements beside it, and the    *)
(* in-process migrator.  Init picks a dialect and a workload; Orm adds     *)
(* those of the builders to the two here.                                  *)
(***************************************************************************)
EXTENDS Integers, FiniteSets

CONSTANTS
    Jobs,           \* the workloads; job.what tells which
    Txs, Tags,      \* transactions, and the writes that identify statements
    Migrators, MaxVersion, MaxRuns,    \* bounds of the migrator's workload
    NoTx

ASSUME BoundAssumption == MaxVersion \in Nat /\ MaxRuns \in Nat
ASSUME ResultAssumption == NoTx \notin {"ok", "err", "cancelled"}

VARIABLES
    dialect, job,
    txn,            \* the transactions: where each is, what was written in it and
                    \* acknowledged, whether COMMIT was asked for, the caller's result
    committed,      \* writes the database keeps
    acked,          \* writes a pool builder was told have happened
    used,           \* writes issued
    migrator, recorded, effects

txVars == <<txn, committed, acked, used>>
migVars == <<migrator, recorded, effects>>
connVars == <<dialect, job, txVars, migVars>>

Dialects == {"postgres", "mysql", "sqlite", "turso"}
FreshTx == [state |-> "idle", work |-> {}, told |-> {}, failed |-> FALSE,
            asked |-> FALSE, result |-> NoTx, stray |-> FALSE]
Workload(w) == job.what = w

ConnInit ==
    /\ dialect \in Dialects /\ job \in Jobs
    /\ txn = [t \in Txs |-> FreshTx] /\ committed = {} /\ acked = {} /\ used = {}
    /\ migrator = [m \in Migrators |-> [pc |-> "idle", seen |-> {}, runs |-> 0]]
    /\ recorded = {} /\ effects = [v \in 1..MaxVersion |-> 0]

-----------------------------------------------------------------------------
(* Transactions.  The cell holds the connection from begin until the       *)
(* closure's result is acted on; clones of the handle may outlive it.  At  *)
(* the database the transaction is open until COMMIT or ROLLBACK is done.  *)

Full(t) == txn[t].state \in {"open", "returned ok", "returned err", "abandoned"}
Live(t) == Full(t) \/ txn[t].state \in {"committing", "rolling back"}
OnlyConnection == dialect = "turso"      \* pool and transactions share one

begin(t) ==
    /\ Workload("tx") /\ txn[t].state = "idle"
    /\ IF OnlyConnection /\ \E u \in Txs : Live(u)
       THEN txn' = [txn EXCEPT ![t].state = "done", ![t].result = "err"]
       ELSE txn' = [txn EXCEPT ![t].state = "open"]
    /\ UNCHANGED <<dialect, job, committed, acked, used, migVars>>

(* A statement of a builder of t, run while the cell is full; its future   *)
(* may be dropped before the answer is heard.  A failed statement dooms a  *)
(* Postgres transaction, whatever the closure makes of the error.          *)
execute(t, tag, ok, heard) ==
    /\ Workload("tx") /\ Full(t) /\ tag \in Tags \ used
    /\ used' = used \cup {tag}
    /\ IF ok /\ ~txn[t].failed
       THEN txn' = [txn EXCEPT ![t].work = @ \cup {tag},
                               ![t].told = IF heard THEN @ \cup {tag} ELSE @]
       ELSE txn' = [txn EXCEPT ![t].failed = @ \/ dialect = "postgres"]
    /\ UNCHANGED <<dialect, job, committed, acked, migVars>>

(* The same after the connection was taken: "transaction already finished".*)
execute_finished(t) ==
    /\ Workload("tx") /\ txn[t].state \in {"committing", "rolling back", "done"} /\ ~txn[t].stray
    /\ txn' = [txn EXCEPT ![t].stray = TRUE]
    /\ UNCHANGED <<dialect, job, committed, acked, used, migVars>>

execute_pool(tag, heard) ==
    /\ Workload("tx") /\ tag \in Tags \ used
    /\ used' = used \cup {tag} /\ acked' = IF heard THEN acked \cup {tag} ELSE acked
    /\ IF OnlyConnection /\ \E u \in Txs : Live(u)
       THEN /\ txn' = [u \in Txs |-> IF Live(u) THEN [txn[u] EXCEPT !.work = @ \cup {tag}] ELSE txn[u]]
            /\ UNCHANGED committed
       ELSE committed' = committed \cup {tag} /\ UNCHANGED txn
    /\ UNCHANGED <<dialect, job, migVars>>

returns(t, ok) ==
    /\ Workload("tx") /\ txn[t].state = "open"
    /\ txn' = [txn EXCEPT ![t].state = IF ok THEN "returned ok" ELSE "returned err"]
    /\ UNCHANGED <<dialect, job, committed, acked, used, migVars>>

(* The connection is taken out of the cell, and COMMIT or, when the        *)
(* closure failed, ROLLBACK is on its way.                                 *)
TakesToCommit(t) ==                           \* mutant: the closure's error is ignored
    /\ Workload("tx") /\ txn[t].state \in {"returned ok", "returned err"}
    /\ txn' = [txn EXCEPT ![t].state = "committing", ![t].asked = txn[t].state = "returned ok"]
    /\ UNCHANGED <<dialect, job, committed, acked, used, migVars>>
take(t) ==
    /\ Workload("tx") /\ txn[t].state \in {"returned ok", "returned err"}
    /\ LET ok == txn[t].state = "returned ok"
       IN  txn' = [txn EXCEPT ![t].state = IF ok THEN "committing" ELSE "rolling back", ![t].asked = ok]
    /\ UNCHANGED <<dialect, job, committed, acked, used, migVars>>

(* The database decides, and the caller, unless it has dropped the future, *)
(* hears Ok or an error; the answer to a COMMIT that was done may be lost  *)
(* with the connection.  COMMIT of a doomed Postgres transaction succeeds  *)
(* and keeps nothing.                                                      *)
commit(t, kept, heard) ==
    /\ Workload("tx") /\ txn[t].state = "committing"
    /\ txn' = [txn EXCEPT ![t].state = "done",
                          ![t].result = IF @ # NoTx THEN @ ELSE IF kept /\ heard THEN "ok" ELSE "err"]
    /\ committed' = IF kept /\ ~txn[t].failed THEN committed \cup txn[t].work ELSE committed
    /\ UNCHANGED <<dialect, job, acked, used, migVars>>

rollback(t) ==
    /\ Workload("tx") /\ txn[t].state = "rolling back"
    /\ txn' = [txn EXCEPT ![t].state = "done", ![t].result = IF @ # NoTx THEN @ ELSE "err"]
    /\ UNCHANGED <<dialect, job, committed, acked, used, migVars>>

(* The caller drops the future.  While the cell is full the transaction    *)
(* lives until the last builder of it goes, and is then rolled back by the *)
(* driver; a COMMIT or ROLLBACK on its way is decided by the database.     *)
cancel(t) ==
    /\ Workload("tx") /\ txn[t].state \notin {"idle", "done"} /\ txn[t].result = NoTx
    /\ txn' = [txn EXCEPT ![t].state = IF Full(t) THEN "abandoned" ELSE @, ![t].result = "cancelled"]
    /\ UNCHANGED <<dialect, job, committed, acked, used, migVars>>
drop_last(t) ==
    /\ Workload("tx") /\ txn[t].state = "abandoned"
    /\ txn' = [txn EXCEPT ![t].state = "done"]
    /\ UNCHANGED <<dialect, job, committed, acked, used, migVars>>

-----------------------------------------------------------------------------
(* Db::migrate: the applied versions are read once, then each pending      *)
(* version runs in a transaction with its record, whose primary key        *)
(* refuses a second one.  MySQL commits a migration's DDL at once, and     *)
(* with it whatever follows in the same transaction.                       *)

DdlCommits == dialect = "mysql"
NextVersion(m) ==
    CHOOSE v \in 1..(MaxVersion + 1) \ migrator[m].seen :
        \A w \in 1..(MaxVersion + 1) \ migrator[m].seen : v <= w

(* Records inserted by transactions that are still open.                   *)
Uncommitted ==
    {v \in 1..MaxVersion : ~DdlCommits /\ \E m \in Migrators : migrator[m].pc = "committing" /\ NextVersion(m) = v}

(* A reader on Turso's one connection is inside whatever transaction is    *)
(* open on it, and reads what that has not committed.                      *)
migrate(m) ==
    /\ Workload("migrate") /\ migrator[m].pc = "idle" /\ migrator[m].runs < MaxRuns
    /\ migrator' = [migrator EXCEPT ![m] =
                      [pc |-> "applying", runs |-> @.runs + 1,
                       seen |-> IF OnlyConnection THEN recorded \cup Uncommitted ELSE recorded]]
    /\ UNCHANGED <<dialect, job, txVars, recorded, effects>>

(* The migration's statements and its record, up to the commit.  An insert *)
(* of a key that another transaction has inserted waits for its outcome;   *)
(* on Turso a second transaction is refused.                               *)
apply_pending(m, works) ==
    LET v == NextVersion(m)
        ok == works /\ v \notin recorded /\ ~(OnlyConnection /\ Uncommitted # {})
    IN  /\ Workload("migrate") /\ migrator[m].pc = "applying" /\ v <= MaxVersion
        /\ OnlyConnection \/ v \notin Uncommitted
        /\ migrator' = [migrator EXCEPT ![m].pc = IF ok THEN "committing" ELSE "idle"]
        /\ recorded' = IF ok /\ DdlCommits THEN recorded \cup {v} ELSE recorded
        /\ effects' = IF DdlCommits THEN [effects EXCEPT ![v] = @ + 1] ELSE effects
        /\ UNCHANGED <<dialect, job, txVars>>

(* The commit.  When it fails, or the caller drops the future before it,   *)
(* the transaction is rolled back; when its answer is lost, or the future  *)
(* dropped while it is on its way, the version may be kept without the     *)
(* caller hearing of it.  Either way the run is over, and whoever tries    *)
(* again while the database has not decided is another migrator.           *)
commit_pending(m, kept, heard) ==
    LET v == NextVersion(m)
    IN  /\ Workload("migrate") /\ migrator[m].pc = "committing"
        /\ migrator' = IF kept /\ heard THEN [migrator EXCEPT ![m].pc = "applying", ![m].seen = @ \cup {v}]
                       ELSE [migrator EXCEPT ![m].pc = "idle"]
        /\ recorded' = IF kept THEN recorded \cup {v} ELSE recorded
        /\ effects' = IF kept /\ ~DdlCommits THEN [effects EXCEPT ![v] = @ + 1] ELSE effects
        /\ UNCHANGED <<dialect, job, txVars>>

migrated(m) ==
    /\ Workload("migrate") /\ migrator[m].pc = "applying" /\ NextVersion(m) > MaxVersion
    /\ migrator' = [migrator EXCEPT ![m].pc = "idle"]
    /\ UNCHANGED <<dialect, job, txVars, recorded, effects>>

ConnNext ==
    \/ \E t \in Txs :
         \/ begin(t) \/ execute_finished(t) \/ take(t) \/ rollback(t) \/ cancel(t) \/ drop_last(t)
         \/ \E ok \in BOOLEAN : returns(t, ok)
         \/ \E kept, heard \in BOOLEAN : commit(t, kept, heard)
         \/ \E tag \in Tags, ok, heard \in BOOLEAN : execute(t, tag, ok, heard)
    \/ \E tag \in Tags, heard \in BOOLEAN : execute_pool(tag, heard)
    \/ \E m \in Migrators :
         \/ migrate(m) \/ migrated(m)
         \/ \E ok \in BOOLEAN : apply_pending(m, ok)
         \/ \E kept, heard \in BOOLEAN : commit_pending(m, kept, heard)

ConnSpec == ConnInit /\ [][ConnNext]_connVars

-----------------------------------------------------------------------------
(* Migrators that race, fail and are run again apply every version once    *)
(* and in order.  Without transactional DDL (MySQL) a losing or failing    *)
(* one leaves its effects behind; on Turso's one connection a migrator may *)
(* take for applied what another one has not committed yet, and when that  *)
(* is rolled back go on with the next version (Db::migrate).               *)
MigratedOnce ==
    /\ ~OnlyConnection => recorded = 1..Cardinality(recorded)
    /\ ~DdlCommits => \A v \in 1..MaxVersion : effects[v] = (IF v \in recorded THEN 1 ELSE 0)
    /\ \A v \in recorded : effects[v] > 0

(* A transaction that returns Ok has kept every statement it acknowledged; *)
(* one whose closure failed, or whose future was dropped before COMMIT was *)
(* asked for, keeps nothing; one whose COMMIT fails, is dropped on its way *)
(* or loses its answer leaves the caller with an error, or without a word, *)
(* and has kept either all of its work or none.  A pool statement          *)
(* acknowledged beside it stays.  The exceptions: a closure that goes on   *)
(* after a failed statement on Postgres, and pool statements on Turso,     *)
(* which run inside whatever transaction is open (transaction, SharedTx,   *)
(* TursoDriver).                                                           *)
AcksAreHonest ==
    /\ \A t \in Txs :
         /\ txn[t].result = "ok" /\ ~txn[t].failed => txn[t].told \subseteq committed
         /\ ~txn[t].asked => txn[t].work \cap committed = {}
         /\ txn[t].work \subseteq committed \/ txn[t].work \cap committed = {}
    /\ ~OnlyConnection => acked \subseteq committed

(* What the database has acknowledged, to a transaction or to a migrator,  *)
(* is so.                                                                  *)
Honest == AcksAreHonest /\ MigratedOnce
=============================================================================

-------------------------------- MODULE Orm --------------------------------
(***************************************************************************)
(* The ORM at work: a builder rendered, bound, sent and decoded, beside    *)
(* the workloads of OrmConnections.  Init picks a dialect and a workload;  *)
(* a builder's workload is one statement against a table whose contents    *)
(* Init picks too.                                                         *)
(***************************************************************************)
EXTENDS OrmSql, OrmValues, OrmConnections

CONSTANTS
    Schema,         \* column -> [unique, nullable, defaulted, default]
    Tables,         \* contents of the table to start from
    Pending

VARIABLES
    rows,           \* the table
    outcome         \* what the builder's caller got

stmtVars == <<rows, outcome>>
vars == <<stmtVars, connVars>>

Init ==
    /\ ConnInit
    /\ rows \in (IF job.what \in {"insert", "update", "delete", "select"} THEN Tables ELSE {{}})
    /\ outcome = Pending

-----------------------------------------------------------------------------
(* Statements.                                                             *)

Refused(error) == [sent |-> FALSE, constructs |-> {}, ok |-> FALSE, answer |-> error]

(* finish refuses a marked writer, the driver a value it cannot bind; what *)
(* is left is sent, and fails when the database does not know a construct. *)
finish(text, effect) ==
    CASE text.unsupported -> outcome' = Refused("Unsupported") /\ UNCHANGED rows
      [] ~text.unsupported /\ dialect = "mysql" /\ text.binds # {} ->
           outcome' = Refused("Encode") /\ UNCHANGED rows
      [] OTHER ->
           LET result == IF Accepts(dialect, text.constructs) THEN effect
                         ELSE [ok |-> FALSE, answer |-> "Database", rows |-> rows]
           IN  /\ outcome' = [sent |-> TRUE, constructs |-> text.constructs,
                              ok |-> result.ok, answer |-> result.answer]
               /\ rows' = result.rows

Changed(new) ==
    IF new = Err THEN [ok |-> FALSE, answer |-> "Constraint", rows |-> rows]
    ELSE [ok |-> TRUE, answer |-> "Done", rows |-> new]

(* The rows that come back are decoded once the statement has run: a row   *)
(* the caller's type does not take is an error after the insert is kept,   *)
(* and one() without a row is NotFound.                                    *)
returned_rows(st) ==
    IF st = Err THEN Changed(Err)
    ELSE IF st.touched # {} /\ job.returning # "" /\ ~job.decodes
    THEN [ok |-> FALSE, answer |-> "Decode", rows |-> st.rows]
    ELSE IF st.touched = {} /\ job.returning = "one"
    THEN [ok |-> FALSE, answer |-> "NotFound", rows |-> st.rows]
    ELSE Changed(st.rows)

exec_insert ==
    /\ Workload("insert") /\ outcome = Pending
    /\ CASE job.rows = <<>> ->
              /\ outcome' = IF job.returning = "one" THEN Refused("NotFound")
                            ELSE [Refused("Done") EXCEPT !.ok = TRUE]
              /\ UNCHANGED rows
         [] job.rows # <<>> /\ job.returning # "" /\ ~supports_returning(dialect) ->
              outcome' = Refused("Unsupported") /\ UNCHANGED rows
         [] OTHER -> finish(InsertText(dialect, Schema, job),
                            returned_rows(InsertInto(dialect, Schema, rows, job)))
    /\ UNCHANGED connVars

exec_update ==
    /\ Workload("update") /\ outcome = Pending
    /\ IF DOMAIN job.sets = {} THEN outcome' = Refused("NotFound") /\ UNCHANGED rows
       ELSE finish(UpdateText(dialect, job), Changed(UpdateSet(Schema, rows, job)))
    /\ UNCHANGED connVars

exec_delete ==
    /\ Workload("delete") /\ outcome = Pending
    /\ finish(DeleteText(dialect, job), Changed(DeleteFrom(rows, job)))
    /\ UNCHANGED connVars

exec_select ==
    /\ Workload("select") /\ outcome = Pending
    /\ finish(SelectText(dialect, AsSent(job)),
              [ok |-> TRUE, answer |-> Answer(rows, job), rows |-> rows])
    /\ UNCHANGED connVars

(* A value inserted and selected again, a joined row decoded, children     *)
(* grouped by their parents.                                               *)
round_trip ==
    /\ Workload("value") /\ outcome = Pending
    /\ LET kept == Stored(dialect, job.ty, job.x)
       IN  outcome' = [written |-> kept # Failed,
                       read |-> IF kept = Failed THEN Failed
                                ELSE Fetched(dialect, job.ty, kept, job.x)]
    /\ UNCHANGED <<rows, connVars>>

decode_join ==
    /\ Workload("join") /\ outcome = Pending
    /\ outcome' = [i \in DOMAIN job.joined |-> decode(job.parts, FlattenSeq(job.joined[i]))]
    /\ UNCHANGED <<rows, connVars>>

load_relation ==
    /\ Workload("load") /\ outcome = Pending
    /\ outcome' = [many |-> load_has_many(job.keys, job.children),
                   one |-> load_belongs_to(job.keys, job.parents)]
    /\ UNCHANGED <<rows, connVars>>

Next ==
    \/ exec_insert \/ exec_update \/ exec_delete \/ exec_select
    \/ round_trip \/ decode_join \/ load_relation
    \/ ConnNext /\ UNCHANGED stmtVars

Spec == Init /\ [][Next]_vars

-----------------------------------------------------------------------------
Ran == outcome # Pending
Statement == job.what \in {"insert", "update", "delete", "select"}

RECURSIVE Uses(_, _)
Uses(p, op) ==
    \/ p.op = op
    \/ p.op \in {"and", "or"} /\ (Uses(p.left, op) \/ Uses(p.right, op))
    \/ p.op = "not" /\ Uses(p.inner, op)
FilterUses(op) ==
    job.what \in {"select", "update", "delete"} /\ \E i \in DOMAIN job.filter : Uses(job.filter[i], op)

(* Only SQL the backend knows is sent: every feature it lacks is refused   *)
(* first, by the writer or by the driver's binds.  The exceptions are full *)
(* text and contains() on MySQL, and an offset without a limit outside     *)
(* Postgres (finish in render.rs, and the write functions of expr.rs).     *)
DispatchedIsValid ==
    Statement /\ Ran /\ outcome.sent =>
        (Accepts(dialect, outcome.constructs) <=>
           ~ (\/ /\ dialect = "mysql"
                 /\ FilterUses("match") \/ FilterUses("like")
              \/ /\ job.what = "select" /\ dialect # "postgres"
                 /\ AsSent(job).offset # NULL /\ AsSent(job).limit = NULL))

(* What an insert promises, a row at a time and whatever the backend: a    *)
(* row that clashes with a stored one on the conflict target updates that  *)
(* row as asked and under the guard, or leaves it; any other row is added, *)
(* with the defaults of the columns it does not set.                       *)
Promised(old, ins) ==
    LET c == ins.conflict
        One(table, given) ==
            LET row == Completed(Schema, given)
                hit == IF c = NoConflict THEN {} ELSE {r \in table : \A k \in c.targets : row[k] # NULL /\ r[k] = row[k]}
                SetIn(r, col) ==
                    CASE c.action = "update all" ->
                           IF col \in DOMAIN given \ (c.targets \cup c.skip) THEN row[col] ELSE r[col]
                      [] c.action = "update columns" /\ (\E u \in c.updates : u.column = col) ->
                           SetTo(CHOOSE u \in c.updates : u.column = col, r, row)
                      [] OTHER -> r[col]
                Allowed(r) == \A i \in DOMAIN c.guard : Holds(c.guard[i], r, row) = TRUE
            IN  IF hit = {} THEN table \cup {row}
                ELSE {IF r \in hit /\ Allowed(r) THEN [col \in DOMAIN r |-> SetIn(r, col)] ELSE r : r \in table}
        after[i \in 0..Len(ins.rows)] == IF i = 0 THEN old ELSE One(after[i - 1], ins.rows[i])
    IN  after[Len(ins.rows)]

(* A batch in which some rows set a defaulted column and others leave it.  *)
MixedBatch(ins) ==
    \E i \in DOMAIN ins.rows : optional_included(Schema, ins.rows) \ DOMAIN ins.rows[i] # {}
(* A clash on a key that is not the conflict target.                       *)
OtherKey(old, ins) ==
    \E i \in DOMAIN ins.rows : \E k \in Keys(Schema) \ ins.conflict.targets :
        \E r \in old \cup {Completed(Schema, ins.rows[j]) : j \in DOMAIN ins.rows \ {i}} :
            r[k] = ins.rows[i][k] /\ r[k] # NULL

(* A write that succeeds leaves the table as promised, guards, except      *)
(* lists and per-row defaults included, and so does an insert whose        *)
(* returned rows cannot be decoded; one that fails otherwise, or whose     *)
(* one() finds no row, leaves the table as it was.  A mixed batch binds    *)
(* NULL for the omitted default, and MySQL takes a clash on any key for    *)
(* the target's (render, write_conflict and returned_rows).                *)
WritesAsPromised ==
    [][ LET kept == outcome'.ok \/ outcome'.answer = "Decode"
        IN  /\ job.what = "insert" /\ kept
               /\ ~MixedBatch(job)
               /\ ~(dialect = "mysql" /\ job.conflict # NoConflict /\ OtherKey(rows, job))
               => rows' = Promised(rows, job)
            /\ job.what \in {"insert", "update", "delete"} /\ ~kept => rows' = rows
      ]_stmtVars

Matching(q) == {r \in rows : \A i \in DOMAIN q.filter : Holds(Read(q.filter[i]), r, r) = TRUE}
RawOr(q) == \E i \in DOMAIN q.filter : q.filter[i].op = "raw" /\ q.filter[i].or /\ Len(q.filter) > 1

(* Terminals agree on what matches: count and exists see every row the     *)
(* filters keep, whatever page was asked for; exact_one tells one from     *)
(* several; joined tables come back whole at their place, an absent one as *)
(* None; and every parent gets its children.  A raw disjunction among      *)
(* other filters is regrouped, a table without a key is taken for absent   *)
(* when all its columns are NULL, and only the first of two equal parents  *)
(* gets the children (query.rs, projection.rs, db.rs).                     *)
ReadsAsAsked ==
    Ran =>
      /\ job.what = "select" /\ outcome.ok /\ ~RawOr(job) =>
           LET n == Cardinality(Matching(job))
           IN  CASE job.terminal = "count" -> outcome.answer = n
                 [] job.terminal = "exists" -> outcome.answer = (n > 0)
                 [] job.terminal = "all" ->
                      ToSet(outcome.answer) \subseteq Matching(job)
                      /\ (job.limit = NULL /\ job.offset = NULL => ToSet(outcome.answer) = Matching(job))
                 [] job.terminal = "one" ->
                      job.offset = NULL => (outcome.answer = NULL <=> n = 0)
                 [] job.terminal = "exact_one" -> job.offset = NULL =>
                      /\ outcome.answer = [error |-> "TooManyRows"] <=> n > 1
                      /\ outcome.answer = [error |-> "NotFound"] <=> n = 0
      /\ job.what = "join" =>
           \A i \in DOMAIN job.joined : \A k \in DOMAIN job.parts :
             outcome[i][k] =
               IF /\ job.parts[k].nullable
                  /\ \/ job.absent[i][k]
                     \/ job.parts[k].pk = {} /\ \A c \in DOMAIN job.joined[i][k] : job.joined[i][k][c] = NULL
               THEN NULL ELSE job.joined[i][k]
      /\ job.what = "load" =>
           /\ \A i \in DOMAIN job.keys :
                (\A j \in 1..(i - 1) : job.keys[j] # job.keys[i])
                => outcome.many[i].children = {c \in job.children : c.fk = job.keys[i]}
           /\ \A i \in DOMAIN job.keys :
                outcome.one[i].parent # NULL <=> \E p \in job.parents : p.id = job.keys[i]

(* Values a backend takes but cannot give back: dates in a composite; a    *)
(* Postgres geometry, and a point's SRID elsewhere; what serde cannot      *)
(* write; in arrays kept as JSON text, bytes, non-finite floats, any       *)
(* serde_json::Value and the JSON strings of other types kept as JSON.     *)
Lost(ty, x) ==
    /\ x # None
    /\ \/ ty.kind = "Composite" /\ \E i \in DOMAIN x : ty.fields[i].kind \in Dated /\ x[i] # None
       \/ ty.kind = "Geo" /\ (dialect = "postgres" \/ x.srid # None)
       \/ ty.kind = "Array" /\ dialect # "postgres" /\ \E i \in DOMAIN x :
            x[i] # None /\ (\/ ty.elem.kind \in {"Bytes", "Json"} \/ x[i] = NonFinite
                            \/ ty.elem.kind = "Serde" /\ x[i] \in {"json string", "unserializable"})
       \/ ty.kind = "Serde" /\ x = "unserializable"

(* Every value a backend accepts is read back unchanged, but for those     *)
(* (to_value, the drivers' binds and reads, from_value).                   *)
ValuesSurvive ==
    Workload("value") /\ Ran /\ outcome.written => (outcome.read = job.x <=> ~Lost(job.ty, job.x))
=============================================================================

------------------------------- MODULE OrmSql -------------------------------
(***************************************************************************)
(* The query builders and the statements they render (expr.rs, insert.rs,  *)
(* query.rs, mutation.rs, projection.rs, over sql.rs and dialect/).        *)
(*                                                                         *)
(* A rendered fragment says which dialect-specific constructs it contains, *)
(* whether the writer was marked unsupported, which values cannot be bound *)
(* everywhere, and what the database reads it as.  A bind and its          *)
(* placeholder are written together, so an operand holds its value.        *)
(***************************************************************************)
EXTENDS SqlEngine

CONSTANT NoConflict       \* an insert without an ON CONFLICT clause

supports_any_array(d) == d = "postgres"
supports_spatial(d) == d = "postgres"
supports_returning(d) == d # "mysql"
upsert_on_duplicate_key(d) == d = "mysql"
full_text(d) == IF d = "postgres" THEN "TsQuery" ELSE "Fts5Match"

(* The distance the ordering asks for; without its own functions a dialect *)
(* gets sqlite-vec's, which has no inner product.                          *)
vector_distance(d, metric) ==
    CASE d = "postgres" -> [construct |-> "vector op", metric |-> metric]
      [] d = "turso" -> [construct |-> "vector32 fn", metric |-> metric]
      [] OTHER -> [construct |-> "vec fn", metric |-> IF metric = "InnerProduct" THEN "L2" ELSE metric]

Text(constructs, unsupported, binds) ==
    [constructs |-> constructs, unsupported |-> unsupported, binds |-> binds]
Plain == Text({}, FALSE, {})
Both(a, b) == Text(a.constructs \cup b.constructs, a.unsupported \/ b.unsupported, a.binds \cup b.binds)
Joined(texts) == FoldSet(Both, Plain, texts)

-----------------------------------------------------------------------------
(* What a caller builds.  Operands and predicates are trees.               *)

stored(c) == [op |-> "column", name |-> c]
value(v) == [op |-> "value", v |-> v]
excluded(c) == [op |-> "excluded", name |-> c]
case_when(p, then, else) == [op |-> "case", condition |-> p, then |-> then, else |-> else]
db_now(minus) == [op |-> "now", minus |-> minus]
arith(lhs, rhs) == [op |-> "arith", lhs |-> lhs, rhs |-> rhs]

binary(c, cmp, rhs) == [op |-> "binary", name |-> c, cmp |-> cmp, rhs |-> rhs]
is_null(c) == [op |-> "is null", name |-> c]
any_of(c, values) == [op |-> "any of", name |-> c, values |-> values]
and(left, right) == [op |-> "and", left |-> left, right |-> right]
or(left, right) == [op |-> "or", left |-> left, right |-> right]
not(inner) == [op |-> "not", inner |-> inner]
matches == [op |-> "match"]
contains == [op |-> "like"]
spatial == [op |-> "spatial"]
(* A fragment of the caller's: one comparison, or a disjunction of two.    *)
raw_pred(left, right, disjunction) == [op |-> "raw", or |-> disjunction, left |-> left, right |-> right]

(* Repeated filters are anded in the order given; an empty list is none.   *)
filter(preds) ==
    LET all[i \in 1..Len(preds)] == IF i = 1 THEN preds[1] ELSE and(all[i - 1], preds[i])
    IN  all[Len(preds)]

(* An upsert collects its updates and guards, then becomes a conflict      *)
(* clause of the insert: without an update it does nothing, and doing      *)
(* nothing forgets the guard.                                              *)
Conflict(targets, action, skip, updates, guard) ==
    [targets |-> targets, action |-> action, skip |-> skip, updates |-> updates, guard |-> guard]
on_conflict_do_nothing(c) == Conflict({c}, "nothing", {}, {}, <<>>)
on_conflict_do_update(c) == Conflict({c}, "update all", {}, {}, <<>>)
on_conflict(key) == [targets |-> key, updates |-> {}, guard |-> <<>>]
where_conflict(u, p) == [u EXCEPT !.guard = Append(@, p)]
set(u, c, mode) == [u EXCEPT !.updates = @ \cup {[column |-> c, mode |-> mode]}]
set_expr(u, c, e) == [u EXCEPT !.updates = @ \cup {[column |-> c, mode |-> "expression", expr |-> e]}]
do_nothing(u) == Conflict(u.targets, "nothing", {}, {}, <<>>)
do_update_all(u) == Conflict(u.targets, "update all", {}, {}, u.guard)
do_update_all_except(u, skip) == Conflict(u.targets, "update all", skip, {}, u.guard)
into_insert(u) ==
    Conflict(u.targets, IF u.updates = {} THEN "nothing" ELSE "update columns", {}, u.updates, u.guard)

(* `decodes` is whether the caller's type takes the columns it asked for.  *)
Insert(rows, conflict, returning, decodes) ==
    [what |-> "insert", rows |-> rows, conflict |-> conflict, returning |-> returning, decodes |-> decodes]
Update(sets, preds) == [what |-> "update", sets |-> sets, filter |-> preds]
Delete(preds) == [what |-> "delete", filter |-> preds]
Select(preds, order, nearest, limit, offset, terminal) ==
    [what |-> "select", filter |-> preds, order |-> order, nearest |-> nearest, geo |-> FALSE,
     rank |-> FALSE, limit |-> limit, offset |-> offset, terminal |-> terminal]
nearest_geo(q) == [q EXCEPT !.geo = TRUE]
order_by_rank(q) == [q EXCEPT !.rank = TRUE]

-----------------------------------------------------------------------------
(* Operands and predicates rendered.                                       *)

incoming(d) == IF upsert_on_duplicate_key(d) THEN "values()" ELSE "excluded"

RECURSIVE write_into(_, _), write(_, _)
write_into(d, o) ==
    CASE o.op \in {"column", "value"} -> Plain
      [] o.op = "excluded" -> Text({incoming(d)}, FALSE, {})
      [] o.op = "case" -> Joined({write(d, o.condition), write_into(d, o.then), write_into(d, o.else)})
      [] o.op = "now" -> Text(IF o.minus THEN {"now", "now minus"} ELSE {"now"}, d # "postgres", {})
      [] o.op = "arith" -> Both(write_into(d, o.lhs), write_into(d, o.rhs))

write_match(d) == Text({IF full_text(d) = "TsQuery" THEN "tsquery" ELSE "fts5 match"}, FALSE, {})
write_ts_rank(d) == Text({"tsquery"}, full_text(d) # "TsQuery", {})
write_like(d) == Text({"like escape"}, FALSE, {})
SpatialUnmarked(d) == Text({"spatial"}, FALSE, {"Geo"})             \* mutant: sent as it is
write_spatial(d) == Text({"spatial"}, ~supports_spatial(d), {"Geo"})
write_any_of(d) == Text(IF supports_any_array(d) THEN {"any()"} ELSE {}, FALSE, {})
write(d, p) ==
    CASE p.op = "binary" -> write_into(d, p.rhs)
      [] p.op \in {"is null", "raw"} -> Plain
      [] p.op = "any of" -> write_any_of(d)
      [] p.op \in {"and", "or"} -> Both(write(d, p.left), write(d, p.right))
      [] p.op = "not" -> write(d, p.inner)
      [] p.op = "match" -> write_match(d)
      [] p.op = "like" -> write_like(d)
      [] p.op = "spatial" -> write_spatial(d)

(* How the database groups the text: and, or and not carry parentheses, a  *)
(* raw fragment does not, so one that is itself a disjunction lets its     *)
(* first or last part go with the neighbouring `and`.                      *)
RECURSIVE Read(_)
Read(p) ==
    CASE p.op = "and" ->
           LET l == Read(p.left) r == Read(p.right)
           IN  CASE r.op = "raw or" -> [op |-> "or", left |-> [op |-> "and", left |-> l, right |-> r.left],
                                        right |-> r.right]
                 [] l.op = "raw or" /\ r.op # "raw or" ->
                      [op |-> "or", left |-> l.left, right |-> [op |-> "and", left |-> l.right, right |-> r]]
                 [] OTHER -> [op |-> "and", left |-> l, right |-> r]
      [] p.op = "or" -> [op |-> "or", left |-> Read(p.left), right |-> Read(p.right)]
      [] p.op = "not" -> [op |-> "not", inner |-> Read(p.inner)]
      [] p.op = "raw" -> IF p.or THEN [op |-> "raw or", left |-> p.left, right |-> p.right] ELSE p.left
      [] OTHER -> p

(* The value of an operand or predicate for a stored row and, in a         *)
(* conflict clause, the incoming one.                                      *)
RECURSIVE ValueOf(_, _, _), Holds(_, _, _)
ValueOf(o, row, new) ==
    CASE o.op = "column" -> row[o.name]
      [] o.op = "value" -> o.v
      [] o.op = "excluded" -> new[o.name]
      [] o.op = "case" -> IF Holds(o.condition, row, new) = TRUE
                          THEN ValueOf(o.then, row, new) ELSE ValueOf(o.else, row, new)
      [] o.op = "now" -> 0
      [] o.op = "arith" -> Add3(ValueOf(o.lhs, row, new), ValueOf(o.rhs, row, new))
Holds(p, row, new) ==
    CASE p.op = "binary" -> Compare(row[p.name], p.cmp, ValueOf(p.rhs, row, new))
      [] p.op = "is null" -> row[p.name] = NULL
      [] p.op = "any of" -> IF p.values = {} THEN FALSE
                            ELSE IF row[p.name] = NULL THEN NULL ELSE row[p.name] \in p.values
      [] p.op = "and" -> And3(Holds(p.left, row, new), Holds(p.right, row, new))
      [] p.op \in {"or", "raw or"} -> Or3(Holds(p.left, row, new), Holds(p.right, row, new))
      [] p.op = "not" -> Not3(Holds(p.inner, row, new))
      [] OTHER -> TRUE                        \* text and spatial searches: not evaluated

Filtered(preds, row) == preds = <<>> \/ Holds(Read(filter(preds)), row, row) = TRUE
FilterText(d, preds) == IF preds = <<>> THEN Plain ELSE write(d, filter(preds))

-----------------------------------------------------------------------------
(* Insert and its conflict clause.  A row gives the required columns and   *)
(* the defaulted ones it sets; the statement names a defaulted column when *)
(* any row sets it, and the others bind NULL for it.                       *)

optional_included(schema, rows) ==
    {c \in DOMAIN schema : schema[c].defaulted /\ \E i \in DOMAIN rows : c \in DOMAIN rows[i]}
column_names(schema, rows) ==
    {c \in DOMAIN schema : ~schema[c].defaulted} \cup optional_included(schema, rows)
bind_values(schema, rows, i) ==
    [c \in column_names(schema, rows) |-> IF c \in DOMAIN rows[i] THEN rows[i][c] ELSE NULL]

(* The updates a conflict clause comes to.                                 *)
Updates(conflict, columns) ==
    CASE conflict.action = "nothing" -> {}
      [] conflict.action = "update all" ->
           {[column |-> c, mode |-> "excluded"] : c \in columns \ (conflict.targets \cup conflict.skip)}
      [] conflict.action = "update columns" -> conflict.updates
SetTo(update, old, new) ==
    CASE update.mode = "excluded" -> new[update.column]
      [] update.mode = "expression" -> ValueOf(update.expr, old, new)
      [] update.mode = "coalesce" ->
           IF new[update.column] = NULL THEN old[update.column] ELSE new[update.column]
      [] update.mode = "add" -> Add3(old[update.column], new[update.column])
write_update(d, update) ==
    IF update.mode = "expression" THEN write_into(d, update.expr) ELSE Text({incoming(d)}, FALSE, {})
GuardDropped(d, conflict, columns) ==         \* mutant: MySQL's guard is left out in silence
    Both(Joined({write_update(d, u) : u \in Updates(conflict, columns)}),
         Text({IF upsert_on_duplicate_key(d) THEN "on duplicate key" ELSE "on conflict"}, FALSE, {}))
write_conflict(d, conflict, columns) ==
    LET updates == Updates(conflict, columns)
        sets == Joined({write_update(d, u) : u \in updates})
        guarded == updates # {} /\ conflict.guard # <<>>
    IN  IF upsert_on_duplicate_key(d)
        THEN Both(sets, Text({"on duplicate key"}, guarded, {}))
        ELSE Both(Both(sets, Text({"on conflict"}, FALSE, {})),
                  IF guarded THEN FilterText(d, conflict.guard) ELSE Plain)
InsertText(d, schema, ins) ==
    Joined({IF ins.conflict = NoConflict THEN Plain
            ELSE write_conflict(d, ins.conflict, column_names(schema, ins.rows)),
            IF ins.returning # "" THEN Text({"returning"}, FALSE, {}) ELSE Plain})

(* The rows the database is left with, and those of them RETURNING gives.  *)
(* A MySQL clause answers for every key of the table, and a do-nothing     *)
(* clause assigns a column to itself.                                      *)
InsertInto(d, schema, rows, ins) ==
    LET names == column_names(schema, ins.rows)
        updates == IF ins.conflict = NoConflict THEN {} ELSE Updates(ins.conflict, names)
        target == IF ins.conflict = NoConflict THEN {}
                  ELSE IF upsert_on_duplicate_key(d) THEN Keys(schema) ELSE ins.conflict.targets
        Updated(old, new) ==
            [c \in DOMAIN schema |->
                IF \E u \in updates : u.column = c
                THEN SetTo(CHOOSE u \in updates : u.column = c, old, new) ELSE old[c]]
        Guard(old, new) ==
            IF ins.conflict.guard = <<>> \/ upsert_on_duplicate_key(d) THEN TRUE ELSE Holds(Read(filter(ins.conflict.guard)), old, new)
        done[i \in 0..Len(ins.rows)] ==
            IF i = 0 THEN [rows |-> rows, touched |-> {}]
            ELSE InsertOne(d, schema, done[i - 1], bind_values(schema, ins.rows, i), target,
                           Updated, Guard, updates = {})
    IN  done[Len(ins.rows)]

-----------------------------------------------------------------------------
(* Update and delete.                                                      *)

UpdateText(d, upd) == Both(Joined({write_into(d, upd.sets[c]) : c \in DOMAIN upd.sets}), FilterText(d, upd.filter))
UpdateSet(schema, rows, upd) ==
    UpdateRows(schema, rows,
        LAMBDA r : [c \in DOMAIN r |-> IF c \in DOMAIN upd.sets THEN ValueOf(upd.sets[c], r, r) ELSE r[c]],
        LAMBDA r : Filtered(upd.filter, r))
DeleteText(d, del) == FilterText(d, del.filter)
DeleteFrom(rows, del) == {r \in rows : ~Filtered(del.filter, r)}

-----------------------------------------------------------------------------
(* Select.                                                                 *)

SelectText(d, q) ==
    Joined({FilterText(d, q.filter),
            IF q.nearest = "" THEN Plain
            ELSE Text({vector_distance(d, q.nearest).construct}, FALSE, {"Vector"}),
            IF q.geo THEN write_spatial(d) ELSE Plain,
            IF q.rank THEN write_ts_rank(d) ELSE Plain,
            IF q.offset # NULL /\ q.limit = NULL THEN Text({"bare offset"}, FALSE, {}) ELSE Plain})

(* count and exists wrap the query without its order and its window.       *)
WindowKept(q) == [q EXCEPT !.order = ""]      \* mutant: the page is counted
Unwindowed(q) == [q EXCEPT !.limit = NULL, !.offset = NULL, !.order = "", !.nearest = "",
                           !.geo = FALSE, !.rank = FALSE]
AsSent(q) ==
    CASE q.terminal \in {"count", "exists"} -> Unwindowed(q)
      [] q.terminal = "one" -> [q EXCEPT !.limit = 1]
      [] q.terminal = "exact_one" -> [q EXCEPT !.limit = 2]
      [] OTHER -> q

(* Rows come back sorted by the one key of the model, or in any order when *)
(* none is asked for; the model takes key order there too.                 *)
Order(direction, r, s) == IF direction = "desc" THEN r.id > s.id ELSE r.id < s.id
Result(rows, q) ==
    Window(SetToSortSeq({r \in rows : Filtered(q.filter, r)}, LAMBDA r, s : Order(q.order, r, s)),
           q.limit, q.offset)
Answer(rows, q) ==
    LET got == Result(rows, AsSent(q))
    IN  CASE q.terminal = "all" -> got
          [] q.terminal = "one" -> IF got = <<>> THEN NULL ELSE got[1]
          [] q.terminal = "exact_one" ->
               IF Len(got) = 1 THEN got[1] ELSE [error |-> IF got = <<>> THEN "NotFound" ELSE "TooManyRows"]
          [] q.terminal = "count" -> Len(got)
          [] q.terminal = "exists" -> got # <<>>

-----------------------------------------------------------------------------
(* Decoding a joined row.  A projection is a sequence of tables, each      *)
(* [columns, pk, nullable]; a row is the sequence of the cells it selects. *)

arity(part) == Len(part.columns)
OffsetOf(parts, i) == FoldFunctionOnSet(LAMBDA a, b : a + b, 0, [j \in DOMAIN parts |-> arity(parts[j])], 1..(i - 1))
outer_join_absent(part, row, start) ==
    IF part.pk # {} THEN row[start + Min(part.pk)] = NULL
    ELSE \A k \in 1..arity(part) : row[start + k] = NULL
decode_part(parts, i, row) ==
    LET start == OffsetOf(parts, i)
    IN  IF parts[i].nullable /\ outer_join_absent(parts[i], row, start) THEN NULL
        ELSE SubSeq(row, start + 1, start + arity(parts[i]))
decode(parts, row) == [i \in DOMAIN parts |-> decode_part(parts, i, row)]

(* Relation loaders: one query for the children of all parents, grouped by *)
(* key; a group goes to the first parent that asks for it.                 *)
load_has_many(parents, children) ==
    [i \in DOMAIN parents |->
        [parent |-> parents[i],
         children |-> IF \E j \in 1..(i - 1) : parents[j] = parents[i] THEN {}
                      ELSE {c \in children : c.fk = parents[i]}]]
load_belongs_to(children, parents) ==
    [i \in DOMAIN children |->
        [child |-> children[i],
         parent |-> IF \E p \in parents : p.id = children[i] THEN CHOOSE p \in parents : p.id = children[i]
                    ELSE NULL]]
=============================================================================

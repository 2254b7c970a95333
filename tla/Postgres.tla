------------------------------ MODULE Postgres ------------------------------
(***************************************************************************)
(* The database the migrations run against, as far as the statements the   *)
(* generator emits can tell: which statements it refuses, and what the     *)
(* catalogue holds afterwards.  External: Postgres is not part of the      *)
(* repository; the rules are the ones the generator's comments rely on.    *)
(* A catalogue holds no rows, so `set not null` and a cast never fail on   *)
(* data.                                                                   *)
(***************************************************************************)
EXTENDS Integers, Sequences, FiniteSets, SequencesExt

CONSTANT NoRef       \* a column without a foreign key

(* Finite functions whose domain is the set of existing names.            *)
Without(f, names) == [x \in DOMAIN f \ names |-> f[x]]
With(f, x, v) == [y \in DOMAIN f \cup {x} |-> IF y = x THEN v ELSE f[y]]

NoNames == [x \in {} |-> x]
EmptyDb == [roles |-> NoNames, tables |-> NoNames, indexes |-> NoNames]

HasColumn(db, t, c) == t \in DOMAIN db.tables /\ c \in DOMAIN db.tables[t].columns
RefHolds(db, t, cols, ref) ==
    \/ ref = NoRef
    \/ ref.table = t /\ ref.column \in cols
    \/ ref.table # t /\ HasColumn(db, ref.table, ref.column)

(* Columns that point at table t, or at one of its columns.                *)
Referrers(db, t, cols) ==
    {<<u, c>> \in UNION {{u} \X DOMAIN db.tables[u].columns : u \in DOMAIN db.tables} :
        /\ db.tables[u].columns[c].fk # NoRef
        /\ db.tables[u].columns[c].fk.table = t
        /\ db.tables[u].columns[c].fk.column \in cols}

PolicyUses(db, t, c) ==
    \E p \in DOMAIN db.tables[t].policies : c \in db.tables[t].policies[p].cols
RoleInUse(db, r) ==
    \E t \in DOMAIN db.tables :
        \/ r \in DOMAIN db.tables[t].grants
        \/ \E p \in DOMAIN db.tables[t].policies : r \in db.tables[t].policies[p].roles

(* Whether the server accepts statement s.                                 *)
Legal(db, s) ==
    CASE s.op = "create_table" ->
           /\ s.table \notin DOMAIN db.tables
           /\ \A c \in DOMAIN s.columns :
                RefHolds(db, s.table, DOMAIN s.columns, s.columns[c].fk)
      [] s.op = "drop_table" ->
           /\ s.table \in DOMAIN db.tables
           /\ \A r \in Referrers(db, s.table, DOMAIN db.tables[s.table].columns) : r[1] = s.table
      [] s.op = "add_column" ->
           /\ s.table \in DOMAIN db.tables
           /\ ~HasColumn(db, s.table, s.column)
           /\ RefHolds(db, s.table, DOMAIN db.tables[s.table].columns, s.def.fk)
      [] s.op = "drop_column" ->
           /\ HasColumn(db, s.table, s.column)
           /\ ~PolicyUses(db, s.table, s.column)
           /\ Referrers(db, s.table, {s.column}) \subseteq {<<s.table, s.column>>}
      [] s.op = "alter_column" ->
           HasColumn(db, s.table, s.column) /\ ~PolicyUses(db, s.table, s.column)
      [] s.op = "rename_column" ->
           HasColumn(db, s.table, s.from) /\ ~HasColumn(db, s.table, s.to)
      [] s.op = "create_index" ->
           /\ s.name \notin DOMAIN db.indexes
           /\ s.table \in DOMAIN db.tables
           /\ s.cols \subseteq DOMAIN db.tables[s.table].columns
      [] s.op = "drop_index" -> s.name \in DOMAIN db.indexes
      [] s.op = "create_role" -> TRUE
      [] s.op = "alter_role" -> s.role \in DOMAIN db.roles
      [] s.op = "drop_role" -> s.role \in DOMAIN db.roles /\ ~RoleInUse(db, s.role)
      [] s.op \in {"rls", "force_rls"} -> s.table \in DOMAIN db.tables
      [] s.op \in {"grant", "revoke"} ->
           s.table \in DOMAIN db.tables /\ s.role \in DOMAIN db.roles
      [] s.op = "create_policy" ->
           /\ s.table \in DOMAIN db.tables
           /\ s.name \notin DOMAIN db.tables[s.table].policies
           /\ s.def.roles \subseteq DOMAIN db.roles
           /\ s.def.cols \subseteq DOMAIN db.tables[s.table].columns
      [] s.op = "drop_policy" ->
           s.table \in DOMAIN db.tables /\ s.name \in DOMAIN db.tables[s.table].policies

Renamed(S, from, to) == {IF x = from THEN to ELSE x : x \in S}

(* The catalogue after an accepted statement.  Dropping a table or a       *)
(* column takes the indexes on it along; a rename is followed by indexes,  *)
(* policies and the foreign keys that point at the column.                 *)
Apply(db, s) ==
    CASE s.op = "create_table" ->
           [db EXCEPT !.tables = With(@, s.table,
               [columns |-> s.columns, rls |-> FALSE, force_rls |-> FALSE,
                grants |-> NoNames, policies |-> NoNames])]
      [] s.op = "drop_table" ->
           [db EXCEPT !.tables = Without(@, {s.table}),
                      !.indexes = Without(@, {i \in DOMAIN @ : @[i].table = s.table})]
      [] s.op \in {"add_column", "alter_column"} ->
           [db EXCEPT !.tables[s.table].columns =
               With(@, s.column, IF s.op = "add_column" THEN s.def
                                 ELSE [@[s.column] EXCEPT !.type = s.def.type,
                                                          !.nullable = s.def.nullable])]
      [] s.op = "drop_column" ->
           [db EXCEPT !.tables[s.table].columns = Without(@, {s.column}),
                      !.indexes = Without(@, {i \in DOMAIN @ :
                                     @[i].table = s.table /\ s.column \in @[i].cols})]
      [] s.op = "rename_column" ->
           LET ref == [table |-> s.table, column |-> s.from]
               Follow(col) == [col EXCEPT !.fk = IF @ = ref THEN [@ EXCEPT !.column = s.to] ELSE @]
               cols == db.tables[s.table].columns
               moved == With(Without(cols, {s.from}), s.to, cols[s.from])
           IN  [db EXCEPT
                !.tables = [t \in DOMAIN @ |-> [@[t] EXCEPT
                    !.columns = [c \in DOMAIN IF t = s.table THEN moved ELSE @ |->
                                   Follow(IF t = s.table THEN moved[c] ELSE @[c])],
                    !.policies = IF t # s.table THEN @ ELSE [p \in DOMAIN @ |->
                                   [@[p] EXCEPT !.cols = Renamed(@, s.from, s.to)]]]],
                !.indexes = [i \in DOMAIN @ |-> IF @[i].table # s.table THEN @[i]
                               ELSE [@[i] EXCEPT !.cols = Renamed(@, s.from, s.to)]]]
      [] s.op = "create_index" ->
           [db EXCEPT !.indexes = With(@, s.name, [table |-> s.table, cols |-> s.cols, def |-> s.def])]
      [] s.op = "drop_index" -> [db EXCEPT !.indexes = Without(@, {s.name})]
      [] s.op = "create_role" ->
           IF s.role \in DOMAIN db.roles THEN db
           ELSE [db EXCEPT !.roles = With(@, s.role, s.def)]
      [] s.op = "alter_role" -> [db EXCEPT !.roles[s.role] = s.def]
      [] s.op = "drop_role" -> [db EXCEPT !.roles = Without(@, {s.role})]
      [] s.op = "rls" -> [db EXCEPT !.tables[s.table].rls = s.on]
      [] s.op = "force_rls" -> [db EXCEPT !.tables[s.table].force_rls = s.on]
      [] s.op = "grant" ->
           [db EXCEPT !.tables[s.table].grants =
               With(@, s.role, (IF s.role \in DOMAIN @ THEN @[s.role] ELSE {}) \cup s.privileges)]
      [] s.op = "revoke" ->
           [db EXCEPT !.tables[s.table].grants =
               IF s.role \notin DOMAIN @ THEN @
               ELSE IF @[s.role] \subseteq s.privileges THEN Without(@, {s.role})
               ELSE With(@, s.role, @[s.role] \ s.privileges)]
      [] s.op = "create_policy" -> [db EXCEPT !.tables[s.table].policies = With(@, s.name, s.def)]
      [] s.op = "drop_policy" -> [db EXCEPT !.tables[s.table].policies = Without(@, {s.name})]

(* A migration is one transaction: the first refused statement undoes it.  *)
Run(db, statements) ==
    FoldLeft(LAMBDA r, s : IF r.ok /\ Legal(r.db, s) THEN [ok |-> TRUE, db |-> Apply(r.db, s)]
                           ELSE [ok |-> FALSE, db |-> db],
             [ok |-> TRUE, db |-> db], statements)
=============================================================================

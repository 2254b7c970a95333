----------------------------- MODULE SchemaDiff -----------------------------
(***************************************************************************)
(* Schema diffing and the statements it is rendered to (orm-cli diff.rs,   *)
(* over the snapshot model of model.rs).                                   *)
(*                                                                         *)
(* A schema maps the names of its tables and roles to their definitions.   *)
(* Names are naturals, and their order stands for the name order tables,   *)
(* roles, policies, grants and indexes are sorted in; columns are declared *)
(* in that order too.  `rest` stands for the column fields the diff never  *)
(* compares: primary key, unique, default and generated expression.        *)
(***************************************************************************)
EXTENDS Postgres

CONSTANT Specific    \* the privileges ALL PRIVILEGES stands for

Concat(names, Op(_)) ==
    LET seq == SetToSortSeq(names, LAMBDA a, b : a < b)
    IN  FlattenSeq([i \in DOMAIN seq |-> Op(seq[i])])
When(condition, seq) == IF condition THEN seq ELSE <<>>

type_differs(a, b) == a.type # b.type \/ a.nullable # b.nullable

(* `All` subsumes the rest; otherwise the sorted, distinct privileges.     *)
canonical_privileges(ps) == IF "All" \in ps THEN {"All"} ELSE ps
Granted(ps) == IF "All" \in ps THEN Specific ELSE ps

-----------------------------------------------------------------------------
(* Changes.                                                                *)

DependsOnUnplaced(defs, t, inSet, placed) ==
    \E c \in DOMAIN defs[t].columns :
        LET fk == defs[t].columns[c].fk
        IN  fk # NoRef /\ fk.table # t /\ fk.table \in inSet \ placed

(* A stable topological sort of the tables in `names`: parents first, and  *)
(* the first remaining one when a cycle leaves nothing placeable.          *)
NameOrder(defs, names) == SetToSortSeq(names, LAMBDA a, b : a < b)         \* mutant: no sort
topo_sort_creates(defs, names) ==
    LET inputOrder == SetToSortSeq(names, LAMBDA a, b : a < b)
        Place(ordered) ==
            LET remaining == SelectSeq(inputOrder, LAMBDA t : t \notin ToSet(ordered))
                ready == SelectSeq(remaining, LAMBDA t :
                            ~DependsOnUnplaced(defs, t, names, ToSet(ordered)))
            IN  Append(ordered, Head(IF ready # <<>> THEN ready ELSE remaining))
        placed[n \in 0..Cardinality(names)] == IF n = 0 THEN <<>> ELSE Place(placed[n - 1])
    IN  placed[Cardinality(names)]

(* Columns of an existing table.  answer[c] is the removed column the      *)
(* resolver says the added column c is a rename of, or 0; a column already *)
(* taken is no longer offered, so answers are distinct.                    *)
diff_table(t, old, new, answer) ==
    LET added == DOMAIN new.columns \ DOMAIN old.columns
        removed == DOMAIN old.columns \ DOMAIN new.columns
        Alter(c, from) == When(type_differs(from, new.columns[c]),
            <<[kind |-> "AlterType", table |-> t, column |-> c, from |-> from, to |-> new.columns[c]]>>)
    IN  Concat(DOMAIN new.columns \cap DOMAIN old.columns, LAMBDA c : Alter(c, old.columns[c]))
        \o Concat(added, LAMBDA c :
             IF answer[c] = 0
             THEN <<[kind |-> "AddColumn", table |-> t, column |-> c, def |-> new.columns[c]]>>
             ELSE <<[kind |-> "RenameColumn", table |-> t, from |-> answer[c], to |-> c]>>
                  \o Alter(c, old.columns[answer[c]]))
        \o Concat(removed \ {answer[c] : c \in added}, LAMBDA c :
             <<[kind |-> "DropColumn", table |-> t, column |-> c, def |-> old.columns[c]]>>)

(* A role whose privileges change is revoked the old set, then granted the *)
(* new one.                                                                *)
diff_grants(t, old, new) ==
    LET Change(kind, r, ps) ==
            <<[kind |-> kind, table |-> t, role |-> r, privileges |-> canonical_privileges(ps)]>>
    IN  Concat(DOMAIN new.grants, LAMBDA r :
            IF r \notin DOMAIN old.grants THEN Change("Grant", r, new.grants[r])
            ELSE When(canonical_privileges(old.grants[r]) # canonical_privileges(new.grants[r]),
                      Change("Revoke", r, old.grants[r]) \o Change("Grant", r, new.grants[r])))
        \o Concat(DOMAIN old.grants \ DOMAIN new.grants, LAMBDA r : Change("Revoke", r, old.grants[r]))

(* Definitions keyed by name: the gone and the changed are dropped before  *)
(* the new and the changed are created.                                    *)
Replaced(t, old, new, dropKind, createKind) ==
    LET Differs(n, f, g) == n \notin DOMAIN g \/ f[n] # g[n]
    IN  Concat({n \in DOMAIN old : Differs(n, old, new)}, LAMBDA n :
            <<[kind |-> dropKind, table |-> t, name |-> n, def |-> old[n]]>>)
        \o Concat({n \in DOMAIN new : Differs(n, new, old)}, LAMBDA n :
            <<[kind |-> createKind, table |-> t, name |-> n, def |-> new[n]]>>)

diff_policies(t, old, new) == Replaced(t, old.policies, new.policies, "DropPolicy", "CreatePolicy")
diff_table_indexes(t, old, new) == Replaced(t, old.indexes, new.indexes, "DropIndex", "CreateIndex")

diff_table_rls(t, old, new) ==
    When(old.rls # new.rls, <<[kind |-> "SetRls", table |-> t, on |-> new.rls]>>)
    \o When(old.force_rls # new.force_rls, <<[kind |-> "SetForceRls", table |-> t, on |-> new.force_rls]>>)
    \o diff_grants(t, old, new)
    \o diff_policies(t, old, new)

(* All changes from `old` to `new`: roles first, dropped tables children   *)
(* first, created tables parents first, then the tables in both, and the   *)
(* dropped roles last.  answers[t] are the resolver's answers for table t. *)
diff(old, new, answers) ==
    LET dropped == DOMAIN old.tables \ DOMAIN new.tables
        created == DOMAIN new.tables \ DOMAIN old.tables
        Tables(kind, defs, names) ==
            [i \in DOMAIN names |-> [kind |-> kind, table |-> names[i], def |-> defs[names[i]]]]
    IN  Concat(DOMAIN new.roles, LAMBDA r :
            IF r \notin DOMAIN old.roles
            THEN <<[kind |-> "CreateRole", role |-> r, def |-> new.roles[r]]>>
            ELSE When(old.roles[r] # new.roles[r],
                 <<[kind |-> "AlterRole", role |-> r, from |-> old.roles[r], to |-> new.roles[r]]>>))
        \o Tables("DropTable", old.tables, Reverse(topo_sort_creates(old.tables, dropped)))
        \o Tables("CreateTable", new.tables, topo_sort_creates(new.tables, created))
        \o Concat(DOMAIN new.tables \cap DOMAIN old.tables, LAMBDA t :
             diff_table(t, old.tables[t], new.tables[t], answers[t])
             \o diff_table_rls(t, old.tables[t], new.tables[t])
             \o diff_table_indexes(t, old.tables[t], new.tables[t]))
        \o Concat(DOMAIN old.roles \ DOMAIN new.roles, LAMBDA r :
             <<[kind |-> "DropRole", role |-> r, def |-> old.roles[r]]>>)

-----------------------------------------------------------------------------
(* Statements.                                                             *)

Stored(column) == [f \in {"type", "nullable", "fk", "rest"} |-> column[f]]
index_name(t, c) == <<"idx", t, c>>
NamedIndex(n) == <<"named", n>>

create_index_sql(t, c) ==
    [op |-> "create_index", name |-> index_name(t, c), table |-> t, cols |-> {c}, def |-> 0]
create_table_index_sql(t, n, index) ==
    [op |-> "create_index", name |-> NamedIndex(n), table |-> t, cols |-> index.cols, def |-> index.def]
drop_index_sql(n) == [op |-> "drop_index", name |-> NamedIndex(n)]
create_table_sql(t, def) ==
    [op |-> "create_table", table |-> t,
     columns |-> [c \in DOMAIN def.columns |-> Stored(def.columns[c])]]
alter_type_sql(t, c, to) == [op |-> "alter_column", table |-> t, column |-> c, def |-> Stored(to)]
create_role_sql(r, def) == [op |-> "create_role", role |-> r, def |-> def]
alter_role_sql(r, def) == [op |-> "alter_role", role |-> r, def |-> def]
drop_role_sql(r) == [op |-> "drop_role", role |-> r]
set_rls_sql(t, on) == [op |-> "rls", table |-> t, on |-> on]
force_rls_sql(t, on) == [op |-> "force_rls", table |-> t, on |-> on]
grant_sql(t, r, ps) == [op |-> "grant", table |-> t, role |-> r, privileges |-> Granted(ps)]
revoke_sql(t, r, ps) == [op |-> "revoke", table |-> t, role |-> r, privileges |-> Granted(ps)]
create_policy_sql(t, p, def) == [op |-> "create_policy", table |-> t, name |-> p, def |-> def]
drop_policy_sql(t, p) == [op |-> "drop_policy", table |-> t, name |-> p]
add_column_sql(t, c, def) ==
    <<[op |-> "add_column", table |-> t, column |-> c, def |-> Stored(def)]>>
    \o When(def.index, <<create_index_sql(t, c)>>)
drop_column_sql(t, c) == [op |-> "drop_column", table |-> t, column |-> c]
rename_sql(t, from, to) == [op |-> "rename_column", table |-> t, from |-> from, to |-> to]

(* A table with its indexes, grants, row-level security and policies.      *)
create_object_sql(t, def) ==
    <<create_table_sql(t, def)>>
    \o Concat({c \in DOMAIN def.columns : def.columns[c].index}, LAMBDA c : <<create_index_sql(t, c)>>)
    \o Concat(DOMAIN def.indexes, LAMBDA n : <<create_table_index_sql(t, n, def.indexes[n])>>)
    \o Concat(DOMAIN def.grants, LAMBDA r : <<grant_sql(t, r, def.grants[r])>>)
    \o When(def.rls, <<set_rls_sql(t, TRUE)>>)
    \o When(def.force_rls, <<force_rls_sql(t, TRUE)>>)
    \o Concat(DOMAIN def.policies, LAMBDA p : <<create_policy_sql(t, p, def.policies[p])>>)

up(c) ==
    CASE c.kind = "CreateTable" -> create_object_sql(c.table, c.def)
      [] c.kind = "DropTable" -> <<[op |-> "drop_table", table |-> c.table]>>
      [] c.kind = "AddColumn" -> add_column_sql(c.table, c.column, c.def)
      [] c.kind = "DropColumn" -> <<drop_column_sql(c.table, c.column)>>
      [] c.kind = "AlterType" -> <<alter_type_sql(c.table, c.column, c.to)>>
      [] c.kind = "RenameColumn" -> <<rename_sql(c.table, c.from, c.to)>>
      [] c.kind = "CreateRole" -> <<create_role_sql(c.role, c.def)>>
      [] c.kind = "DropRole" -> <<drop_role_sql(c.role)>>
      [] c.kind = "AlterRole" -> <<alter_role_sql(c.role, c.to)>>
      [] c.kind = "SetRls" -> <<set_rls_sql(c.table, c.on)>>
      [] c.kind = "SetForceRls" -> <<force_rls_sql(c.table, c.on)>>
      [] c.kind = "Grant" -> <<grant_sql(c.table, c.role, c.privileges)>>
      [] c.kind = "Revoke" -> <<revoke_sql(c.table, c.role, c.privileges)>>
      [] c.kind = "CreatePolicy" -> <<create_policy_sql(c.table, c.name, c.def)>>
      [] c.kind = "DropPolicy" -> <<drop_policy_sql(c.table, c.name)>>
      [] c.kind = "CreateIndex" -> <<create_table_index_sql(c.table, c.name, c.def)>>
      [] c.kind = "DropIndex" -> <<drop_index_sql(c.name)>>

(* The inverse of a change, as `up` renders it.                            *)
down(c) ==
    CASE c.kind = "CreateTable" -> <<[op |-> "drop_table", table |-> c.table]>>
      [] c.kind = "DropTable" -> create_object_sql(c.table, c.def)
      [] c.kind = "AddColumn" -> <<drop_column_sql(c.table, c.column)>>
      [] c.kind = "DropColumn" -> add_column_sql(c.table, c.column, c.def)
      [] c.kind = "AlterType" -> <<alter_type_sql(c.table, c.column, c.from)>>
      [] c.kind = "RenameColumn" -> <<rename_sql(c.table, c.to, c.from)>>
      [] c.kind = "CreateRole" -> <<drop_role_sql(c.role)>>
      [] c.kind = "DropRole" -> <<create_role_sql(c.role, c.def)>>
      [] c.kind = "AlterRole" -> <<alter_role_sql(c.role, c.from)>>
      [] c.kind = "SetRls" -> <<set_rls_sql(c.table, ~c.on)>>
      [] c.kind = "SetForceRls" -> <<force_rls_sql(c.table, ~c.on)>>
      [] c.kind = "Grant" -> <<revoke_sql(c.table, c.role, c.privileges)>>
      [] c.kind = "Revoke" -> <<grant_sql(c.table, c.role, c.privileges)>>
      [] c.kind = "CreatePolicy" -> <<drop_policy_sql(c.table, c.name)>>
      [] c.kind = "DropPolicy" -> <<create_policy_sql(c.table, c.name, c.def)>>
      [] c.kind = "CreateIndex" -> <<drop_index_sql(c.name)>>
      [] c.kind = "DropIndex" -> <<create_table_index_sql(c.table, c.name, c.def)>>

up_sql(changes) == FlattenSeq([i \in DOMAIN changes |-> up(changes[i])])
down_sql(changes) == FlattenSeq([i \in DOMAIN changes |-> down(Reverse(changes)[i])])
=============================================================================

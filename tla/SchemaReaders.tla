--------------------------- MODULE SchemaReaders ---------------------------
(***************************************************************************)
(* The two readers of one schema declaration: the migration CLI, which     *)
(* parses the source tree without compiling it (orm-cli parse.rs), and the *)
(* derive macros, which rustc runs on it (orm-derive).  The attribute      *)
(* grammar they share is orm-schema-support.                               *)
(*                                                                         *)
(* A source is a set of files (paths are directory sequence and stem) of   *)
(* items: structs with their parsed attributes, and modules.  An attribute *)
(* that is absent is None; `other` says an unknown key is present.  A name *)
(* in Unsafe is empty, holds a NUL or is longer than NAMEDATALEN.          *)
(***************************************************************************)
EXTENDS Naturals, SequencesExt

CONSTANTS None, Rejected, Unread,                    \* model values
          Unsafe, SqlNames, QualifiedNames, SqlTypeOf, Sources

VARIABLES source, cli, compiled
readers == <<source, cli, compiled>>

-----------------------------------------------------------------------------
(* The shared grammar (orm-schema-support).                                *)

sql_type(ty) == IF ty \in DOMAIN SqlTypeOf THEN SqlTypeOf[ty] ELSE None
is_relation(field) == field.ty = "Rel"
is_sql_identifier(v, qualified) == v \in SqlNames \/ (qualified /\ v \in QualifiedNames)

(* A reference literal is the sequence of its trimmed, dot-separated parts.*)
split_table_column(parts) == IF Len(parts) = 2 /\ "" \notin ToSet(parts) THEN parts ELSE Rejected
split_roles(raw) == ToSet(raw) \ {""}

check_policy_clauses(command, using, check) ==
    /\ command \in {"select", "delete"} => check = None /\ using # None
    /\ command = "insert" => using = None /\ check # None
    /\ command \in {"all", "update"} => using # None \/ check # None
    /\ using # "" /\ check # ""

PolicyCommand == {"all", "select", "insert", "update", "delete"}
Privilege == PolicyCommand

(* At most one command (ALL when omitted), `to` names a role if present,   *)
(* and the clauses are the ones Postgres takes for the command.            *)
parse_policy_entry(e) ==
    LET command == IF e.commands = <<>> THEN "all" ELSE Head(e.commands)
    IN  IF /\ ~e.other
           /\ Len(e.commands) <= 1 /\ command \in PolicyCommand
           /\ e.to # None => split_roles(e.to) # {}
           /\ check_policy_clauses(command, e.using, e.check)
        THEN [name |-> e.name, command |-> command, using |-> e.using, check |-> e.check,
              roles |-> IF e.to = None THEN {} ELSE split_roles(e.to)]
        ELSE Rejected

parse_grant_entry(e) ==
    IF e.flags # {} /\ e.flags \subseteq Privilege
    THEN [role |-> e.role, privileges |-> e.flags] ELSE Rejected

Policies(d) == IF d.policies = None THEN <<>> ELSE d.policies

-----------------------------------------------------------------------------
(* The CLI: the module tree.                                               *)

child_base_dir(path) ==
    IF path.stem \in {"mod", "lib", "main"} THEN path.dir ELSE Append(path.dir, path.stem)

(* #[path] is relative to the declaring file's directory; otherwise the    *)
(* flat file, then the nested mod.rs.                                      *)
resolve_mod_file(files, decl_dir, base, item) ==
    LET candidates ==
            IF item.path # None
            THEN <<[dir |-> decl_dir \o item.path.dir, stem |-> item.path.stem]>>
            ELSE <<[dir |-> base, stem |-> item.name],
                   [dir |-> Append(base, item.name), stem |-> "mod"]>>
        found == SelectSeq(candidates, LAMBDA c : c \in DOMAIN files)
    IN  IF found = <<>> THEN Rejected ELSE Head(found)

(* The derive list is matched on its bare name only.                       *)
derives(item, name) == item.derive = name /\ ~item.qualified

(* The structs reachable from a file, in order; Rejected in the sequence   *)
(* when a module has no file.                                              *)
RECURSIVE collect_items(_, _, _, _)
collect_file(files, path) ==
    collect_items(files, files[path], path.dir, child_base_dir(path))
collect_items(files, items, decl_dir, base) ==
    LET collect_mod(item) ==
            IF item.inline # None
            THEN collect_items(files, item.inline, Append(decl_dir, item.name), Append(base, item.name))
            ELSE LET file == resolve_mod_file(files, decl_dir, base, item)
                 IN  IF file = Rejected THEN <<Rejected>> ELSE collect_file(files, file)
        collect(item) ==
            IF item.kind = "mod" THEN collect_mod(item)
            ELSE IF derives(item, "Table") \/ derives(item, "Role") THEN <<item>> ELSE <<>>
    IN  FlattenSeq([i \in DOMAIN items |-> collect(items[i])])

-----------------------------------------------------------------------------
(* The CLI: tables and roles.                                              *)

validate_identifier(name) == name \notin Unsafe

validate_index(index) ==
    /\ validate_identifier(index.name)
    /\ index.columns # {} /\ \A c \in index.columns : validate_identifier(c)
    /\ index.method # None => is_sql_identifier(index.method, FALSE)
    /\ index.predicate # ""

validate_on_delete(action, has_references, nullable) ==
    /\ has_references
    /\ action \in {"cascade", "restrict", "set null", "no action"}
    /\ action = "set null" => nullable

(* One `name = (columns)` head, then the checks of validate_index.         *)
parse_index_entry(e) ==
    IF e.heads = 1 /\ validate_index(e.index) THEN e.index ELSE Rejected

cli_policy_entry(e) ==
    LET policy == parse_policy_entry(e)
    IN  IF policy # Rejected /\ \A n \in {policy.name} \cup policy.roles : validate_identifier(n)
        THEN policy ELSE Rejected
cli_grant_entry(e) ==
    LET grant == parse_grant_entry(e)
    IN  IF grant # Rejected /\ validate_identifier(grant.role) THEN grant ELSE Rejected

(* Two grants to one role are one grant of both sets of privileges.        *)
merge_grants(grants) ==
    [r \in {g.role : g \in grants} |-> UNION {g.privileges : g \in {h \in grants : h.role = r}}]

table_meta(d) ==
    LET policies == {cli_policy_entry(e) : e \in ToSet(Policies(d))}
        grants == {cli_grant_entry(e) : e \in ToSet(d.grants)}
        indexes == [i \in DOMAIN d.indexes |-> parse_index_entry(d.indexes[i])]
    IN  IF /\ ~d.other /\ Rejected \notin policies \cup grants \cup ToSet(indexes)
           /\ d.name # None /\ validate_identifier(d.name)
           /\ d.force_rls => d.rls
           /\ Policies(d) # <<>> => d.rls
           /\ \A i, j \in DOMAIN indexes : indexes[i].name = indexes[j].name => i = j
        THEN [name |-> d.name, rls |-> d.rls, force_rls |-> d.force_rls, policies |-> policies,
              grants |-> merge_grants(grants), indexes |-> ToSet(indexes)]
        ELSE Rejected

(* A path is resolved by its struct identifier alone, and stays itself     *)
(* when no table has it.                                                   *)
parse_reference(ref, table_of_ident) ==
    LET named == split_table_column(ref.parts)
        target == IF ref.form = "named" THEN named
                  ELSE <<IF ref.ident \in DOMAIN table_of_ident THEN table_of_ident[ref.ident]
                         ELSE ref.ident, ref.column>>
    IN  IF target # Rejected /\ validate_identifier(target[1]) /\ validate_identifier(target[2])
        THEN target ELSE Rejected

Indexed(f) ==
    /\ ~f.index => f.index_method = None /\ f.opclass = None
    /\ f.index_method # None => is_sql_identifier(f.index_method, FALSE)
    /\ f.opclass # None => is_sql_identifier(f.opclass, TRUE)

ColumnName(f) == IF f.name = None THEN f.ident ELSE f.name
ColumnType(f) == IF f.sql_type = None THEN sql_type(f.ty) ELSE f.sql_type
Nullable(f) == f.option \/ f.nullable

parse_column(f, table_of_ident) ==
    LET fk == IF f.references = None THEN None ELSE parse_reference(f.references, table_of_ident)
    IN  IF /\ ~f.other /\ fk # Rejected /\ validate_identifier(ColumnName(f))
           /\ f.on_delete # None => validate_on_delete(f.on_delete, fk # None, Nullable(f))
           /\ Indexed(f)
           /\ f.generated = None \/ f.default = None
           /\ ColumnType(f) # None
        THEN [name |-> ColumnName(f), sql_type |-> ColumnType(f), nullable |-> Nullable(f),
              pk |-> f.pk, unique |-> f.unique, index |-> f.index, index_method |-> f.index_method,
              opclass |-> f.opclass, generated |-> f.generated, default |-> f.default,
              references |-> fk, on_delete |-> IF f.on_delete = None THEN "no action" ELSE f.on_delete]
        ELSE Rejected

(* Relation markers are not columns; an index names columns of the table.  *)
parse_table(d, table_of_ident) ==
    LET fields == SelectSeq(d.fields, LAMBDA f : ~is_relation(f))
        columns == [i \in DOMAIN fields |-> parse_column(fields[i], table_of_ident)]
        meta == table_meta(d)
    IN  IF /\ d.named_fields /\ Rejected \notin ToSet(columns) /\ meta # Rejected
           /\ \A x \in meta.indexes : x.columns \subseteq {c.name : c \in ToSet(columns)}
        THEN [meta |-> meta, columns |-> columns]
        ELSE Rejected

parse_role(d) ==
    IF ~d.other /\ d.name # None /\ validate_identifier(d.name)
    THEN [name |-> d.name, flags |-> d.flags] ELSE Rejected

(* Two passes: the identifiers of all tables, then each table.             *)
build_schema(inputs) ==
    LET structs == SelectSeq(inputs, LAMBDA d : d.derive = "Table")
        idents == {d.ident : d \in ToSet(structs)}
        table_of_ident == [n \in idents |-> Last(SelectSeq(structs, LAMBDA d : d.ident = n)).name]
        tables == {parse_table(d, table_of_ident) : d \in ToSet(structs)}
        roles == {parse_role(d) : d \in {e \in ToSet(inputs) : e.derive = "Role"}}
    IN  IF Rejected \in tables \cup roles THEN Rejected ELSE [tables |-> tables, roles |-> roles]

parse_schema_path(s) ==
    LET inputs == collect_file(s.files, s.entry)
    IN  IF Rejected \in ToSet(inputs) THEN Rejected ELSE build_schema(inputs)

(* What `gen` demands of the snapshot it loads before rendering it.        *)
validate_schema(schema) ==
    /\ \A r \in schema.roles : validate_identifier(r.name)
    /\ \A t \in schema.tables :
        /\ validate_identifier(t.meta.name)
        /\ \A c \in ToSet(t.columns) :
            /\ validate_identifier(c.name)
            /\ c.index_method # None => is_sql_identifier(c.index_method, FALSE)
            /\ c.opclass # None => is_sql_identifier(c.opclass, TRUE)
        /\ \A x \in t.meta.indexes : validate_index(x)
        /\ \A r \in DOMAIN t.meta.grants : validate_identifier(r)
        /\ \A p \in t.meta.policies :
            /\ \A n \in {p.name} \cup p.roles : validate_identifier(n)
            /\ check_policy_clauses(p.command, p.using, p.check)

-----------------------------------------------------------------------------
(* The derive macros.                                                      *)

ident_error(name) == name \in Unsafe

validate_index_entry(e, field_names) ==
    /\ e.heads = 1 /\ ~ident_error(e.index.name)
    /\ e.index.columns # {} /\ e.index.columns \subseteq field_names
    /\ e.index.method # None => is_sql_identifier(e.index.method, FALSE)
    /\ e.index.predicate # ""

validate_policy_entry(e) ==
    LET policy == parse_policy_entry(e)
    IN  policy # Rejected /\ \A n \in {policy.name} \cup policy.roles : ~ident_error(n)
validate_grant_entry(e) ==
    LET grant == parse_grant_entry(e)
    IN  grant # Rejected /\ ~ident_error(grant.role)

(* Index columns are matched with the names of the fields.                 *)
table_attrs(d) ==
    LET field_names == {f.ident : f \in {g \in ToSet(d.fields) : ~is_relation(g)}}
    IN  /\ ~d.other /\ d.name # None
        /\ \A e \in ToSet(d.indexes) : validate_index_entry(e, field_names)
        /\ \A e \in ToSet(Policies(d)) : validate_policy_entry(e)
        /\ \A e \in ToSet(d.grants) : validate_grant_entry(e)
        /\ d.force_rls => d.rls
        /\ d.policies # None => d.rls

(* Only the literal form is checked; a path is left to rustc.              *)
parse_references(ref) ==
    ref.form = "named" =>
        LET target == split_table_column(ref.parts)
        IN  target # Rejected /\ \A n \in ToSet(target) : ~ident_error(n)

KeyActionOnly(f) == f.on_delete # None => f.references # None     \* mutant: the other checks are left to the CLI
validate_column(f) ==
    /\ f.on_delete # None =>
        /\ f.references # None
        /\ f.on_delete \in {"cascade", "restrict", "set null", "no action"}
        /\ f.on_delete = "set null" => Nullable(f)
    /\ Indexed(f)
    /\ f.generated = None \/ f.default = None

derive_column(f) ==
    /\ ~f.other /\ ~ident_error(ColumnName(f))
    /\ f.references # None => parse_references(f.references)
    /\ validate_column(f)
    /\ ColumnType(f) # None

Columns(d) == SelectSeq(d.fields, LAMBDA f : ~is_relation(f))
StoredColumns(d) == SelectSeq(Columns(d), LAMBDA f : f.generated = None)
Pk(d) == LET keys == SelectSeq(StoredColumns(d), LAMBDA f : f.pk)
         IN  [i \in DOMAIN keys |-> <<keys[i].ty, keys[i].option>>]

(* rustc (external): the struct a path names, wherever it is declared.     *)
Target(structs, ref) ==
    {d \in ToSet(structs) : d.derive = "Table" /\ d.ident = ref.ident /\ d.at = ref.at}

(* The referencing field, its Option removed, has the key type.            *)
fk_check(structs, f) ==
    f.references # None /\ f.references.form = "typed" =>
        \E d \in Target(structs, f.references) : Pk(d) = <<<<f.ty, FALSE>>>>

on_delete_tokens(f) == IF f.on_delete = None THEN "no action" ELSE f.on_delete

(* The constants of the generated Table impl.                              *)
column_literal(structs, f) ==
    [name |-> ColumnName(f), sql_type |-> ColumnType(f), nullable |-> Nullable(f), pk |-> f.pk,
     unique |-> f.unique, index |-> f.index, index_method |-> f.index_method, opclass |-> f.opclass,
     generated |-> None, default |-> f.default, on_delete |-> on_delete_tokens(f),
     references |-> IF f.references = None THEN None
                    ELSE IF f.references.form = "named" THEN f.references.parts
                    ELSE <<(CHOOSE d \in Target(structs, f.references) : TRUE).name, f.references.column>>]

(* The insert companion: defaulted columns are optional, generated ones    *)
(* are left out.                                                           *)
emit_insertable(d) ==
    LET Names(test(_)) == LET cs == SelectSeq(StoredColumns(d), test)
                          IN  [i \in DOMAIN cs |-> ColumnName(cs[i])]
    IN  [required |-> Names(LAMBDA f : f.default = None), optional |-> Names(LAMBDA f : f.default # None)]

expand(structs, d) ==
    IF /\ table_attrs(d) /\ ~ident_error(d.name) /\ d.named_fields
       /\ \A f \in ToSet(Columns(d)) : derive_column(f) /\ fk_check(structs, f)
    THEN LET stored == StoredColumns(d)
         IN  [name |-> d.name, insert |-> emit_insertable(d),
              columns |-> [i \in DOMAIN stored |-> column_literal(structs, stored[i])]]
    ELSE Rejected

expand_role(d) == IF ~d.other /\ d.name # None /\ ~ident_error(d.name) THEN [name |-> d.name] ELSE Rejected

-----------------------------------------------------------------------------
(* rustc (external): which file each module is.  A #[path] inside an       *)
(* inline module starts at the directory of that module, and a file found  *)
(* through #[path] has its own modules beside it, like a mod.rs.           *)

RECURSIVE rustc_items(_, _, _, _)
rustc_items(files, items, path_dir, base) ==
    LET OfFile(file, beside) ==
            rustc_items(files, files[file], file.dir,
                        IF beside \/ file.stem = "mod" THEN file.dir ELSE Append(file.dir, file.stem))
        OfMod(item) ==
            LET inner == Append(base, item.name)
                file == resolve_mod_file(files, path_dir, base, item)
            IN  IF item.inline # None THEN rustc_items(files, item.inline, inner, inner)
                ELSE IF file = Rejected THEN <<Rejected>> ELSE OfFile(file, item.path # None)
    IN  FlattenSeq([i \in DOMAIN items |->
            IF items[i].kind = "mod" THEN OfMod(items[i]) ELSE <<items[i]>>])

rustc_structs(s) == rustc_items(s.files, s.files[s.entry], s.entry.dir, child_base_dir(s.entry))

(* The tables and roles of a program that compiles.                        *)
Compile(s) ==
    LET structs == rustc_structs(s)
        of(kind) == {d \in ToSet(structs) : d.derive = kind}
        tables == {expand(structs, d) : d \in of("Table")}
        roles == {expand_role(d) : d \in of("Role")}
    IN  IF Rejected \in ToSet(structs) \/ Rejected \in tables \cup roles
        THEN Rejected ELSE [tables |-> tables, roles |-> roles]

-----------------------------------------------------------------------------
(* Specification: either reader may run first, and neither knows of the    *)
(* other.                                                                  *)

ReadersInit == source \in Sources /\ cli = Unread /\ compiled = Unread

CliReads ==
    /\ cli = Unread
    /\ cli' = parse_schema_path(source)
    /\ UNCHANGED <<source, compiled>>

DeriveReads ==
    /\ compiled = Unread
    /\ compiled' = Compile(source)
    /\ UNCHANGED <<source, cli>>

ReadersNext == CliReads \/ DeriveReads

-----------------------------------------------------------------------------
(* Where the readers are known to part.                                    *)

AllStructs(s) == {d \in ToSet(rustc_structs(s)) : d # Rejected}
AllTables(s) == {d \in AllStructs(s) : d.derive = "Table"}
FieldsOf(d) == ToSet(Columns(d))

(* A #[path] within an inline module of a file that is not a mod.rs, and   *)
(* modules of a file that #[path] names or that is called lib or main.     *)
HasMod(items) == \E i \in DOMAIN items : items[i].kind = "mod"
RECURSIVE InlinePath(_, _)
InlinePath(items, inline) ==
    \E i \in DOMAIN items : items[i].kind = "mod" /\
        IF items[i].inline # None THEN InlinePath(items[i].inline, TRUE)
        ELSE inline /\ items[i].path # None
NamedByPath(s, file) ==
    \E p \in DOMAIN s.files : \E i \in DOMAIN s.files[p] :
        LET item == s.files[p][i]
        IN  /\ item.kind = "mod" /\ item.inline = None /\ item.path # None
            /\ file = [dir |-> p.dir \o item.path.dir, stem |-> item.path.stem]
PathModules(s) ==
    \E p \in DOMAIN s.files :
        \/ InlinePath(s.files[p], FALSE) /\ p.stem # "mod"
        \/ /\ HasMod(s.files[p]) /\ p # s.entry
           /\ (NamedByPath(s, p) /\ p.stem # "mod") \/ p.stem \in {"lib", "main"}

(* The derive is named by a path, which the CLI does not match.            *)
QualifiedDerive(s) == \E d \in AllStructs(s) : d.qualified

(* An index over a renamed column: the derive matches the names of the     *)
(* fields, the CLI those of the columns.                                   *)
RenamedIndexColumn(s) ==
    \E d \in AllTables(s) : \E e \in ToSet(d.indexes), f \in FieldsOf(d) :
        ColumnName(f) # f.ident /\ e.index.columns \cap {f.ident, f.name} # {}

DuplicateIndex(s) ==
    \E d \in AllTables(s) : \E i, j \in DOMAIN d.indexes :
        i # j /\ d.indexes[i].index.name = d.indexes[j].index.name

(* `policy()` without entries counts as a policy for the derive only.      *)
EmptyPolicyList(s) == \E d \in AllTables(s) : d.policies = <<>> /\ ~d.rls

(* Two tables in different modules share an identifier.                    *)
SharedIdent(s) == \E d, e \in AllTables(s) : d # e /\ d.ident = e.ident

(* A path reference rustc does not resolve, of another type than the key,  *)
(* or through a field whose own name is no identifier.                     *)
TypedReference(s) ==
    \E d \in AllTables(s) : \E f \in FieldsOf(d) :
        /\ f.references # None /\ f.references.form = "typed"
        /\ ident_error(f.references.column) \/ ~fk_check(rustc_structs(s), f)

Parts(s) ==
    \/ PathModules(s) \/ QualifiedDerive(s) \/ RenamedIndexColumn(s) \/ DuplicateIndex(s)
    \/ EmptyPolicyList(s) \/ SharedIdent(s) \/ TypedReference(s)

(* The columns a table has when the CLI's migration ran: what the derive   *)
(* reads and writes, and the generated ones.                               *)
Migrated(t) == [name |-> t.meta.name, columns |-> SelectSeq(t.columns, LAMBDA c : c.generated = None)]
Mapped(t) == [name |-> t.name, columns |-> t.columns]

-----------------------------------------------------------------------------
(* PROPERTIES *)

(* Both readers accept the same sources and see the same stored columns,   *)
(* types, defaults, indexes and foreign keys in them, whatever mix of      *)
(* attributes is written, except in the seven cases of Parts.              *)
ReadersAgree ==
    cli # Unread /\ compiled # Unread /\ ~Parts(source) =>
        /\ (cli = Rejected) = (compiled = Rejected)
        /\ cli # Rejected =>
            /\ {Migrated(t) : t \in cli.tables} = {Mapped(t) : t \in compiled.tables}
            /\ {r.name : r \in cli.roles} = {r.name : r \in compiled.roles}

(* A schema the CLI accepts passes the check it makes of it as the next    *)
(* run's snapshot, so `gen` never locks itself out.                        *)
SnapshotPasses == cli \notin {Unread, Rejected} => validate_schema(cli)

(* What is migrated is what is compiled, and can be migrated again.        *)
ReadersSound == ReadersAgree /\ SnapshotPasses

=============================================================================

------------------------------- MODULE Migrate -------------------------------
(***************************************************************************)
(* The stakit-orm command line: `gen` writes a migration from the schema   *)
(* in the source files and the snapshot of the last one, `up` and `down`   *)
(* apply and revert migrations (orm-cli main.rs and migrate.rs).           *)
(***************************************************************************)
EXTENDS SchemaDiff

CONSTANTS
    Families,        \* named sets of schemas; a project edits within one of them
    MaxMigrations,   \* bound: migrations written
    MaxTorn          \* bound: gen runs that fail between their writes

(* Roles a grant or a policy names without a declaration.  gen warns: the  *)
(* migration fails unless the role was created out of band.                *)
undeclared_role_refs(s) ==
    UNION {DOMAIN s.tables[t].grants
           \cup UNION {s.tables[t].policies[p].roles : p \in DOMAIN s.tables[t].policies} :
           t \in DOMAIN s.tables} \ DOMAIN s.roles

ASSUME RolesDeclared ==
    \A f \in DOMAIN Families : \A s \in Families[f] : undeclared_role_refs(s) = {}

VARIABLES
    family,     \* the name of the schemas this project moves between
    snapshot,   \* .snapshot.json
    dir,        \* the migrations directory: up and down files, oldest first
    writing,    \* the files a running gen has still to write
    db,         \* the database's catalogue
    applied,    \* rows of _sqlx_migrations: the first `applied` migrations
    history     \* the transition each gen made, and whether it saved it

vars == <<family, snapshot, dir, writing, db, applied, history>>

NoSchema == [tables |-> NoNames, roles |-> NoNames]
NoFile == <<>>        \* a down migration always has a statement
Idle == <<>>

(* The database a schema describes.                                        *)
Build(s) ==
    [roles |-> s.roles,
     tables |-> [t \in DOMAIN s.tables |->
        [columns |-> [c \in DOMAIN s.tables[t].columns |-> Stored(s.tables[t].columns[c])],
         rls |-> s.tables[t].rls, force_rls |-> s.tables[t].force_rls,
         grants |-> [r \in DOMAIN s.tables[t].grants |-> Granted(s.tables[t].grants[r])],
         policies |-> s.tables[t].policies]],
     indexes |->
        LET single == {<<t, c>> \in UNION {{t} \X DOMAIN s.tables[t].columns : t \in DOMAIN s.tables} :
                          s.tables[t].columns[c].index}
            many == UNION {{t} \X DOMAIN s.tables[t].indexes : t \in DOMAIN s.tables}
        IN  [n \in {index_name(x[1], x[2]) : x \in single} \cup {NamedIndex(x[2]) : x \in many} |->
               IF n[1] = "idx" THEN [table |-> n[2], cols |-> {n[3]}, def |-> 0]
               ELSE LET t == CHOOSE u \in DOMAIN s.tables : n[2] \in DOMAIN s.tables[u].indexes
                        i == s.tables[t].indexes[n[2]]
                    IN  [table |-> t, cols |-> i.cols, def |-> i.def]]]

(* The resolver's possible answers: for each table in both schemas, the    *)
(* removed column each added one replaces, or 0.                           *)
Answers(old, new) ==
    LET common == DOMAIN old.tables \cap DOMAIN new.tables
        added(t) == DOMAIN new.tables[t].columns \ DOMAIN old.tables[t].columns
        removed(t) == DOMAIN old.tables[t].columns \ DOMAIN new.tables[t].columns
        perTable(t) == {f \in [added(t) -> removed(t) \cup {0}] :
                            \A a, b \in added(t) : f[a] = f[b] /\ f[a] # 0 => a = b}
    IN  {f \in [common -> UNION {perTable(t) : t \in common}] : \A t \in common : f[t] \in perTable(t)}

-----------------------------------------------------------------------------
Init ==
    /\ family \in DOMAIN Families
    /\ snapshot = NoSchema /\ dir = <<>> /\ writing = Idle
    /\ db = EmptyDb /\ applied = 0 /\ history = <<>>

(* run_gen up to the first write: read the source and the snapshot, diff,  *)
(* and write the up file.  Without changes nothing is written, and the     *)
(* snapshot is left as it is.                                              *)
GenUp(new) ==
    /\ writing = Idle /\ Len(dir) < MaxMigrations
    /\ \E answers \in Answers(snapshot, new) :
         LET changes == diff(snapshot, new, answers)
         IN  /\ changes # <<>>
             /\ dir' = Append(dir, [up |-> up_sql(changes), down |-> NoFile])
             /\ writing' = <<down_sql(changes)>>
             /\ history' = Append(history, [old |-> snapshot, new |-> new,
                                           answers |-> answers, saved |-> FALSE])
    /\ UNCHANGED <<family, snapshot, db, applied>>

GenDown ==
    /\ writing # Idle /\ dir[Len(dir)].down = NoFile
    /\ dir' = [dir EXCEPT ![Len(dir)].down = writing[1]]
    /\ UNCHANGED <<family, snapshot, writing, db, applied, history>>

SnapshotForgotten ==                          \* mutant: the snapshot is not written
    /\ writing # Idle /\ dir[Len(dir)].down # NoFile
    /\ history' = [history EXCEPT ![Len(history)].saved = TRUE]
    /\ writing' = Idle
    /\ UNCHANGED <<family, snapshot, dir, db, applied>>
GenSave ==
    /\ writing # Idle /\ dir[Len(dir)].down # NoFile
    /\ snapshot' = history[Len(history)].new
    /\ history' = [history EXCEPT ![Len(history)].saved = TRUE]
    /\ writing' = Idle
    /\ UNCHANGED <<family, dir, db, applied>>

(* A later write fails, or the process dies: the files so far stay.        *)
GenTorn ==
    /\ writing # Idle
    /\ Cardinality({i \in DOMAIN history : ~history[i].saved}) <= MaxTorn
    /\ writing' = Idle
    /\ UNCHANGED <<family, snapshot, dir, db, applied, history>>

(* `up` runs the pending migrations in order, each in a transaction with   *)
(* its row in the tracking table, and stops at the first that fails.       *)
apply ==
    /\ writing = Idle /\ applied < Len(dir)
    /\ Run(db, dir[applied + 1].up).ok
    /\ db' = Run(db, dir[applied + 1].up).db
    /\ applied' = applied + 1
    /\ UNCHANGED <<family, snapshot, dir, writing, history>>

(* `down` reverts the newest applied migration; one without a down file is *)
(* left applied.                                                           *)
OnlyUnrecorded ==                             \* mutant: the row goes, the down file is not run
    /\ writing = Idle /\ applied > 0
    /\ dir[applied].down # NoFile
    /\ applied' = applied - 1
    /\ UNCHANGED <<family, snapshot, dir, writing, db, history>>
revert ==
    /\ writing = Idle /\ applied > 0
    /\ dir[applied].down # NoFile
    /\ Run(db, dir[applied].down).ok
    /\ db' = Run(db, dir[applied].down).db
    /\ applied' = applied - 1
    /\ UNCHANGED <<family, snapshot, dir, writing, history>>

Next ==
    \/ \E new \in Families[family] : GenUp(new)
    \/ GenDown \/ GenSave \/ GenTorn \/ apply \/ revert

Spec == Init /\ [][Next]_vars

-----------------------------------------------------------------------------
(* Transitions the generated order cannot express.  h is a transition: the *)
(* old and the new schema and the resolver's answers.                      *)

Both(h) == DOMAIN h.old.tables \cap DOMAIN h.new.tables
Gone(h) == DOMAIN h.old.tables \ DOMAIN h.new.tables
Fresh(h) == DOMAIN h.new.tables \ DOMAIN h.old.tables
AddedTo(h, t) == {c \in DOMAIN h.answers[t] : h.answers[t][c] = 0}
RenamedIn(h, t) == {h.answers[t][c] : c \in DOMAIN h.answers[t]} \ {0}
DroppedFrom(h, t) ==
    (DOMAIN h.old.tables[t].columns \ DOMAIN h.new.tables[t].columns) \ RenamedIn(h, t)
SuccessorOf(h, t, c) ==
    IF c \in RenamedIn(h, t) THEN CHOOSE d \in DOMAIN h.answers[t] : h.answers[t][d] = c ELSE c
Kept(h, t) == DOMAIN h.old.tables[t].columns \ DroppedFrom(h, t)

(* A foreign key follows the column it points at when that is renamed.     *)
Followed(h, fk) ==
    IF fk = NoRef \/ fk.table \notin Both(h) THEN fk
    ELSE [fk EXCEPT !.column = SuccessorOf(h, fk.table, @)]

(* A kept column's index, key, default, uniqueness or expression changes:  *)
(* the diff compares types and nullability only.  A renamed indexed column *)
(* keeps its index under the old name.                                     *)
Untracked(h) ==
    \E t \in Both(h) : \E c \in Kept(h, t) :
        LET a == h.old.tables[t].columns[c]
            b == h.new.tables[t].columns[SuccessorOf(h, t, c)]
        IN  \/ a.index # b.index \/ Followed(h, a.fk) # b.fk \/ a.rest # b.rest
            \/ c \in RenamedIn(h, t) /\ a.index

(* Created, or dropped, tables whose keys form a cycle.                    *)
CyclicKeys(defs, names) ==
    \E S \in SUBSET names : S # {} /\ \A t \in S : DependsOnUnplaced(defs, t, S, {})

(* A kept table drops its key column together with the table it points at: *)
(* tables are dropped first.                                               *)
DropsKeyLate(h) ==
    \E t \in Both(h) : \E c \in DOMAIN h.old.tables[t].columns :
        LET fk == h.old.tables[t].columns[c].fk IN fk # NoRef /\ fk.table \in Gone(h)

(* A key is added before the column it points at has its name, or dropped  *)
(* after that column is dropped or renamed.                                *)
KeyColumnLate(h) ==
    LET Points(def, cols, u, d) == \E c \in cols : def[c].fk = [table |-> u, column |-> d]
    IN  \E u \in Both(h) :
          \/ \E d \in DOMAIN h.answers[u] :
               \/ \E t \in Fresh(h) :
                    Points(h.new.tables[t].columns, DOMAIN h.new.tables[t].columns, u, d)
               \/ \E t \in Both(h) : t < u /\ Points(h.new.tables[t].columns, AddedTo(h, t), u, d)
          \/ \E d \in DroppedFrom(h, u) \cup RenamedIn(h, u) :
               \E t \in Both(h) : t > u /\ Points(h.old.tables[t].columns, DroppedFrom(h, t), u, d)

(* An old policy reads a column that is dropped, renamed or altered, or an *)
(* old index covers one dropped or renamed: columns change first, and in   *)
(* the down migration last.                                                *)
ColumnInUse(h) ==
    \E t \in Both(h) :
        LET moved == DroppedFrom(h, t) \cup RenamedIn(h, t)
            altered == {c \in DOMAIN h.old.tables[t].columns \cap DOMAIN h.new.tables[t].columns :
                          type_differs(h.old.tables[t].columns[c], h.new.tables[t].columns[c])}
            old == h.old.tables[t]
        IN  \/ \E p \in DOMAIN old.policies : old.policies[p].cols \cap (moved \cup altered) # {}
            \/ \E i \in DOMAIN old.indexes : old.indexes[i].cols \cap moved # {}

(* An index name is taken over by a table handled before its old owner.    *)
IndexMovesUp(h) ==
    \E t \in Both(h), u \in Both(h) \cup Fresh(h) :
        /\ u \in Fresh(h) \/ u < t
        /\ \E i \in DOMAIN h.old.tables[t].indexes \cap DOMAIN h.new.tables[u].indexes :
              u \in Fresh(h) \/ i \notin DOMAIN h.old.tables[u].indexes

Awkward(h) ==
    \/ Untracked(h)
    \/ CyclicKeys(h.old.tables, Gone(h)) \/ CyclicKeys(h.new.tables, Fresh(h))
    \/ DropsKeyLate(h) \/ KeyColumnLate(h)
    \/ ColumnInUse(h)
    \/ IndexMovesUp(h)

(* Up leads from the old schema's database to the new one's, and down back.*)
Works(h) ==
    LET changes == diff(h.old, h.new, h.answers)
        forward == Run(Build(h.old), up_sql(changes))
        back == Run(Build(h.new), down_sql(changes))
    IN  /\ forward = [ok |-> TRUE, db |-> Build(h.new)]
        /\ back = [ok |-> TRUE, db |-> Build(h.old)]

(* The generated order applies cleanly and is exactly reversed by the down *)
(* migration, for every transition but the ones named above; those fail in *)
(* one direction or leave the database different from the schema (diff,    *)
(* up_sql and down_sql).                                                   *)
CleanUnlessAwkward ==
    history # <<>> => (Works(history[Len(history)]) <=> ~Awkward(history[Len(history)]))

Replay(n) == Run(EmptyDb, FlattenSeq([i \in 1..n |-> dir[i].up]))
Tame == \A i \in DOMAIN history : ~Awkward(history[i])

(* A new database that runs the whole directory becomes the one the        *)
(* snapshot describes.  When a gen was torn before it saved the snapshot   *)
(* and the same schema is generated again, the directory is either refused *)
(* or still right: it never ends elsewhere (run_gen writes the snapshot    *)
(* last).                                                                  *)
DirectoryReplays ==
    writing = Idle /\ Tame =>
        LET all == Replay(Len(dir))
            last == history[Len(history)]
        IN  /\ (\A i \in DOMAIN history : history[i].saved) => all.ok /\ all.db = Build(snapshot)
            /\ Len(dir) > 0 /\ last.saved /\ all.ok
               /\ (\A i \in DOMAIN history : history[i].saved \/ history[i].new = last.new)
               => all.db = Build(snapshot)

(* However often `up` and `down` alternate, the database is what its       *)
(* applied migrations make of an empty one (apply, revert).                *)
DbFollowsDirectory ==
    Tame /\ (\A i \in 1..applied : history[i].saved) => db = Replay(applied).db
=============================================================================

----------------------------- MODULE MCMigrate -----------------------------
(* Families of schemas, each about one part of the diff.                   *)
EXTENDS Migrate, TLC

Fk(t) == [table |-> t, column |-> 1]
Col(type, index, fk, rest) ==
    [type |-> type, nullable |-> FALSE, index |-> index, fk |-> fk, rest |-> rest]
Plain1 == Col(1, FALSE, NoRef, 0)
Bare(columns) == [columns |-> columns, rls |-> FALSE, force_rls |-> FALSE,
                  policies |-> NoNames, grants |-> NoNames, indexes |-> NoNames]
Schema(tables, roles) == [tables |-> tables, roles |-> roles]
Partial(S, T) == UNION {[D -> T] : D \in SUBSET S}

(* One table: its columns come, go, change and are renamed.                *)
ColumnFamily ==
    {Schema([t \in {1} |-> Bare(With(extra, 1, Plain1))], NoNames) :
        extra \in Partial({2, 3}, {Plain1, Col(2, TRUE, NoRef, 0), Col(1, TRUE, NoRef, 1)})}
    \cup {NoSchema}

(* Tables that reference each other.                                       *)
FkFamily ==
    {Schema([t \in D |-> Bare(IF f[t] = 0 THEN [c \in {1} |-> Plain1]
                              ELSE (1 :> Plain1) @@ (2 :> Col(1, FALSE, Fk(f[t]), 0)))], NoNames) :
        <<D, f>> \in {<<D, f>> \in (SUBSET (1..3)) \X [1..3 -> 0..3] :
            \A t \in 1..3 : IF t \in D THEN f[t] = 0 \/ f[t] \in D ELSE f[t] = 0}}

(* A key that points at a column which comes, goes and is renamed.         *)
RefFamily ==
    {Schema((parent :> Bare([c \in {1, d} |-> Plain1]))
            @@ (3 - parent :> Bare([c \in {1, e} |->
                   IF c = 1 THEN Plain1 ELSE Col(1, FALSE, [table |-> parent, column |-> d], 0)])), NoNames) :
        parent \in {1, 2}, d \in 1..3, e \in {1, 2}}
    \cup {Schema((parent :> Bare(1 :> Plain1)), NoNames) : parent \in {1, 2}}

(* Roles, grants, policies and row-level security on one table.            *)
AccessFamily ==
    {Schema([t \in {1} |-> [Bare((1 :> Plain1) @@ (IF 2 \in UNION {pols[p].cols : p \in DOMAIN pols} \/ more
                                 THEN (2 :> Plain1) ELSE NoNames))
                 EXCEPT !.rls = (DOMAIN pols # {}), !.policies = pols, !.grants = grants]], roles) :
        pols \in Partial({1}, {[roles |-> {1}, cols |-> {2}, def |-> 0], [roles |-> {}, cols |-> {1}, def |-> 1]}),
        more \in BOOLEAN,
        grants \in Partial({1}, {{"Select"}, {"All"}, {"Select", "All"}}),
        roles \in {(1 :> 0), (1 :> 1)}}
    \cup {Schema([t \in {1} |-> Bare(1 :> Plain1)], NoNames)}

(* Table-level indexes on two tables; index names are unique in a schema.  *)
IndexFamily ==
    {Schema([t \in {1, 2} |-> [Bare(IF t = 1 THEN cols ELSE (1 :> Plain1)) EXCEPT !.indexes =
                 IF t = owner THEN ix ELSE NoNames]], NoNames) :
        cols \in {(1 :> Plain1), (1 :> Plain1) @@ (2 :> Plain1), (1 :> Plain1) @@ (3 :> Plain1)},
        ix \in Partial({1}, {[cols |-> {1}, def |-> 0], [cols |-> {1}, def |-> 1]}),
        owner \in {1, 2}}
    \cup {Schema([t \in {1} |-> [Bare([c \in {1, d} |-> Plain1]) EXCEPT !.indexes =
                 (1 :> [cols |-> {1, d}, def |-> 0])]], NoNames) : d \in {2, 3}}

MCFamilies == [columns |-> ColumnFamily, keys |-> FkFamily, refs |-> RefFamily,
               access |-> AccessFamily, indexes |-> IndexFamily]
=============================================================================

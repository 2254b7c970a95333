-------------------------- MODULE MCSchemaReaders --------------------------
(* Schema sources in families, each a full product of the attributes that  *)
(* interact: one column's attributes, index entries over a renamed field,  *)
(* row-level security, references between two modules, and module trees.   *)
EXTENDS SchemaReaders

MCSqlNames == {"hnsw", "gin"}
MCQualifiedNames == {"pg.hnsw"}
MCUnsafe == {"", "long"}
MCSqlTypeOf == [i64 |-> "bigint", String |-> "text"]

Field == [ident |-> "id", ty |-> "i64", option |-> FALSE, name |-> None, pk |-> TRUE,
          unique |-> FALSE, index |-> FALSE, index_method |-> None, opclass |-> None,
          nullable |-> FALSE, default |-> None, generated |-> None, sql_type |-> None,
          references |-> None, on_delete |-> None, other |-> FALSE]
Plain == [Field EXCEPT !.ident = "b", !.pk = FALSE]
Table == [kind |-> "struct", derive |-> "Table", qualified |-> FALSE, at |-> <<>>, ident |-> "User",
          name |-> "users", rls |-> FALSE, force_rls |-> FALSE, other |-> FALSE, policies |-> None,
          grants |-> <<>>, indexes |-> <<>>, named_fields |-> TRUE, fields |-> <<Field, Plain>>]
Role == [kind |-> "struct", derive |-> "Role", qualified |-> FALSE, at |-> <<>>, ident |-> "App",
         name |-> "app", flags |-> {}, other |-> FALSE]

File(dir, stem) == [dir |-> dir, stem |-> stem]
Entry == File(<<>>, "schema")
Single(items) == [entry |-> Entry, files |-> [p \in {Entry} |-> items]]
Typed(at, ident, column) == [form |-> "typed", at |-> at, ident |-> ident, column |-> column, parts |-> <<>>]
Named(parts) == [form |-> "named", parts |-> parts]

ColumnCases ==
    {Single(<<Role, [Table EXCEPT !.fields = <<Field,
        [Plain EXCEPT !.name = n, !.option = o, !.nullable = nu, !.ty = ty, !.sql_type = st,
                      !.default = d, !.generated = g]>>]>>) :
        n \in {None, "c", "long"}, o \in BOOLEAN, nu \in BOOLEAN, ty \in {"i64", "Custom", "Rel"},
        st \in {None, "t"}, d \in {None, "now()"}, g \in {None, "expr"}}

IndexedCases ==
    {Single(<<[Table EXCEPT !.fields = <<Field,
        [Plain EXCEPT !.index = i, !.index_method = m, !.opclass = c, !.unique = u, !.other = x]>>]>>) :
        i \in BOOLEAN, m \in {None, "hnsw", "a b", "pg.hnsw"}, c \in {None, "hnsw", "pg.hnsw", "a b"},
        u \in BOOLEAN, x \in BOOLEAN}

IndexEntry(name, columns) ==
    [heads |-> 1, index |-> [name |-> name, columns |-> columns, unique |-> FALSE, method |-> None, predicate |-> None]]
Entries == {IndexEntry(n, c) : n \in {"by_b", "by_c", "long"}, c \in {{}, {"b"}, {"c"}, {"id", "b"}}}
           \cup {[IndexEntry("by_b", {"b"}) EXCEPT !.index.method = m, !.index.predicate = p, !.heads = h] :
                 m \in {None, "gin", "a b"}, p \in {None, "", "b > 0"}, h \in {0, 1, 2}}
TableIndexCases ==
    {Single(<<[Table EXCEPT !.fields = <<Field, [Plain EXCEPT !.name = n, !.ty = ty]>>, !.indexes = xs]>>) :
        n \in {None, "c"}, ty \in {"i64", "Rel"},
        xs \in {<<e>> : e \in Entries} \cup {<<e, f>> : e, f \in {IndexEntry(n, {c}) : n \in {"by_b", "by_c"}, c \in {"b", "c"}}}}

Policy(commands, to, using, check) ==
    [name |-> "owner", commands |-> commands, to |-> to, using |-> using, check |-> check, other |-> FALSE]
RlsCases ==
    {Single(<<Role, [Table EXCEPT !.rls = r, !.force_rls = f, !.policies = p, !.grants = g]>>) :
        r \in BOOLEAN, f \in BOOLEAN,
        p \in {None, <<>>} \cup {<<Policy(<<"all">>, <<"app">>, "e", None)>>,
                                 <<[Policy(<<"all">>, None, "e", None) EXCEPT !.name = "long"]>>},
        g \in {<<>>} \cup {<<[role |-> w, flags |-> fl]>> : w \in {"app", "long"}, fl \in {{}, {"select"}, {"x"}}}
              \cup {<<[role |-> "app", flags |-> {"select"}], [role |-> "app", flags |-> {"all"}]>>}}
PolicyCases ==
    {Single(<<[Table EXCEPT !.rls = TRUE, !.policies = <<Policy(cs, to, u, c)>>]>>) :
        cs \in {<<>>, <<"select", "insert">>} \cup {<<x>> : x \in {"all", "select", "insert", "update", "delete", "x"}},
        to \in {None, <<"">>, <<"app", "">>, <<"long">>}, u \in {None, "", "e"}, c \in {None, "", "e"}}

ReferenceCases ==
    {Single(<<Table, [Table EXCEPT !.ident = "Other", !.name = "other", !.at = <<"m">>, !.fields = <<[Field EXCEPT !.ident = k, !.name = "id"]>>],
              [Table EXCEPT !.ident = "Post", !.name = "posts", !.fields = <<Field,
                 [Plain EXCEPT !.references = ref, !.on_delete = od, !.option = o, !.ty = ty]>>]>>) :
        k \in {"id", "long"}, o \in BOOLEAN, ty \in {"i64", "String"},
        od \in {None, "cascade", "set null", "explode"},
        ref \in {None, Named(<<"users", "id">>), Named(<<"users">>), Named(<<"a", "b", "c">>), Named(<<"users", "long">>),
                 Typed(<<>>, "User", "id"), Typed(<<"m">>, "Other", "id"), Typed(<<"m">>, "Other", "long"), Typed(<<>>, "Gone", "id")}}
NameCases ==
    {Single(<<[Role EXCEPT !.name = r, !.other = x, !.qualified = q],
              [Table EXCEPT !.name = n, !.other = y, !.qualified = q, !.named_fields = nf],
              [Table EXCEPT !.ident = i, !.at = <<"m">>, !.name = "more"],
              [Table EXCEPT !.ident = "Post", !.name = "posts",
                            !.fields = <<Field, [Plain EXCEPT !.references = Typed(at, i, "id")]>>]>>) :
        at \in {<<>>, <<"m">>}, r \in {None, "app", "long"}, n \in {None, "users", "long"}, x \in BOOLEAN, y \in BOOLEAN,
        q \in BOOLEAN, nf \in BOOLEAN, i \in {"User", "More"}}

Mod(name, path) == [kind |-> "mod", name |-> name, path |-> path, inline |-> None]
Inline(name, items) == [kind |-> "mod", name |-> name, path |-> None, inline |-> items]
T(name) == [Table EXCEPT !.name = name, !.ident = name]
TreeFiles(items, child) ==
    [p \in {Entry, File(<<"schema">>, "m"), File(<<"schema", "m">>, "mod"), File(<<>>, "m"),
            File(<<"schema", "m">>, "n"), File(<<"m">>, "n"), File(<<"schema">>, "n"),
            File(<<"schema", "o">>, "n"), File(<<"o">>, "n"), File(<<>>, "n")} |->
        IF p = Entry THEN items
        ELSE IF p.stem = "n" THEN <<[T("n") EXCEPT !.name = IF p.dir = <<>> THEN "root" ELSE p.dir[Len(p.dir)]]>>
        ELSE <<[T("m") EXCEPT !.name = IF p.stem = "mod" THEN "nested" ELSE "flat"]>> \o child]
TreeCases ==
    {[entry |-> Entry, files |-> [p \in DOMAIN TreeFiles(items, child) \ gone |-> TreeFiles(items, child)[p]]] :
        items \in {<<T("a"), m>> : m \in {Mod("m", None), Mod("m", File(<<>>, "m")), Inline("o", <<Mod("n", None)>>),
                                          Inline("o", <<Mod("n", File(<<>>, "n"))>>)}},
        child \in {<<>>, <<Mod("n", None)>>, <<Inline("o", <<T("b")>>)>>},
        gone \in SUBSET {File(<<"schema">>, "m"), File(<<"schema", "m">>, "mod"), File(<<>>, "m"), File(<<"schema", "m">>, "n"),
                         File(<<"schema", "o">>, "n")}}

MCSources == ColumnCases \cup IndexedCases \cup TableIndexCases \cup RlsCases \cup PolicyCases
             \cup ReferenceCases \cup NameCases \cup TreeCases
=============================================================================

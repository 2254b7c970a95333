------------------------------- MODULE MCOrm -------------------------------
(* One table with a key, a second unique column and a defaulted column;    *)
(* every builder with the options that change what it renders.             *)
EXTENDS Orm

Key == [unique |-> TRUE, nullable |-> FALSE, defaulted |-> FALSE, default |-> NULL]
MCSchema == [id |-> Key, email |-> [Key EXCEPT !.nullable = TRUE],
             n |-> [unique |-> FALSE, nullable |-> TRUE, defaulted |-> TRUE, default |-> 7]]
Row(i, e, m) == [id |-> i, email |-> e, n |-> m]
MCTables == {{}, {Row(1, 1, 5)}, {Row(1, 1, 5), Row(2, 2, NULL)}, {Row(1, 1, 0), Row(2, NULL, 5)}}

(* Inserts.                                                                *)
Batches ==
    {<<>>, <<Row(1, 1, 6)>>, <<Row(3, 1, 6)>>, <<[id |-> 1, email |-> 3]>>, <<[id |-> 3, email |-> NULL]>>,
     <<Row(1, 1, 6), Row(3, 3, 6)>>, <<Row(1, 3, 6), Row(1, 3, 4)>>, <<Row(3, 3, 6), Row(3, 3, 4)>>,
     <<[id |-> 1, email |-> 1], Row(3, 3, 6)>>, <<[id |-> 3, email |-> 3], [id |-> 4, email |-> 4]>>}
Guards == {<<>>, <<binary("n", "<", excluded("n"))>>, <<is_null("n"), binary("email", "<>", value(9))>>}
Guarded(target) == {LET u == on_conflict({target}) IN IF g = <<>> THEN u ELSE
                        IF Len(g) = 1 THEN where_conflict(u, g[1])
                        ELSE where_conflict(where_conflict(u, g[1]), g[2]) : g \in Guards}
ById == on_conflict({"id"})
Conflicts ==
    {NoConflict, on_conflict_do_nothing("id"), on_conflict_do_update("email"), do_nothing(on_conflict({"email"}))}
    \cup UNION {{do_update_all(u), do_update_all_except(u, {"n"})} : u \in Guarded("id") \cup Guarded("email")}
    \cup {into_insert(u) : u \in
             {ById, set(ById, "n", "excluded"), set(set(ById, "n", "add"), "email", "excluded"),
              set(ById, "n", "coalesce"), set_expr(ById, "n", db_now(TRUE)),
              set_expr(ById, "n", case_when(is_null("n"), value(1), arith(stored("n"), excluded("n"))))}}
Inserts ==
    {Insert(b, c, r, TRUE) : b \in Batches, c \in Conflicts, r \in {"", "all", "one"}}
    \cup {Insert(b, c, r, FALSE) : b \in Batches, c \in Conflicts, r \in {"all", "one"}}

(* Updates and deletes, selects.                                           *)
Raw(disjunction) == raw_pred(binary("n", ">=", value(5)), binary("email", "=", value(2)), disjunction)
Filters ==
    {<<>>, <<binary("id", "=", value(1))>>, <<not(binary("n", ">", value(4)))>>,
     <<is_null("n"), binary("id", "<>", value(1))>>,
     <<or(and(is_null("n"), is_null("email")), binary("id", "<=", value(1)))>>,
     <<Raw(TRUE)>>, <<Raw(TRUE), binary("id", "<", value(2))>>, <<binary("id", "=", value(2)), Raw(FALSE)>>,
     <<any_of("id", {1, 2})>>, <<any_of("id", {})>>, <<matches>>, <<not(contains)>>, <<spatial, is_null("n")>>,
     <<binary("n", "<", db_now(FALSE))>>}
Sets == {[c \in {} |-> NULL], [n |-> value(6)], [n |-> arith(stored("n"), value(1)), email |-> value(NULL)],
         [email |-> value(1)], [id |-> value(NULL)], [n |-> db_now(FALSE)]}
Selects ==
    {Select(f, o, m, l, s, t) : f \in Filters, o \in {"", "desc"}, m \in {"", "L2", "InnerProduct"},
        l \in {NULL, 1}, s \in {NULL, 1}, t \in {"all", "one", "exact_one", "count", "exists"}}
    \cup UNION {LET q == Select(f, "", "", NULL, NULL, t)
                IN  {nearest_geo(q), order_by_rank(q), nearest_geo(order_by_rank(q))} :
                f \in {<<>>, <<matches>>}, t \in {"all", "count"}}

(* Values: each kind, present and absent; arrays; composites.              *)
Kind(k) == [kind |-> k, opt |-> FALSE]
Opt(ty) == [ty EXCEPT !.opt = TRUE]
Texts == {<<>>, <<"a">>, <<",">>, <<"\"">>, <<"\\", "a">>, <<"(", " ", ")">>}
Payloads(k) ==
    CASE k = "Text" -> Texts
      [] k \in {"F32", "F64"} -> {"payload", NonFinite}
      [] k = "Json" -> {"payload", "json string", "json null"}
      [] k = "Serde" -> {"payload", "json string", "unserializable"}
      [] OTHER -> {"payload"}
Typed(tys, Payload(_)) == UNION {[what : {"value"}, ty : {ty}, x : Payload(ty)] : ty \in tys}
Simple == Scalars \cup {"Serde", "Vector"}
ScalarValues ==
    Typed({Kind(k) : k \in Simple}, LAMBDA ty : Payloads(ty.kind) \ {NonFinite})
    \cup Typed({Opt(Kind(k)) : k \in Simple \cup {"Geo"}}, LAMBDA ty : {None})
    \cup Typed({Kind("Geo")}, LAMBDA ty : [at : {"point"}, srid : {None, "4326"}])
Elems == {Kind(k) : k \in Scalars \cup {"Serde"}} \cup {Opt(Kind(k)) : k \in {"I32", "Json", "Serde"}}
ArrayOf(elem, opt) == [kind |-> "Array", opt |-> opt, elem |-> elem]
ArrayValues ==
    Typed({ArrayOf(e, FALSE) : e \in Elems},
          LAMBDA ty : LET p == Payloads(ty.elem.kind) \cup (IF ty.elem.opt THEN {None} ELSE {})
                      IN  {<<>>} \cup {<<a>> : a \in p} \cup {<<a, b>> : a, b \in p})
    \cup Typed({ArrayOf(Kind("I32"), TRUE)}, LAMBDA ty : {None, <<>>, <<"payload">>})
CompositeOf(fields) == [kind |-> "Composite", opt |-> FALSE, fields |-> fields]
CompositeValues ==
    Typed({CompositeOf(<<Opt(Kind("Text")), Kind("Text")>>)}, LAMBDA ty : (Texts \cup {None}) \X Texts)
    \cup Typed({CompositeOf(<<Opt(Kind(k)), Kind("Text")>>) : k \in {"I32", "Bool", "Uuid", "Date"}},
               LAMBDA ty : {"payload", None} \X Texts)
Values == ScalarValues \cup ArrayValues \cup CompositeValues

(* A joined row of two tables, the second optional; relations.             *)
Part(pk, nullable) == [columns |-> <<"a", "b">>, pk |-> pk, nullable |-> nullable]
Cells(part) == {<<x, y>> \in {NULL, 1} \X {NULL, 2} : part.pk = {1} => x # NULL}
NullCells == <<NULL, NULL>>
Joins ==
    UNION {[what : {"join"}, parts : {<<Part({1}, FALSE), Part(pk, TRUE), Part({1}, FALSE)>>},
            joined : {<< <<(<<1, 2>>), second, (<<1, third>>)>> >> : third \in {NULL, 2},
                          second \in IF gone THEN {NullCells} ELSE Cells(Part(pk, TRUE))},
            absent : {<< <<FALSE, gone, FALSE>> >>}] : pk \in {{1}, {}}, gone \in BOOLEAN}
Loads == [what : {"load"}, keys : {<<1, 2>>, <<1, 1>>, <<3, 2>>},
          children : SUBSET {[id |-> 1, fk |-> 1], [id |-> 2, fk |-> 1], [id |-> 3, fk |-> 2]},
          parents : SUBSET {[id |-> 1], [id |-> 2]}]

MCJobs == Inserts \cup {Update(x, f) : x \in Sets, f \in Filters} \cup {Delete(f) : f \in Filters} \cup Selects \cup Values \cup Joins \cup Loads
          \cup {[what |-> "tx"], [what |-> "migrate"]}
=============================================================================

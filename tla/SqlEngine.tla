----------------------------- MODULE SqlEngine -----------------------------
(***************************************************************************)
(* The databases under the ORM, as far as its statements use them: what    *)
(* each dialect accepts, three-valued predicates, and what INSERT, UPDATE, *)
(* DELETE and SELECT do to a table of rows.  A row maps columns to         *)
(* integers or NULL.                                                       *)
(***************************************************************************)
EXTENDS Integers, Sequences, SequencesExt, FiniteSets, FiniteSetsExt, Functions

CONSTANTS NULL, Err

(* Constructs a dialect's parser or catalogue does not know.  An escape    *)
(* clause of one backslash is an open string literal to MySQL, and OFFSET  *)
(* needs a LIMIT everywhere but in Postgres.                               *)
Unknown(d) ==
    CASE d = "postgres" -> {"fts5 match", "vec fn", "vector32 fn", "on duplicate key", "values()"}
      [] d = "mysql" -> {"any()", "fts5 match", "tsquery", "like escape", "spatial", "cast", "vector op",
                         "vec fn", "vector32 fn", "now minus", "on conflict", "excluded", "returning",
                         "bare offset"}
      [] d = "sqlite" -> {"any()", "tsquery", "spatial", "cast", "vector op", "vector32 fn", "now",
                          "now minus", "on duplicate key", "values()", "bare offset"}
      [] d = "turso" -> {"any()", "tsquery", "spatial", "cast", "vector op", "vec fn", "now", "now minus",
                         "on duplicate key", "values()", "bare offset"}
Accepts(d, constructs) == constructs \cap Unknown(d) = {}

-----------------------------------------------------------------------------
(* Three-valued logic: NULL is unknown.                                    *)

And3(a, b) == IF a = FALSE \/ b = FALSE THEN FALSE ELSE IF a = NULL \/ b = NULL THEN NULL ELSE TRUE
Or3(a, b) == IF a = TRUE \/ b = TRUE THEN TRUE ELSE IF a = NULL \/ b = NULL THEN NULL ELSE FALSE
Not3(a) == IF a = NULL THEN NULL ELSE ~a
Compare(a, op, b) ==
    CASE a = NULL \/ b = NULL -> NULL
      [] a # NULL /\ b # NULL /\ op = "=" -> a = b
      [] a # NULL /\ b # NULL /\ op = "<>" -> a # b
      [] a # NULL /\ b # NULL /\ op = ">" -> a > b
      [] a # NULL /\ b # NULL /\ op = "<" -> a < b
      [] a # NULL /\ b # NULL /\ op = ">=" -> a >= b
      [] a # NULL /\ b # NULL /\ op = "<=" -> a <= b
Add3(a, b) == IF a = NULL \/ b = NULL THEN NULL ELSE a + b

(* A row as it is stored: columns not named take their default.            *)
Completed(schema, given) ==
    [c \in DOMAIN schema |-> IF c \in DOMAIN given THEN given[c] ELSE schema[c].default]
Clashes(schema, keys, rows, row) ==
    {r \in rows : \E k \in keys : row[k] # NULL /\ r[k] = row[k]}
Keys(schema) == {c \in DOMAIN schema : schema[c].unique}
Valid(schema, row) == \A c \in DOMAIN schema : row[c] = NULL => schema[c].nullable

(* One VALUES row of an insert.  `target` is the conflict target, the keys *)
(* whose clash the clause handles: MySQL's clause handles any key.         *)
(* Update(old, incoming) is the SET clause, Guard its WHERE.  `touched`    *)
(* are the rows this statement inserted or updated: Postgres refuses to    *)
(* update one of them again.                                               *)
InsertOne(d, schema, st, given, target, Update(_, _), Guard(_, _), nothing) ==
    LET row == Completed(schema, given)
        handled == Clashes(schema, target, st.rows, row)
        old == CHOOSE r \in handled : TRUE
        new == Update(old, row)
        others == Clashes(schema, Keys(schema), st.rows, row) \ handled
    IN  CASE st = Err -> Err
          [] st # Err /\ ~Valid(schema, row) -> Err
          [] st # Err /\ Valid(schema, row) /\ handled = {} ->
               IF others # {} THEN Err
               ELSE [rows |-> st.rows \cup {row}, touched |-> st.touched \cup {row}]
          [] OTHER ->
               IF nothing \/ Guard(old, row) # TRUE THEN st
               ELSE IF \/ d = "postgres" /\ old \in st.touched
                       \/ ~Valid(schema, new)
                       \/ Clashes(schema, Keys(schema), st.rows \ {old}, new) # {}
                    THEN Err
                    ELSE [rows |-> (st.rows \ {old}) \cup {new},
                          touched |-> (st.touched \ {old}) \cup {new}]

(* The same UPDATE for every row that satisfies the filter.                *)
UpdateRows(schema, rows, Set(_), Keep(_)) ==
    LET hit == {r \in rows : Keep(r) = TRUE}
        new == {Set(r) : r \in hit}
        all == (rows \ hit) \cup new
    IN  IF \/ Cardinality(all) # Cardinality(rows)
           \/ \E k \in Keys(schema) : \E r, s \in all : r # s /\ r[k] = s[k] /\ r[k] # NULL
           \/ \E r \in new : ~Valid(schema, r)
        THEN Err ELSE all

(* LIMIT and OFFSET of an ordered result.                                  *)
Window(result, limit, offset) ==
    LET from == IF offset = NULL THEN 0 ELSE offset
        rest == SubSeq(result, from + 1, Len(result))
    IN  IF limit = NULL THEN rest ELSE SubSeq(rest, 1, Min({limit, Len(rest)}))
=============================================================================

----------------------------- MODULE OrmValues -----------------------------
(***************************************************************************)
(* Column values on their way to a database and back: ToValue/FromValue    *)
(* (value.rs, json.rs, vector.rs, geo.rs and the derives), composites      *)
(* (composite.rs) and the binds and reads of the four drivers.             *)
(*                                                                         *)
(* A type is [kind, opt], with `elem` for an array and `fields` for a      *)
(* composite.  A value is [t |-> variant, v |-> payload].  Text is a       *)
(* sequence of one-character strings where a composite's quoting looks     *)
(* into it; other payloads are opaque, except that a float may be          *)
(* NonFinite and a point carries its SRID or None.  Kind Json is           *)
(* serde_json::Value; Serde is a Json<T> or a map of a T that takes no     *)
(* JSON null, kept as JSON and perhaps "unserializable".                   *)
(***************************************************************************)
EXTENDS Integers, Sequences, SequencesExt

CONSTANTS Failed,      \* an Err of the conversion
          None,        \* Option::None
          NonFinite    \* an infinite float

Scalars == {"I16", "I32", "I64", "F32", "F64", "Bool", "Text", "Bytes", "Uuid",
            "Timestamptz", "NaiveDateTime", "Date", "NaiveTime", "Json"}
Dated == {"Timestamptz", "NaiveDateTime", "Date", "NaiveTime"}

Value(variant, payload) == [t |-> variant, v |-> payload]
Null == Value("Null", None)
AllOk(s) == \A i \in DOMAIN s : s[i] # Failed
Collect(s, wrapped) == IF AllOk(s) THEN wrapped ELSE Failed

-----------------------------------------------------------------------------
(* Composite text.                                                         *)

Special == {",", "(", ")", "\"", "\\", " "}
EmptyUnquoted(s) == IF s = <<>> THEN s ELSE <<"\"">> \o s \o <<"\"">>     \* mutant: no quotes, no escapes
encode_text(s) ==
    IF s # <<>> /\ ToSet(s) \cap Special = {} THEN s
    ELSE <<"\"">> \o FlattenSeq([i \in DOMAIN s |->
             IF s[i] \in {"\"", "\\"} THEN <<s[i], s[i]>> ELSE <<s[i]>>]) \o <<"\"">>

(* NULL is nothing at all; scalars other than text are written by their    *)
(* Display, dates and JSON through encode_text, anything else as "".       *)
encode_field(x) ==
    CASE x.t = "Null" -> <<>>
      [] x.t = "Text" -> encode_text(x.v)
      [] x.t \in Dated \cup {"Json"} -> <<"\"", x.t, "\"">>
      [] x.t \in Scalars \ (Dated \cup {"Json", "Bytes"}) -> <<x.t>>
      [] OTHER -> encode_text(<<>>)
encode(fields) ==
    <<"(">> \o FlattenSeq([i \in DOMAIN fields |->
        IF i = 1 THEN encode_field(fields[i]) ELSE <<",">> \o encode_field(fields[i])]) \o <<")">>

(* One character of the scanner: in quotes a doubled quote is a quote, and *)
(* a backslash takes the next character as it is.  `skip` is the character *)
(* already consumed with the one before.                                   *)
finish_field(p) == IF ~p.quoted /\ p.buffer = <<>> THEN None ELSE p.buffer
Scan(p, c, next) ==
    LET push(x) == [p EXCEPT !.buffer = @ \o x]
        take == [push(next) EXCEPT !.skip = next # <<>>]
    IN  CASE p.skip -> [p EXCEPT !.skip = FALSE]
          [] ~p.skip /\ c = "\\" -> take
          [] ~p.skip /\ p.inside /\ c = "\"" ->
               IF next = <<"\"">> THEN take ELSE [p EXCEPT !.inside = FALSE]
          [] ~p.skip /\ ~p.inside /\ c = "\"" -> [p EXCEPT !.inside = TRUE, !.quoted = TRUE]
          [] ~p.skip /\ ~p.inside /\ c = "," ->
               [p EXCEPT !.fields = Append(@, finish_field(p)), !.buffer = <<>>, !.quoted = FALSE]
          [] OTHER -> push(<<c>>)
parse(text, expected) ==
    LET start == [fields |-> <<>>, buffer |-> <<>>, inside |-> FALSE, quoted |-> FALSE, skip |-> FALSE]
        inner == SubSeq(text, 2, Len(text) - 1)
        state[i \in 0..Len(inner)] ==
            IF i = 0 THEN start
            ELSE Scan(state[i - 1], inner[i], IF i = Len(inner) THEN <<>> ELSE <<inner[i + 1]>>)
        fields == Append(state[Len(inner)].fields, finish_field(state[Len(inner)]))
    IN  IF Len(text) < 2 \/ text[1] # "(" \/ Last(text) # ")" \/ Len(fields) # expected
        THEN Failed ELSE fields

(* Dates come back as text: no kind but the ones listed is parsed.         *)
field_value(field, kind, original) ==
    CASE field = None -> Null
      [] field # None /\ kind = "Text" -> Value("Text", field)
      [] field # None /\ kind \in Dated \cup {"Bytes"} -> Value("Text", field)
      [] OTHER -> IF field = <<kind>> THEN original ELSE Failed

-----------------------------------------------------------------------------
(* Rust values and their variants.                                         *)

(* What serde cannot write becomes JSON null.                              *)
scalar_value(ty, x) ==
    CASE x = None -> Null
      [] x # None /\ ty.kind = "Serde" -> Value("Json", IF x = "unserializable" THEN "json null" ELSE x)
      [] OTHER -> Value(ty.kind, x)

(* The variant of a value of type ty.  A composite is its text; the        *)
(* parser's numbers and dates are looked up in the original.               *)
to_value(ty, x) ==
    IF ty.opt /\ x = None THEN Null
    ELSE CASE ty.kind = "Array" -> Value("Array", [i \in DOMAIN x |-> scalar_value(ty.elem, x[i])])
           [] ty.kind = "Composite" ->
                Value("Text", encode([i \in DOMAIN x |-> scalar_value(ty.fields[i], x[i])]))
           [] OTHER -> scalar_value(ty, x)

(* JSON for a T, parsed from its text where it comes as text; the text of  *)
(* a JSON string is that string without its quotes, and no JSON.           *)
from_json_cell(got) ==
    IF got.v = "json null" \/ (got.t = "Text" /\ got.v = "json string") THEN Failed ELSE got.v
from_scalar(ty, got) ==
    CASE got.t = "Null" -> IF ty.opt THEN None ELSE Failed
      [] ty.kind = "Serde" /\ got.t \in {"Json", "Text"} -> from_json_cell(got)
      [] ty.kind # "Serde" /\ got.t = ty.kind -> got.v
      [] OTHER -> Failed

(* A NULL array is an empty Vec unless the type is optional.               *)
from_value(ty, got, original) ==
    IF got.t = "Null" /\ (ty.opt \/ ty.kind # "Array") THEN IF ty.opt THEN None ELSE Failed
    ELSE CASE ty.kind = "Array" ->
                IF got.t = "Null" THEN <<>>
                ELSE LET items == [i \in DOMAIN got.v |-> from_scalar(ty.elem, got.v[i])]
                     IN  Collect(items, items)
           [] ty.kind = "Composite" ->
                LET texts == parse(got.v, Len(ty.fields))
                    items == [i \in DOMAIN ty.fields |-> from_scalar(ty.fields[i],
                                field_value(texts[i], ty.fields[i].kind,
                                            Value(ty.fields[i].kind, original[i])))]
                IN  IF texts = Failed THEN Failed ELSE Collect(items, items)
           [] ty.kind = "Geo" -> got.v
           [] OTHER -> from_scalar(ty, got)

-----------------------------------------------------------------------------
(* Arrays on backends without them travel as JSON text.                    *)

scalar_to_json(x) ==
    IF \/ x.t \in {"Null", "Bytes", "Vector", "Geo"} \/ x.v = NonFinite
       \/ x.t = "Json" /\ x.v = "json null"
    THEN Null ELSE x
json_to_scalar(j, kind) ==
    IF j.t # "Null" /\ kind = "Json" THEN Value("Text", j.v) ELSE j
array_to_json_text(items) == [i \in DOMAIN items |-> scalar_to_json(items[i])]
json_text_to_array(items, kind) == Value("Array", [i \in DOMAIN items |-> json_to_scalar(items[i], kind)])

-----------------------------------------------------------------------------
(* Into the statement and the driver's arguments.                          *)

supports_cast(d) == d = "postgres"

(* A point is wrapped in its constructor, with its SRID, where there is    *)
(* one; elsewhere its text is bound and the SRID is not.                   *)
push_geo_bind(d, x) == IF d = "postgres" THEN x ELSE [x EXCEPT !.v.srid = None]
push_bind(d, ty, x) ==
    CASE ty.kind = "Composite" -> IF supports_cast(d) THEN x ELSE Failed
      [] ty.kind # "Composite" /\ x.t = "Geo" -> push_geo_bind(d, x)
      [] OTHER -> x

(* A Postgres array: every element of its own variant, so a NULL is        *)
(* refused, and only element kinds with a native array.                    *)
bind_array(ty, items) ==
    IF ty.elem.kind \in Scalars \ {"Json"} /\ \A i \in DOMAIN items : items[i].t = ty.elem.kind
    THEN Value("Array", items) ELSE Failed
bind_null(d, ty) == IF d = "mysql" /\ ty.kind \in {"Vector", "Geo"} THEN Failed ELSE Null
bind_scalar(d, ty, x) ==
    CASE x.t \in {"Vector", "Geo"} -> IF d = "mysql" THEN Failed ELSE x
      [] x.t = "Array" ->
           IF d = "postgres" THEN bind_array(ty, x.v) ELSE Value("JsonText", array_to_json_text(x.v))
      [] OTHER -> x
bind_value(d, ty, x) ==
    IF x = Failed THEN Failed ELSE IF x.t = "Null" THEN bind_null(d, ty) ELSE bind_scalar(d, ty, x)

(* libSQL keeps integers, reals, text and blobs; everything else is text   *)
(* or an integer, parsed again on the way out.  vector32() stores a blob.  *)
to_libsql(x) ==
    CASE x.t \in {"I16", "I32", "I64", "Bool"} -> Value("Integer", x.v)
      [] x.t \in {"F32", "F64"} -> Value("Real", x.v)
      [] x.t \in {"Bytes", "Vector"} -> Value("Blob", x.v)
      [] x.t \in {"Null", "JsonText"} -> x
      [] OTHER -> Value("LibsqlText", x.v)
cell_to_value(cell, kind) ==
    CASE cell.t = "Null" -> Null
      [] cell.t = "Integer" /\ kind \in {"I16", "I32", "I64", "Bool"} -> Value(kind, cell.v)
      [] cell.t = "Real" /\ kind \in {"F32", "F64"} -> Value(kind, cell.v)
      [] cell.t = "Blob" /\ kind \in {"Bytes", "Vector"} -> Value(kind, cell.v)
      [] cell.t = "LibsqlText" /\ kind \notin {"I16", "I32", "I64", "Bool", "F32", "F64", "Bytes"} ->
           Value(kind, cell.v)
      [] OTHER -> cell

(* Reading a column.  A composite is read as text.  A Postgres geometry is *)
(* not text to the driver, and no cast makes it one.                       *)
KindOf(ty) ==
    CASE ty.kind = "Composite" -> "Text" [] ty.kind = "Serde" -> "Json" [] OTHER -> ty.kind
geo_from_text(d, cell) == IF d = "postgres" THEN Failed ELSE [cell EXCEPT !.v.srid = None]
try_value(d, ty, kept) ==
    LET cell == IF d = "turso" THEN cell_to_value(kept, KindOf(ty)) ELSE kept
    IN  CASE cell.t = "Null" -> Null
          [] cell.t = "JsonText" -> json_text_to_array(cell.v, KindOf(ty.elem))
          [] cell.t = "Geo" -> geo_from_text(d, cell)
          [] OTHER -> cell

(* An insert of x, and what a select of the column gives back.             *)
Stored(d, ty, x) ==
    LET bound == bind_value(d, ty, push_bind(d, ty, to_value(ty, x)))
    IN  IF bound = Failed THEN Failed ELSE IF d = "turso" THEN to_libsql(bound) ELSE bound
Fetched(d, ty, kept, original) ==
    LET got == try_value(d, ty, kept) IN IF got = Failed THEN Failed ELSE from_value(ty, got, original)
=============================================================================

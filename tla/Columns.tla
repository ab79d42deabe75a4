-------------------------------- MODULE Columns --------------------------------
(***************************************************************************)
(* Columns of every type: a record as text, delimited (pkg_pack) or by way  *)
(* of an object of json-c (json_pack.c), and back.  The escapes of a text   *)
(* are those of Pack.  A number is its value, the least of its range being  *)
(* null; its text is one token.  A nested structure is a pattern of its own.*)
(***************************************************************************)
EXTENDS Pack, TLC, SequencesExt

CONSTANTS
  ColumnTypes,  \* of "char", "clob", "byte", "tiny", "int", "time", "double", "struct"
  TypeBits      \* the bits of an integer type, scaled down

ASSUME ColumnsAssumption ==
  /\ ColumnTypes \subseteq {"char", "clob", "byte", "tiny", "int", "time", "double", "struct"}
  /\ \A t \in {"tiny", "int", "time"} : TypeBits[t] \in Nat \ {0, 1}

VARIABLES
  columns,  \* the pattern: of every column its type, and whether it is NOSELECT
  fields    \* a record of that pattern: of every column its type and value

columnVars == <<columns, fields>>

-----------------------------------------------------------------------------
(* netvar.c: null values *)

Integral == {"tiny", "int", "time"}
NaN == -99            \* NAN_NULL: all bits set
NoText == <<"nil">>   \* a CH_CLOB that points nowhere

NullOf(type) ==
  CASE type \in Integral -> -(2 ^ (TypeBits[type] - 1))
    [] type = "double" -> NaN
    [] type = "clob" -> NoText
    [] type = "char" -> <<>>
isnull(type, v) == type \notin {"byte", "struct"} /\ v = NullOf(type)

\* Integers that fit the type.
Fits(type) == -(2 ^ (TypeBits[type] - 1)) .. 2 ^ (TypeBits[type] - 1) - 1

-----------------------------------------------------------------------------
(* pack.c: one column *)

CharLen == 3    \* typ->len of the texts of the model
ByteLen == 2

\* The longest that a text can be: typ->len of -1.
FullWidth(s) == Len(s) + 1

HexDigits == <<"0", "1", "2", "3", "4", "5", "6", "7", "8", "9", "A", "B", "C", "D", "E", "F">>
b2h(bin) == FlattenSeq([i \in DOMAIN bin |-> <<HexDigits[(bin[i] \div 16) + 1], HexDigits[(bin[i] % 16) + 1]>>])
h_b(c) == (CHOOSE d \in 1 .. 16 : HexDigits[d] = c) - 1

\* Pairs of digits over the bytes there are; a text that ends leaves the rest.
byte_cpy(old, s) ==
  [i \in DOMAIN old |-> IF 2 * i <= Len(s) THEN h_b(s[2 * i - 1]) * 16 + h_b(s[2 * i]) ELSE old[i]]

\* A text of at most w - 1 bytes, with escapes or, when there is no delimiter, raw; half
\* a character at its end loses its high bit.
RawText(t) == IF firstcc(t, Len(t)) THEN EndCleared(t) ELSE t
Text(s, w, escaped) == IF escaped THEN get_one_str(s, w) ELSE RawText(Within(s, w))

\* get_one_str: nothing for null.  The formats of times are the library's.
ColumnText(type, v, escaped) ==
  CASE isnull(type, v) -> <<>>
    [] type = "byte" -> b2h(v)
    [] type = "clob" /\ v # NoText -> Text(v, FullWidth(v), escaped)
    [] type = "char" /\ v # <<>> -> Text(v, CharLen, escaped)
    [] type \in {"tiny", "int", "double"} /\ ~isnull(type, v) -> <<ToString(v)>>
    [] type = "time" /\ ~isnull(type, v) -> <<"T", ToString(v)>>

NumberOf(type, token) ==
  CHOOSE n \in (IF type = "double" THEN {0, 1} ELSE Fits(type)) : ToString(n) = token

\* Mutant: a number that is not there is read like any other.
AtoiPlain(type, s) == IF s = <<>> THEN 0 ELSE NumberOf(type, s[1])

\* atoi, strtol: a number that is not there is null.
Atoi(type, s) == IF s = <<>> THEN NullOf(type) ELSE NumberOf(type, s[1])

\* strcpy_esc(cp, cp, -1) from byte p on, d bytes being written: a text loses its escapes
\* where it stands, so that firstcc looks at bytes already moved.
RECURSIVE InPlace(_, _, _)
InPlace(s, p, d) ==
  IF p > Len(s) THEN SubSeq(s, 1, d)
  ELSE IF s[p] # Esc \/ (GBK_flag /\ firstcc(s, p - 1))
  THEN InPlace([s EXCEPT ![d + 1] = s[p]], p + 1, d + 1)
  ELSE IF p = Len(s) THEN SubSeq(s, 1, d)
  ELSE InPlace([s EXCEPT ![d + 1] = Meant(s[p + 1])], p + 2, d + 1)

\* put_str_one: an empty text is null for an integer or a time, 0 for a double, and
\* for a pointer the empty text it points to.
put_str_one(type, s, old, escaped) ==
  CASE type = "clob" -> IF escaped THEN InPlace(s, 1, 0) ELSE s
    [] type = "char" -> IF escaped THEN strcpy_esc(s, 1, CharLen, <<>>) ELSE Within(s, CharLen)
    [] type = "byte" -> byte_cpy(old, s)
    [] type = "double" -> IF s = <<>> THEN 0 ELSE NumberOf(type, s[1])
    [] type \in {"tiny", "int"} -> Atoi(type, s)
    [] type = "time" -> IF s = <<>> THEN NullOf(type) ELSE NumberOf(type, s[2])

\* getitem_idx and putitem_idx on a column that is there: no delimiter, no escapes.
getitem(rec, c) == ColumnText(columns[c].type, rec[c], FALSE)
putitem(rec, c, s) == [rec EXCEPT ![c] = put_str_one(columns[c].type, s, @, FALSE)]

-----------------------------------------------------------------------------
(* FullWidth records.  The structure column of the model has a pattern of two. *)

Sub == <<[type |-> "int", noselect |-> FALSE], [type |-> "char", noselect |-> FALSE]>>
Packed(cols) == {c \in DOMAIN cols : ~cols[c].noselect}
PackedSeq(cols) == SelectSeq([c \in DOMAIN cols |-> c], LAMBDA c : ~cols[c].noselect)

\* data_init: integers are null, floats 0, all else zero bytes; so the integers of a
\* nested structure are 0.
Zeros(type) == CASE type = "struct" -> <<0, <<>>>>
                 [] type = "byte" -> [i \in 1 .. ByteLen |-> 0]
                 [] type = "double" -> 0
                 [] type \in Integral \cup {"clob", "char"} -> NullOf(type)
data_init(cols) == [c \in DOMAIN cols |-> Zeros(cols[c].type)]

\* pkg_pack
RECURSIVE pack_columns(_, _)
pack_columns(cols, rec) ==
  FlattenSeq([k \in DOMAIN PackedSeq(cols) |->
    LET c == PackedSeq(cols)[k]
    IN IF cols[c].type = "struct" THEN pack_columns(Sub, rec[c])
       ELSE ColumnText(cols[c].type, rec[c], TRUE) \o <<Dlm>>])

\* pkg_dispack from column c: the record and what is left of the text.  The end of
\* the text is noticed behind a column, but not behind a structure.
RECURSIVE DispackFrom(_, _, _, _)
dispack_columns(cols, rec, text) ==
  IF text = <<>> THEN [rec |-> rec, rest |-> text] ELSE DispackFrom(cols, rec, 1, text)
DispackFrom(cols, rec, c, text) ==
  LET end == stptok(text, 1)
      rest == SubSeq(text, end + 1, Len(text))
      got == put_str_one(cols[c].type, SubSeq(text, 1, end - 1), rec[c], TRUE)
      inner == dispack_columns(Sub, rec[c], text)
  IN IF c > Len(cols) THEN [rec |-> rec, rest |-> text]
     ELSE IF cols[c].noselect THEN DispackFrom(cols, rec, c + 1, text)
     ELSE IF cols[c].type = "struct"
     THEN DispackFrom(cols, [rec EXCEPT ![c] = inner.rec], c + 1, inner.rest)
     ELSE IF rest = <<>> THEN [rec |-> [rec EXCEPT ![c] = got], rest |-> <<>>]
     ELSE DispackFrom(cols, [rec EXCEPT ![c] = got], c + 1, rest)

-----------------------------------------------------------------------------
(* json_pack.c.  An object is a function from its members, by column. *)

\* stu_to_json without a list: a text for each column; null pointers are left out.
RECURSIVE json_of(_, _)
json_of(cols, rec) ==
  [c \in {d \in Packed(cols) : ~(cols[d].type = "clob" /\ rec[d] = NoText)} |->
     IF cols[c].type = "struct" THEN json_of(Sub, rec[c])
     ELSE IF cols[c].type \in {"char", "clob"} THEN rec[c]
     ELSE ColumnText(cols[c].type, rec[c], FALSE)]

\* json_toStr: escapes are made here.
RECURSIVE json_toStr(_, _)
json_toStr(cols, json) ==
  FlattenSeq([k \in DOMAIN PackedSeq(cols) |->
    LET c == PackedSeq(cols)[k]
    IN IF cols[c].type = "struct" THEN json_toStr(Sub, json[c])
       ELSE (IF c \in DOMAIN json THEN get_one_str(json[c], FullWidth(json[c])) ELSE <<>>) \o <<Dlm>>])

\* json_to_sdbc: the members of a flat object, in their order.
json_to_sdbc(cols, json) ==
  FlattenSeq([k \in 1 .. Cardinality(DOMAIN json) |->
    LET c == SelectSeq(PackedSeq(cols), LAMBDA d : d \in DOMAIN json)[k]
    IN get_one_str(json[c], FullWidth(json[c])) \o <<Dlm>>])

RECURSIVE struct_of(_, _, _)
struct_of(cols, rec, json) ==
  [c \in DOMAIN cols |->
     IF c \notin DOMAIN json THEN rec[c]
     ELSE IF cols[c].type = "struct" THEN struct_of(Sub, rec[c], json[c])
     ELSE put_str_one(cols[c].type, json[c], rec[c], FALSE)]

-----------------------------------------------------------------------------
(* Any pattern of two columns, any record. *)

Values(type) ==
  CASE type \in Integral -> {NullOf(type), 0, 2 ^ (TypeBits[type] - 1) - 1}
    [] type = "double" -> {NaN, 0, 1}
    [] type = "char" -> {<<>>, <<Dlm, "n">>, <<Esc>>}
    [] type = "clob" -> {NoText, <<>>, <<NewLine, Esc, Dlm>>, <<Half, Esc, Dlm>>, <<Dlm, Half, Esc>>}
    [] type = "byte" -> {<<0, 255>>, <<26, 160>>}
    [] type = "struct" -> {<<0, <<>>>>, <<NullOf("int"), <<Dlm>>>>, <<1, <<"G", Esc>>>>}

Records(cols) ==
  IF Len(cols) = 1 THEN {<<v>> : v \in Values(cols[1].type)}
  ELSE {<<v, w>> : v \in Values(cols[1].type), w \in Values(cols[2].type)}
Typed(cols, rec) == [c \in DOMAIN cols |-> <<cols[c].type, rec[c]>>]
TheRecord == [c \in DOMAIN fields |-> fields[c][2]]

ColumnsInit == columns = <<>> /\ fields = <<>>

GiveColumns ==
  /\ columns = <<>>
  /\ \E n \in 1 .. 2 : columns' \in [1 .. n -> [type : ColumnTypes, noselect : BOOLEAN]]
  /\ fields' = Typed(columns', data_init(columns'))
  /\ GBK_flag' \in BOOLEAN
  /\ UNCHANGED <<value, width, bytes>>

GiveFields ==
  /\ columns # <<>> /\ TheRecord = data_init(columns)
  /\ fields' \in {Typed(columns, rec) : rec \in Records(columns)}
  /\ UNCHANGED <<columns, packVars>>

ColumnsNext == GiveColumns \/ GiveFields

-----------------------------------------------------------------------------
(* Properties. *)

\* What is left of a value that goes by text: a null double is 0 afterwards, and a
\* null pointer points to an empty text.
Kept(type, v) ==
  CASE type = "double" /\ v = NaN -> 0
    [] type = "clob" -> IF v = NoText THEN <<>> ELSE v
    [] OTHER -> v

\* What the record is read into.
Before == [c \in DOMAIN columns |-> CHOOSE v \in Values(columns[c].type) : TRUE]

\* What is left of it by way of a text with escapes.  Of a pointer's text that has a
\* character with the second byte of an escape behind an escaped byte, the in-place
\* copy may lose that byte: nothing is said of it.
Shifted(v) ==
  GBK_flag /\ \E i \in 3 .. Len(v), j \in 1 .. Len(v) :
    v[i] = Esc /\ firstcc(v, i - 1) /\ j < i - 1 /\ v[j] \in {Esc, Dlm, NewLine}
Unescaped(type, v, got) == (type = "clob" /\ Shifted(v)) \/ got = Kept(type, v)

\* A record of any types is unpacked as it was packed, nulls as nulls, and columns
\* that are not selected are left alone (pkg_pack, pkg_dispack).
FieldsBack ==
  LET back == dispack_columns(columns, Before, pack_columns(columns, TheRecord)).rec
  IN \A c \in DOMAIN columns :
       IF columns[c].noselect THEN back[c] = Before[c]
       ELSE Unescaped(columns[c].type, TheRecord[c], back[c])

\* The text of a record is the same whether it is made at once or by way of an object
\* (pkg_pack; stu_to_json with json_toStr or, when no member is missing or nested,
\* json_to_sdbc).
TextsAgree ==
  LET json == json_of(columns, TheRecord)
      text == pack_columns(columns, TheRecord)
  IN /\ json_toStr(columns, json) = text
     /\ (DOMAIN json = Packed(columns) /\ \A c \in DOMAIN json : columns[c].type # "struct")
          => json_to_sdbc(columns, json) = text

\* A copy by way of an object keeps every value but a null double and leaves alone
\* what a null pointer is copied to; so does a copy of single items.
ItemsBack ==
  LET copy == struct_of(columns, Before, json_of(columns, TheRecord))
  IN \A c \in DOMAIN columns :
       LET type == columns[c].type
           kept == Kept(type, TheRecord[c])
           missing == columns[c].noselect \/ (type = "clob" /\ TheRecord[c] = NoText)
       IN /\ copy[c] = IF missing THEN Before[c] ELSE kept
          /\ type # "struct" => putitem(Before, c, getitem(TheRecord, c)) = [Before EXCEPT ![c] = kept]

\* A text that ends early fills the columns it has and no other, unless it ends in a
\* structure.
ShortText ==
  (Len(columns) = 2 /\ columns[1].type # "struct" /\ ~columns[1].noselect) =>
    LET text == ColumnText(columns[1].type, TheRecord[1], TRUE) \o <<Dlm>>
        back == dispack_columns(columns, Before, text).rec
    IN back[2] = Before[2] /\ Unescaped(columns[1].type, TheRecord[1], back[1])

\* Records of any types stand in texts and objects for what they hold.
ColumnsStand == columns # <<>> => FieldsBack /\ TextsAgree /\ ItemsBack /\ ShortText
=============================================================================

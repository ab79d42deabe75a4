--------------------------------- MODULE Pack ----------------------------------
(***************************************************************************)
(* Records as texts (pack/pack.c): the columns of a record one after the    *)
(* other, each followed by the delimiter, which is escaped where it is part *)
(* of a value; the literals of SQL (pack/mkvalues.c); bytes as texts        *)
(* (byte_a64 of crypto/a64n.c).  A character of two bytes starts with Half, *)
(* whose second byte may look like any other one; firstcc and stptok of the *)
(* string library are modelled by how they are used.                        *)
(***************************************************************************)
EXTENDS Integers, Sequences, FiniteSets

CONSTANTS
  Bytes,       \* the bytes of the values
  Widths,      \* widths (typ->len) of the columns, the terminator included
  MaxBytes     \* the longest text of a64 (a bound of the model)

Esc == "esc"
NewLine == "newline"
Dlm == "dlm"
Quote == "quote"
Half == "half"         \* the first byte of a character of two
Cleared == "cleared" \* Half without its high bit

ASSUME PackAssumption ==
  /\ Bytes \subseteq {Esc, NewLine, Dlm, Quote, Half, "n", "G"} /\ Widths \subseteq Nat \ {0, 1}
  /\ MaxBytes \in Nat

VARIABLES
  GBK_flag, \* characters may have two bytes
  value,    \* the record: what its columns hold
  width,    \* their widths
  bytes     \* bytes to be written as text

packVars == <<GBK_flag, value, width, bytes>>

\* firstcc: byte i of s is the first of a character of two bytes.
RECURSIVE firstcc(_, _)
firstcc(s, i) == i > 0 /\ s[i] = Half /\ ~firstcc(s, i - 1)

-----------------------------------------------------------------------------
(* Packing *)

Escaped(c) ==
  CASE c = Esc -> <<Esc, Esc>>
    [] c = Dlm -> <<Esc, "G">>
    [] c = NewLine -> <<Esc, "n">>
    [] OTHER -> <<c>>

\* A half character loses its high bit.
EndCleared(text) == [text EXCEPT ![Len(text)] = Cleared]

\* get_one_str of a CH_CHAR: a second byte is copied as it is; a line end even
\* ends a character.
RECURSIVE EscapedFrom(_, _, _)
EscapedFrom(s, i, text) ==
  LET second == firstcc(s, i - 1) IN
  IF i > Len(s) THEN IF firstcc(s, Len(s)) THEN EndCleared(text) ELSE text
  ELSE IF s[i] = NewLine
  THEN EscapedFrom(s, i + 1, (IF second THEN EndCleared(text) ELSE text) \o Escaped(NewLine))
  ELSE EscapedFrom(s, i + 1, text \o (IF second /\ GBK_flag THEN <<s[i]>> ELSE Escaped(s[i])))

\* A column of width w holds its w - 1 first bytes.
Within(s, w) == SubSeq(s, 1, IF Len(s) < w THEN Len(s) ELSE w - 1)
get_one_str(s, w) == EscapedFrom(Within(s, w), 1, <<>>)

RECURSIVE pkg_pack(_, _)
pkg_pack(vals, ws) ==
  IF vals = <<>> THEN <<>>
  ELSE get_one_str(vals[1], ws[1]) \o <<Dlm>> \o pkg_pack(Tail(vals), Tail(ws))

-----------------------------------------------------------------------------
(* Unpacking *)

\* stptok: the first delimiter that is not the second byte of a character, or the end.
RECURSIVE stptok(_, _)
stptok(s, i) ==
  IF i > Len(s) \/ (s[i] = Dlm /\ ~(GBK_flag /\ firstcc(s, i - 1))) THEN i
  ELSE stptok(s, i + 1)

\* What an escape character and the byte behind it stand for.
Meant(c) == CASE c = "n" -> NewLine [] c = "G" -> Dlm [] OTHER -> c

\* Mutant: the bytes read are counted, not those written.
RECURSIVE strcpy_esc_Read(_, _, _, _)
strcpy_esc_Read(s, p, w, dest) ==
  IF p > Len(s) \/ p > w - 1 THEN dest
  ELSE IF s[p] # Esc \/ (p > 1 /\ GBK_flag /\ firstcc(s, p - 1))
  THEN strcpy_esc_Read(s, p + 1, w, Append(dest, s[p]))
  ELSE IF p = Len(s) THEN dest
  ELSE strcpy_esc_Read(s, p + 2, w, Append(dest, Meant(s[p + 1])))

\* strcpy_esc, from byte p: at most w - 1 bytes are written.
RECURSIVE strcpy_esc(_, _, _, _)
strcpy_esc(s, p, w, dest) ==
  IF p > Len(s) \/ Len(dest) = w - 1 THEN dest
  ELSE IF s[p] # Esc \/ (p > 1 /\ GBK_flag /\ firstcc(s, p - 1))
  THEN strcpy_esc(s, p + 1, w, Append(dest, s[p]))
  ELSE IF p = Len(s) THEN dest
  ELSE strcpy_esc(s, p + 2, w, Append(dest, Meant(s[p + 1])))

\* pkg_dispack: the columns of the text; those behind its end are left alone.
RECURSIVE pkg_dispack(_, _, _)
pkg_dispack(vals, text, ws) ==
  LET end == stptok(text, 1) IN
  IF vals = <<>> \/ text = <<>> THEN vals
  ELSE <<strcpy_esc(SubSeq(text, 1, end - 1), 1, ws[1], <<>>)>>
       \o pkg_dispack(Tail(vals), SubSeq(text, end + 1, Len(text)), Tail(ws))

-----------------------------------------------------------------------------
(* mkvalues.c: a CH_CHAR as a literal of SQL, or null when it is empty *)

RECURSIVE Quoted(_, _)
Quoted(s, i) ==
  IF i > Len(s) THEN <<>>
  ELSE (IF s[i] = Quote THEN <<Quote, Quote>> ELSE <<s[i]>>) \o Quoted(s, i + 1)

\* A half character at the end gets a blank when there is room for it, else it
\* loses its high bit.
mkvalue(s, w) ==
  LET t == Within(s, w)
      q == Quoted(t, 1)
      closed == IF ~firstcc(t, Len(t)) THEN q
                ELSE IF Len(t) < w - 1 THEN Append(q, "blank") ELSE EndCleared(q)
  IN IF s = <<>> THEN <<"null">> ELSE <<Quote>> \o closed \o <<Quote>>

-----------------------------------------------------------------------------
(* a64n.c: three bytes as four digits of six bits, the end filled up with "=" *)

Filler == 64
Digits(l, n) == [i \in 1 .. n |-> (l \div 64^(n - i)) % 64]

RECURSIVE byte_a64(_)
byte_a64(b) ==
  CASE b = <<>> -> <<>>
    [] Len(b) = 1 -> Digits(b[1] * 16, 2) \o <<Filler, Filler>>
    [] Len(b) = 2 -> Digits((b[1] * 256 + b[2]) * 4, 3) \o <<Filler>>
    [] Len(b) > 2 -> Digits((b[1] * 256 + b[2]) * 256 + b[3], 4)
                     \o byte_a64(SubSeq(b, 4, Len(b)))

Octets(l, n) == [i \in 1 .. n |-> (l \div 256^(n - i)) % 256]

RECURSIVE a64_byte(_)
a64_byte(str) ==
  CASE str = <<>> -> <<>>
    [] str # <<>> /\ str[3] = Filler -> Octets((str[1] * 64 + str[2]) \div 16, 1)
    [] str # <<>> /\ str[3] # Filler /\ str[4] = Filler ->
         Octets((str[1] * 4096 + str[2] * 64 + str[3]) \div 4, 2)
    [] str # <<>> /\ str[3] # Filler /\ str[4] # Filler ->
         Octets(str[1] * 64^3 + str[2] * 4096 + str[3] * 64 + str[4], 3)
         \o a64_byte(SubSeq(str, 5, Len(str)))

-----------------------------------------------------------------------------
(* Any record, any bytes *)

PackInit == GBK_flag = FALSE /\ value = <<>> /\ width = <<>> /\ bytes = <<>>

\* Two columns; a value is shorter than its column, the second one a byte at most.
GiveValues ==
  /\ value = <<>> /\ bytes = <<>>
  /\ width' \in [1 .. 2 -> Widths]
  /\ \E m \in 0 .. width'[1] - 1, n \in 0 .. 1 :
       \E v \in [1 .. m -> Bytes], w \in [1 .. n -> Bytes] : value' = <<v, w>>
  /\ GBK_flag' \in BOOLEAN
  /\ UNCHANGED bytes

GiveBytes ==
  /\ value = <<>> /\ bytes = <<>>
  /\ \E n \in 1 .. MaxBytes : bytes' \in [1 .. n -> {0, 1, 63, 64, 170, 255}]
  /\ UNCHANGED <<GBK_flag, value, width>>

PackNext == GiveValues \/ GiveBytes

-----------------------------------------------------------------------------
(* Properties. *)

\* What a value is after its half characters lost their high bit: one at the end and
\* one before a line end.
RowText(s) ==
  [i \in DOMAIN s |->
     IF firstcc(s, i) /\ (i = Len(s) \/ s[i + 1] = NewLine) THEN Cleared ELSE s[i]]

\* A record is unpacked as it was packed, whatever bytes its values have, also where
\* the second byte of a character looks like a delimiter or an escape character,
\* except for half characters.
Unpacked ==
  value # <<>> =>
    pkg_dispack(<<<<"x">>, <<"x">>>>, pkg_pack(value, width), width) =
      <<RowText(value[1]), RowText(value[2])>>

\* The text has no line end and one delimiter for each column.
OneLine ==
  value # <<>> =>
    LET text == pkg_pack(value, width) IN
    /\ \A i \in DOMAIN text : text[i] # NewLine
    /\ Cardinality({i \in DOMAIN text : text[i] = Dlm /\ ~firstcc(text, i - 1)}) = 2

\* A literal ends with its last quote and no sooner, and stands for the value as
\* the server reads it, byte by byte; what is empty is null and has no quotes.
RECURSIVE Unquoted(_)
Unquoted(s) ==
  IF s = <<>> THEN <<>>
  ELSE IF Len(s) > 1 /\ s[1] = Quote /\ s[2] = Quote
  THEN <<Quote>> \o Unquoted(SubSeq(s, 3, Len(s)))
  ELSE <<s[1]>> \o Unquoted(Tail(s))
QuotesPaired(s) ==
  \A i \in DOMAIN s :
    s[i] = Quote =>
      LET first == CHOOSE j \in 1 .. i : (\A k \in j .. i : s[k] = Quote) /\ (j = 1 \/ s[j - 1] # Quote)
          last == CHOOSE j \in i .. Len(s) : (\A k \in i .. j : s[k] = Quote)
                                             /\ (j = Len(s) \/ s[j + 1] # Quote)
      IN (last - first + 1) % 2 = 0
LiteralStands ==
  value # <<>> =>
    LET q == mkvalue(value[1], width[1])
        inner == SubSeq(q, 2, Len(q) - 1)
        v == value[1]
        half == firstcc(v, Len(v))
    IN IF v = <<>> THEN q = <<"null">>
       ELSE
       /\ q[1] = Quote /\ q[Len(q)] = Quote
       /\ QuotesPaired(inner)
       /\ Unquoted(inner) = IF ~half THEN v
                            ELSE IF Len(v) < width[1] - 1 THEN Append(v, "blank") ELSE EndCleared(v)

\* Bytes are read back from their text.
BytesBack == a64_byte(byte_a64(bytes)) = bytes

\* Packed records, SQL literals and byte texts stand for the values they were made of.
RecordsStand == Unpacked /\ OneLine /\ LiteralStands /\ BytesBack
=============================================================================

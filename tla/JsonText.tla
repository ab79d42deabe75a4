------------------------------- MODULE JsonText --------------------------------
(***************************************************************************)
(* JSON values as texts: json_object_to_json_string and the tokener of      *)
(* json-c-0.9, which reads a text byte by byte and may get it in pieces.    *)
(*                                                                         *)
(* A value is <<"null">>, <<"boolean", b>>, <<"int", digits>>,              *)
(* <<"string", s>>, <<"array", values>> or <<"object", <<name, value>>s>>.  *)
(* A text is a sequence of characters, with "eof" for the byte 0 at its end. *)
(* The members of an object are JsonObject's, here the sequence it keeps.   *)
(***************************************************************************)
EXTENDS Integers, Sequences, FiniteSets, TLC

CONSTANTS
  Texts,     \* values that are written and read
  MaxDepth   \* JSON_TOKENER_MAX_DEPTH

ASSUME JsonAssumption == MaxDepth \in Nat \ {0}

VARIABLES
  written,   \* the value that was written, NoValue: none yet
  text,      \* the text that is left to read
  tok,       \* the tokener: [stack, pb, st_pos, quote_char, ucs_char, err]
  obj,       \* the local obj of json_tokener_parse_ex
  more,      \* the text may come in another piece
  whole,     \* the text was not cut short
  answer     \* what json_tokener_parse_ex returned, NoValue: it is running

jsonVars == <<written, text, tok, obj, more, whole, answer>>

NoValue == <<"none">>
NullValue == <<"null">>

-----------------------------------------------------------------------------
(* Writing *)

\* json_escape_str: what becomes of one character.
EscapedChar(c) ==
  CASE c = "newline" -> <<"\\", "n">>
    [] c \in {"\"", "\\", "/"} -> <<"\\", c>>
    [] c = "ctl1" -> <<"\\", "u", "0", "0", "0", "1">>
    [] OTHER -> <<c>>
RECURSIVE json_escape_str(_)
json_escape_str(s) ==
  IF s = <<>> THEN <<>> ELSE EscapedChar(s[1]) \o json_escape_str(Tail(s))
InQuotes(s) == <<"\"">> \o json_escape_str(s) \o <<"\"">>

RECURSIVE to_json_string(_), Elements(_), Members(_)
Elements(vals) ==
  IF Len(vals) = 1 THEN to_json_string(vals[1])
  ELSE to_json_string(vals[1]) \o <<",", " ">> \o Elements(Tail(vals))
Members(ms) ==
  <<" ">> \o InQuotes(ms[1][1]) \o <<":", " ">> \o to_json_string(ms[1][2])
  \o IF Len(ms) = 1 THEN <<>> ELSE <<",">> \o Members(Tail(ms))
to_json_string(v) ==
  CASE v[1] = "null" -> <<"n", "u", "l", "l">>
    [] v[1] = "boolean" -> IF v[2] THEN <<"t", "r", "u", "e">> ELSE <<"f", "a", "l", "s", "e">>
    [] v[1] = "int" -> v[2]
    [] v[1] = "string" -> InQuotes(v[2])
    [] v[1] = "array" ->
         <<"[">> \o (IF v[2] = <<>> THEN <<>> ELSE <<" ">> \o Elements(v[2])) \o <<" ", "]">>
    [] v[1] = "object" ->
         <<"{">> \o (IF v[2] = <<>> THEN <<>> ELSE Members(v[2])) \o <<" ", "}">>

-----------------------------------------------------------------------------
(* The tokener: stack[depth + 1] is the level it is at *)

Level == [state |-> "eatws", saved |-> "start", current |-> NullValue, name |-> <<>>]
json_tokener_new ==
  [stack |-> <<Level>>, pb |-> <<>>, st_pos |-> 0, quote_char |-> "\"", ucs_char |-> 0,
   err |-> "success"]

Depth(t) == Len(t.stack)
Here(t) == t.stack[Len(t.stack)]
At(t, level) == [t EXCEPT !.stack[Len(t.stack)] = level]
In(t, state) == At(t, [Here(t) EXCEPT !.state = state])
After(t, saved) == At(t, [Here(t) EXCEPT !.state = "eatws", !.saved = saved])
Holds(t, v) == At(t, [Here(t) EXCEPT !.current = v])
Failed(t, err) == [t EXCEPT !.err = err]
Noted(t, c) == [t EXCEPT !.pb = Append(@, c)]

\* What one turn of the loop does with character c: the tokener, obj, and whether
\* it goes on with c ("redo"), with the next one ("next"), or leaves ("out").
Step(t, o, step) == [tok |-> t, obj |-> o, step |-> step]

\* A value is complete.
Complete(t, v) == After(Holds(t, v), "finish")

\* The level of an element or of a member's value.
Deeper(t, state) ==
  IF Depth(t) >= MaxDepth THEN Step(Failed(t, "depth"), NullValue, "out")
  ELSE Step([In(t, state) EXCEPT !.stack = Append(@, Level)], NullValue, "redo")

Fresh(t) == [t EXCEPT !.pb = <<>>, !.st_pos = 0]

ValueStart(t, c) ==
  CASE c = "{" -> Step(After(Holds(t, <<"object", <<>>>>), "object_field_start"), NullValue, "next")
    [] c = "[" -> Step(After(Holds(t, <<"array", <<>>>>), "array"), NullValue, "next")
    [] c = "n" -> Step(In(Fresh(t), "null"), NullValue, "redo")
    [] c \in {"t", "f"} -> Step(In(Fresh(t), "boolean"), NullValue, "redo")
    [] c = "\"" -> Step([In(Fresh(t), "string") EXCEPT !.quote_char = c], NullValue, "next")
    [] c \in {"0", "1", "-"} -> Step(In(Fresh(t), "number"), NullValue, "redo")
    [] OTHER -> Step(Failed(t, "unexpected"), NullValue, "out")

\* A word is complete when one more character has been looked at.
Prefix(s, n) == SubSeq(s, 1, IF n < Len(s) THEN n ELSE Len(s))
Word(t, c, words) ==
  LET read == Noted(t, c)
      n == t.st_pos + 1
      fits == {w \in DOMAIN words : Prefix(read.pb, n) = Prefix(words[w], n)
                                    \/ (n > Len(words[w]) /\ Prefix(read.pb, n - 1) = words[w])}
  IN IF fits = {} THEN Step(Failed(read, "word"), NullValue, "out")
     ELSE LET w == CHOOSE x \in fits : TRUE IN
          IF t.st_pos = Len(words[w]) THEN Step(Complete(read, w), NullValue, "redo")
          ELSE Step([read EXCEPT !.st_pos = n], NullValue, "next")
NullWords == NullValue :> <<"n", "u", "l", "l">>
BooleanWords == <<"boolean", TRUE>> :> <<"t", "r", "u", "e">>
                @@ <<"boolean", FALSE>> :> <<"f", "a", "l", "s", "e">>

\* sscanf %d of what was gathered.
NumberChars == {"0", "1", "-"}
Number(t, c) ==
  CASE c \in NumberChars -> Step(Noted(t, c), NullValue, "next")
    [] c \notin NumberChars /\ t.pb = <<"-">> -> Step(Failed(t, "number"), NullValue, "out")
    [] OTHER -> Step(Complete(t, <<"int", t.pb>>), NullValue, "redo")

\* A string or a member's name, to its end or to an escape character.
QuotedText(t, c, state, end) ==
  CASE c = t.quote_char -> Step(end, NullValue, "next")
    [] c = "\\" -> Step(At(t, [Here(t) EXCEPT !.state = "string_escape", !.saved = state]),
                        NullValue, "next")
    [] c = "eof" -> Step(t, NullValue, "out")
    [] OTHER -> Step(Noted(t, c), NullValue, "next")

\* In "**/" the second "*" is only seen not to be a "/": the comment goes on.
Comment(t, c, state, on) ==
  CASE c = "eof" -> Step(t, NullValue, "out")
    [] c # "eof" /\ c = on[1] -> Step(In(t, on[2]), NullValue, "next")
    [] OTHER -> Step(In(t, state), NullValue, "next")

Back(t) == In(t, Here(t).saved)
StringEscape(t, c) ==
  CASE c \in {"\"", "\\", "/"} -> Step(Back(Noted(t, c)), NullValue, "next")
    [] c = "n" -> Step(Back(Noted(t, "newline")), NullValue, "next")
    [] c = "u" -> Step(In([t EXCEPT !.ucs_char = 0, !.st_pos = 0], "escape_unicode"),
                       NullValue, "next")
    [] OTHER -> Step(Failed(t, "string"), NullValue, "out")

\* Four hexadecimal digits; strchr also finds the byte 0 among them, whose text
\* then ends.
Hex == "0" :> 0 @@ "1" :> 1
CharOf(ucs) == IF ucs = 1 THEN "ctl1" ELSE "utf"
EscapeUnicode(t, c) ==
  IF c = "eof" THEN Step(t, NullValue, "out")
  ELSE IF c \notin DOMAIN Hex THEN Step(Failed(t, "string"), NullValue, "out")
  ELSE LET u == [t EXCEPT !.ucs_char = @ + Hex[c] * 16^(3 - t.st_pos), !.st_pos = @ + 1] IN
       Step(IF u.st_pos = 4 THEN Back(Noted(u, CharOf(u.ucs_char))) ELSE u, NullValue, "next")

Closed(t) == After(t, "finish")
ArrayAdd(t, o) ==
  LET a == Here(t).current IN After(Holds(t, <<"array", Append(a[2], o)>>), "array_sep")
\* Mutant: the name stays for the next member, which is put behind it.
ObjectAddNamed(t, o) ==
  LET here == Here(t)
      others == SelectSeq(here.current[2], LAMBDA m : m[1] # here.name)
  IN After(At(t, [here EXCEPT !.current = <<"object", others>>]), "object_sep")

ObjectAdd(t, o) ==
  LET here == Here(t)
      others == SelectSeq(here.current[2], LAMBDA m : m[1] # here.name)
  IN After(At(t, [here EXCEPT !.current = <<"object", Append(others, <<here.name, o>>)>>,
                              !.name = <<>>]), "object_sep")

\* One turn of the loop in json_tokener_parse_ex.
StepOf(t, o, c) ==
  LET here == Here(t)
      state == here.state
      then(u, step) == Step(u, NullValue, step)
  IN
  CASE state = "eatws" ->
         CASE c = " " -> then(t, "next")
           [] c = "/" -> then(In(Fresh(t), "comment_start"), "next")
           [] OTHER -> then(In(t, here.saved), "redo")
    [] state = "comment_start" ->
         CASE c = "*" -> then(In(t, "comment"), "next")
           [] c = "/" -> then(In(t, "comment_eol"), "next")
           [] OTHER -> then(Failed(t, "comment"), "out")
    [] state = "comment" -> Comment(t, c, "comment", <<"*", "comment_end">>)
    [] state = "comment_end" -> Comment(t, c, "comment", <<"/", "eatws">>)
    [] state = "comment_eol" -> Comment(t, c, "comment_eol", <<"newline", "eatws">>)
    [] state = "start" -> ValueStart(t, c)
    [] state = "finish" ->
         IF Depth(t) = 1 THEN then(t, "out")
         ELSE Step([t EXCEPT !.stack = SubSeq(@, 1, Len(@) - 1)], here.current, "redo")
    [] state = "null" -> Word(t, c, NullWords)
    [] state = "boolean" -> Word(t, c, BooleanWords)
    [] state = "number" -> Number(t, c)
    [] state = "string" -> QuotedText(t, c, "string", Complete(t, <<"string", t.pb>>))
    [] state = "string_escape" -> StringEscape(t, c)
    [] state = "escape_unicode" -> EscapeUnicode(t, c)
    [] state = "array" -> IF c = "]" THEN then(Closed(t), "next") ELSE Deeper(t, "array_add")
    [] state = "array_add" -> then(ArrayAdd(t, o), "redo")
    [] state = "array_sep" ->
         CASE c = "]" -> then(Closed(t), "next")
           [] c = "," -> then(After(t, "array"), "next")
           [] OTHER -> then(Failed(t, "array"), "out")
    [] state = "object_field_start" ->
         CASE c = "}" -> then(Closed(t), "next")
           [] c = "\"" -> then([In(Fresh(t), "object_field") EXCEPT !.quote_char = c], "next")
           [] OTHER -> then(Failed(t, "key_name"), "out")
    [] state = "object_field" ->
         QuotedText(t, c, "object_field",
                After(At(t, [here EXCEPT !.name = t.pb]), "object_field_end"))
    [] state = "object_field_end" ->
         IF c = ":" THEN then(After(t, "object_value"), "next") ELSE then(Failed(t, "key_sep"), "out")
    [] state = "object_value" -> Deeper(t, "object_value_add")
    [] state = "object_value_add" -> then(ObjectAdd(t, o), "redo")
    [] state = "object_sep" ->
         CASE c = "}" -> then(Closed(t), "next")
           [] c = "," -> then(After(t, "object_field_start"), "next")
           [] OTHER -> then(Failed(t, "value_sep"), "out")

RECURSIVE Steps(_, _, _)
Steps(t, o, c) ==
  LET r == StepOf(t, o, c) IN IF r.step = "redo" THEN Steps(r.tok, r.obj, c) ELSE r

-----------------------------------------------------------------------------
(* A value is written, and its text is read *)

JsonInit ==
  /\ written = NoValue /\ text = <<>> /\ tok = json_tokener_new /\ obj = NullValue
  /\ more = TRUE /\ whole = TRUE /\ answer = NoValue

WriteText ==
  /\ written = NoValue
  /\ \E v \in Texts : written' = v /\ text' = to_json_string(v) \o <<"eof">>
  /\ UNCHANGED <<tok, obj, more, whole, answer>>

Parsing == written # NoValue /\ answer = NoValue

\* Behind a text that ends without an error nothing is open.
AtEnd(t) ==
  IF Here(t).state # "finish" /\ Here(t).saved # "finish" THEN Failed(t, "eof") ELSE t

ReadChar ==
  LET c == text[1]
      r == Steps(tok, obj, c)
      end == IF c = "eof" THEN AtEnd(r.tok) ELSE r.tok
      leaves == r.step = "out" \/ c = "eof"
  IN /\ Parsing /\ text # <<>>
     /\ text' = Tail(text)
     /\ tok' = IF leaves THEN end ELSE r.tok
     /\ obj' = r.obj
     /\ answer' = IF ~leaves THEN NoValue
                  ELSE IF end.err = "success" THEN Here(end).current ELSE NullValue
     /\ UNCHANGED <<written, more, whole>>

\* json_tokener_parse_ex returns with json_tokener_continue in the middle of a value
\* and is called with the rest; its local variables begin anew.
NextPiece ==
  /\ Parsing /\ more /\ text # <<>>
  /\ ~(Depth(tok) = 1 /\ Here(tok).state = "eatws" /\ Here(tok).saved = "finish")
  /\ more' = FALSE /\ obj' = NullValue
  /\ UNCHANGED <<written, text, tok, whole, answer>>

\* The text is cut short.
Cut ==
  /\ Parsing /\ more /\ Len(text) > 1
  /\ text' = <<"eof">> /\ whole' = FALSE /\ more' = FALSE
  /\ UNCHANGED <<written, tok, obj, answer>>

\* A blank or a comment stands before the next token.
Blanks == {<<" ">>, <<"/", "*", "a", "/", "*", "/">>, <<"/", "/", "*", "newline">>}
PutComment ==
  /\ Parsing /\ more /\ Here(tok).state = "eatws"
  /\ \E b \in Blanks : text' = b \o text
  /\ more' = FALSE
  /\ UNCHANGED <<written, tok, obj, whole, answer>>

JsonNext == WriteText \/ ReadChar \/ NextPiece \/ Cut \/ PutComment

-----------------------------------------------------------------------------
(* Properties. *)

RECURSIVE Levels(_)
Levels(v) ==
  IF v[1] \notin {"array", "object"} \/ v[2] = <<>> THEN 1
  ELSE LET below == {Levels(IF v[1] = "array" THEN v[2][i] ELSE v[2][i][2]) : i \in DOMAIN v[2]}
       IN 1 + CHOOSE n \in below : \A m \in below : m <= n

\* A value that is written is read again, in one piece or in two, with comments
\* or without, unless it has more levels than the tokener; a value in brackets or
\* quotes that is cut short is not taken for another one (json_tokener.c:187-633,
\* json_object.c:85-126).
JsonStands ==
  answer # NoValue =>
    /\ whole => answer = IF Levels(written) <= MaxDepth THEN written ELSE NullValue
    /\ ~whole /\ written[1] \in {"string", "array", "object"} => answer = NullValue
=============================================================================

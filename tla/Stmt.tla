---------------------------------- MODULE Stmt ----------------------------------
(***************************************************************************)
(* SQL statements made from a pattern (pack/SRM.c, mkfield.c, mkvalues.c,   *)
(* mk_where.c, setbind.c), and the object that holds it (SRM_init, SRM_mk,  *)
(* SRM_free).  A statement is a sequence of tokens.  The name of a column   *)
(* is a sequence of words: an expression and behind the last blank its      *)
(* alias; one that begins with a blank has an empty first word.             *)
(***************************************************************************)
EXTENDS Integers, Sequences, FiniteSets, SequencesExt

CONSTANTS
  ColumnNames,  \* the names of columns
  Tables,       \* names of tables, as tokens
  Owners,       \* values of DBOWN; "" is none
  Wheres,       \* what the caller has in the buffer: a condition or a statement
  MaxFields,    \* columns of a pattern (a bound of the model)
  MaxStated     \* columns of a pattern that statements are made of (a bound of the model)

ASSUME StmtAssumption ==
  /\ \A n \in ColumnNames : n \in Seq(STRING) /\ Len(n) \in 1 .. 2
  /\ \A t \in Tables \cup Wheres : t \in Seq(STRING)
  /\ Owners \subseteq STRING /\ {MaxFields, MaxStated} \subseteq Nat \ {0}

VARIABLES
  tp,       \* the pattern: of every column its name, type and bindtype
  srm,      \* the object: where it comes from, and what the caller put into it
  heap,     \* what was allocated for it
  stmt      \* the statement made last, with the owner it was made for

stmtVars == <<tp, srm, heap, stmt>>

\* Types: dates that have a format, pointers, and others.
FieldTypes == {"dateformat", "clob", "other"}

plain_name(name) == name[Len(name)]
FirstWord(name) == name[1]

\* Items with commas between them.
Listed(items) ==
  FlattenSeq([i \in DOMAIN items |-> IF i = Len(items) THEN items[i] ELSE Append(items[i], ",")])

-----------------------------------------------------------------------------
(* mkfield.c *)

\* The name without the blanks before it.
skipblk(name) == IF name[1] = "" THEN Tail(name) ELSE name

\* mk_date: the expression without its alias.
mk_date(name) == <<"TO_CHAR(", name[1], ",'fmt')", plain_name(name)>>

\* What a SELECT asks for, of the columns that are not NOSELECT.  Behind the name of a
\* table a blank is not skipped, and the expression of a date is empty.
Selected(c, tab) ==
  IF c.type = "dateformat"
  THEN IF tab = <<>> THEN mk_date(skipblk(c.name))
       ELSE <<"TO_CHAR(">> \o tab \o <<".", FirstWord(c.name), ",'fmt')", plain_name(c.name)>>
  ELSE IF tab = <<>> THEN c.name ELSE tab \o <<".">> \o c.name
SelectColumns == SelectSeq(tp, LAMBDA c : "NOSELECT" \notin c.bind)
mkfield(tab) == Listed([i \in DOMAIN SelectColumns |-> Selected(SelectColumns[i], tab)])

\* Columns that cannot be written.
Skipped(c) == "NOINS" \in c.bind \/ c.type = "clob" \/ c.name = <<"ROWID">> \/ c.name[1] = ""
SetColumns == SelectSeq(tp, LAMBDA c : ~Skipped(c))

mkset == Listed([i \in DOMAIN SetColumns |-> <<FirstWord(SetColumns[i].name)>>])

-----------------------------------------------------------------------------
(* mkvalues.c.  The value of a column is named after it; some are empty. *)

ValueOf(c) == plain_name(c.name)

\* mkvalue: a text that is empty is null.
value_item(v, c) ==
  IF v = "" THEN <<"null">>
  ELSE IF c.type = "dateformat" THEN <<"TO_DATE(", v, ",'fmt')">>
  ELSE <<v>>

\* mk_values: from the record; empty are the columns of nulls.
mk_values(nulls) ==
  LET Of(c) == value_item(IF c.name \in nulls THEN "" ELSE ValueOf(c), c)
  IN Listed([i \in DOMAIN SetColumns |-> Of(SetColumns[i])])

\* mkvalues: from a text with one field for each column, written or not, as far as
\* the text goes.
Written(text) == SelectSeq([i \in DOMAIN tp |-> i], LAMBDA i : ~Skipped(tp[i]) /\ i <= Len(text))

\* Mutant: the fields of columns that are not written are not passed over.
FieldNoDense(text, k) == k
FieldNo(text, k) == Written(text)[k]

mkvalues(text) ==
  Listed([k \in DOMAIN Written(text) |-> value_item(text[FieldNo(text, k)], tp[Written(text)[k]])])

\* pkg_pack of the record: a field for each column but those that are NOSELECT.
TextOf(nulls) ==
  [i \in DOMAIN SelectColumns |->
     IF SelectColumns[i].name \in nulls THEN "" ELSE ValueOf(SelectColumns[i])]

-----------------------------------------------------------------------------
(* SRM.c and mk_where.c *)

Dbo == "$DB."

\* addown_to_name, set_dbo: $DB. becomes the owner.
set_dbo(text, own) ==
  FlattenSeq([i \in DOMAIN text |->
    IF text[i] # Dbo THEN <<text[i]>> ELSE IF own = "" THEN <<>> ELSE <<own, ".">>])

\* strchr(tabname, '.'), and what SRM_mk_select takes for more than a name.
Qualified(tab) == Contains(tab, ".") \/ Contains(tab, Dbo)
Complex(tab) == Qualified(tab) \/ Contains(tab, " ")
Owned(tab, own) == (IF own = "" THEN <<>> ELSE <<own, ".">>) \o tab

\* The name of the table in a SELECT, and in the other statements, in which $DB. stays.
SelectFrom(own) == IF Complex(srm.tabname) THEN set_dbo(srm.tabname, own) ELSE Owned(srm.tabname, own)
UpdateOf(own) == IF Qualified(srm.tabname) THEN srm.tabname ELSE Owned(srm.tabname, own)

BeforText == IF srm.befor THEN <<"befor">> ELSE <<>>
Hint == IF srm.hint THEN <<"hint">> ELSE <<>>

\* mk_where: a condition for each key, bound by its name.
mk_where(keys) ==
  FlattenSeq([i \in DOMAIN keys |-> <<IF i = 1 THEN "WHERE" ELSE "AND", "$", keys[i], "=:", keys[i]>>])

\* SRM_mk_upd_col: of the columns chosen, or of all that can be written.
BoundBy(c) == <<FirstWord(c.name), "=:", plain_name(c.name)>>
Chosen(keys) == Listed([i \in DOMAIN keys |-> <<"$", keys[i], "=:", keys[i]>>])
Unchosen == Listed([i \in DOMAIN SelectSeq(tp, LAMBDA c : c.type # "clob" /\ "NOINS" \notin c.bind) |->
              BoundBy(SelectSeq(tp, LAMBDA c : c.type # "clob" /\ "NOINS" \notin c.bind)[i])])
SRM_mk_upd_col(keys, own) ==
  BeforText \o <<"UPDATE">> \o Hint \o UpdateOf(own) \o <<"SET">>
    \o (IF keys = <<>> THEN Unchosen ELSE Chosen(keys))

-----------------------------------------------------------------------------
(* The object. *)

Nothing == [kind |-> "none", own |-> "", text |-> <<>>, where |-> <<>>]
Usable == srm.from \in {"init", "mk"}
Stated == Usable /\ Len(tp) <= MaxStated

StmtInit ==
  /\ tp = <<>> /\ heap = {} /\ stmt = Nothing
  /\ srm = [from |-> "none", tabname |-> <<>>, befor |-> FALSE, hint |-> FALSE, holds |-> {}]

\* SRM_init: a copy of a pattern and an index for it; record and names are the caller's.
\* SRM_mk: a pattern from the library, with its names, formats and a record.
Make(from, blocks) ==
  /\ srm.from = "none"
  /\ \E n \in 1 .. MaxFields : tp' \in [1 .. n -> [name : ColumnNames, type : FieldTypes, bind : {{}}]]
  /\ \A i, j \in DOMAIN tp' : i # j => plain_name(tp'[i].name) # plain_name(tp'[j].name)
  /\ \E t \in Tables :
       srm' = [srm EXCEPT !.from = from, !.tabname = t, !.holds = blocks]
  /\ heap' = heap \cup blocks
  /\ UNCHANGED stmt
SRM_init == Make("init", {"tp", "colidx"})
SRM_mk == Make("mk", {"tp", "colidx", "rec", "names", "formats", "pks", "tabname"})

\* set_bindtype_idx on the columns of a list, or all.
set_bindtype ==
  /\ Usable /\ stmt = Nothing /\ \A i \in DOMAIN tp : tp[i].bind = {}
  /\ \E cols \in SUBSET DOMAIN tp, bind \in {{"NOINS"}, {"NOSELECT"}} :
       tp' = [i \in DOMAIN tp |-> IF i \in cols THEN [tp[i] EXCEPT !.bind = bind] ELSE tp[i]]
  /\ UNCHANGED <<srm, heap, stmt>>

\* The caller sets what comes before the statement, or behind its first word; a result
\* is fetched.
SetBefor ==
  /\ Stated /\ stmt = Nothing /\ "result" \notin heap
  /\ \E b \in BOOLEAN, h \in BOOLEAN :
       srm' = [srm EXCEPT !.befor = b, !.hint = h, !.holds = @ \cup {"result"}]
  /\ heap' = heap \cup {"result"}
  /\ UNCHANGED <<tp, stmt>>

Made(kind, own, text, where) == [kind |-> kind, own |-> own, text |-> text, where |-> where]

\* SRM_mk_select: a whole statement is left as it is; the hint stays for the next one.
SRM_mk_select(own, where) ==
  /\ Stated /\ SelectColumns # <<>>
  /\ IF where # <<>> /\ where[1] = "SELECT" THEN stmt' = Made("given", own, where, where) /\ UNCHANGED srm
     ELSE /\ stmt' = Made("select", own,
                set_dbo(BeforText \o <<"SELECT">> \o Hint \o mkfield(<<>>), own) \o <<"FROM">>
                  \o SelectFrom(own) \o set_dbo(where, own), where)
          /\ srm' = [srm EXCEPT !.befor = FALSE]
  /\ UNCHANGED <<tp, heap>>

\* SRM_mk_update with SRM_mk_upd_col.
SRM_mk_update(own, keys) ==
  /\ Stated /\ SetColumns # <<>>
  /\ stmt' = Made("update", own, SRM_mk_upd_col(keys, own), <<>>)
  /\ srm' = [srm EXCEPT !.befor = FALSE, !.hint = FALSE]
  /\ UNCHANGED <<tp, heap>>

SRM_mk_delete(own, where) ==
  /\ Stated
  /\ IF where # <<>> /\ where[1] = "DELETE" THEN stmt' = Made("given", own, where, where) /\ UNCHANGED srm
     ELSE /\ stmt' = Made("delete", own,
                BeforText \o <<"DELETE">> \o Hint \o <<"FROM">> \o UpdateOf(own) \o where, where)
          /\ srm' = [srm EXCEPT !.befor = FALSE, !.hint = FALSE]
  /\ UNCHANGED <<tp, heap>>

\* PatternFree: a made object owns all but the name of its table, one that was
\* initialized only its copy of the pattern.
PatternFree(blocks) ==
  IF srm.from = "mk" THEN blocks \ {"tp", "names", "formats", "rec", "pks"} ELSE blocks \ {"tp"}

\* SRM_free; a second one does nothing.
SRM_free ==
  /\ srm.from # "none"
  /\ heap' = PatternFree(heap) \ {"result", "colidx"}
  /\ srm' = [srm EXCEPT !.from = "freed", !.holds = @ \cap {"tabname"}, !.tabname = <<>>,
                        !.befor = FALSE, !.hint = FALSE]
  /\ tp' = <<>> /\ stmt' = Nothing

Keys == {<<>>, <<"a">>, <<"a", "x">>}

StmtNext ==
  \/ SRM_init \/ SRM_mk \/ set_bindtype \/ SetBefor \/ SRM_free
  \/ \E own \in Owners :
       \/ \E where \in Wheres \cup {mk_where(keys) : keys \in Keys} :
            SRM_mk_select(own, where) \/ SRM_mk_delete(own, where)
       \/ \E keys \in Keys : SRM_mk_update(own, keys)

-----------------------------------------------------------------------------
(* Properties. *)

\* SELECT, UPDATE and DELETE name the same table, whoever the owner is, once $DB. is
\* replaced - as long as the name has no alias behind it.
SameTable ==
  (Usable /\ ~Contains(srm.tabname, " ")) =>
    \A own \in Owners : set_dbo(UpdateOf(own), own) = SelectFrom(own)

\* The values of an INSERT or UPDATE are those of the columns it lists, one for one,
\* also where some columns are not written, and the same whether they are made from
\* the record or from its text; a pattern with NOSELECT columns has no such text.
ValuesAgree ==
  \A nulls \in SUBSET {tp[i].name : i \in DOMAIN tp} :
    /\ Len(SelectSeq(mk_values(nulls), LAMBDA t : t = ",")) = Len(SelectSeq(mkset, LAMBDA t : t = ","))
    /\ (\A i \in DOMAIN tp : "NOSELECT" \notin tp[i].bind) => mkvalues(TextOf(nulls)) = mk_values(nulls)

\* Whatever the expression and the format, a column is selected under its plain name
\* (pkg_getnum finds it again); a date is never asked for by an empty expression, unless
\* its name begins with a blank and is put behind a table's; and an UPDATE without a
\* list sets the columns that can be written.
NamesStand ==
  /\ \A i \in DOMAIN tp, tab \in {<<>>, <<"t">>} :
       LET item == Selected(tp[i], tab)
       IN /\ item[Len(item)] = plain_name(tp[i].name)
          /\ (tp[i].type = "dateformat" /\ (tab = <<>> \/ tp[i].name[1] # "")) => item[Len(item) - 2] # ""
  /\ (\A i \in DOMAIN tp : tp[i].name # <<"ROWID">> /\ tp[i].name[1] # "") =>
       Unchosen = Listed([i \in DOMAIN SetColumns |-> BoundBy(SetColumns[i])])

\* What comes before a statement is in one statement only; a hint ends with an UPDATE
\* or DELETE.
SaidOnce ==
  /\ Contains(stmt.text, "befor") => ~srm.befor
  /\ stmt.kind \in {"update", "delete"} => ~srm.hint

\* What the object points to is allocated; when it has been freed, nothing is left
\* but the name of the table of an object that was made from the library.
SrmOwns ==
  /\ srm.holds \subseteq heap
  /\ srm.from = "freed" => heap \subseteq {"tabname"}

\* Statements say what their pattern says.
StatementsStand == SameTable /\ ValuesAgree /\ NamesStand /\ SaidOnce /\ SrmOwns
=============================================================================

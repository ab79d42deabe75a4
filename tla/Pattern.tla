-------------------------------- MODULE Pattern --------------------------------
(***************************************************************************)
(* Patterns (T_PkgType): the columns of a C structure, by which it is       *)
(* packed, sent and bound.  netvar.c computes where each column lies,       *)
(* colidx.c finds a column by its name, patt_copy.c and except.c choose     *)
(* columns, json_pack.c and SRM_json.c copy columns from record to record.  *)
(* The strings are names; a list of names is a sequence.                    *)
(***************************************************************************)
EXTENDS Integers, Sequences, FiniteSets

CONSTANTS
  Kinds,        \* the kinds of columns, of those in SizeOf, "bytes" and "struct"
  Names,        \* the names of columns
  MaxColumns,   \* columns of a pattern (a bound of the model)
  Pointers,     \* the names of columns that are pointers (CH_CLOB)
  Raw,          \* of columns whose bytes are taken for a text (CH_LDOUBLE)
  Hidden        \* of columns that are not selected (NOSELECT)

ASSUME PatternAssumption ==
  /\ Kinds \subseteq {"tiny", "short", "int", "int64", "ldouble", "bytes", "struct"}
  /\ IsFiniteSet(Names) /\ Pointers \cup Raw \cup Hidden \subseteq Names /\ MaxColumns \in Nat \ {0}
  /\ Names \cap {"null", "other", "garbled", "inside", "freed"} = {}

VARIABLES
  kinds,    \* a pattern to lay out: the kinds of its columns
  names,    \* a pattern to search: the names of its columns
  hash_name, \* of every name: its place
  choose,   \* a list of names
  record    \* what the columns hold: null or a value of their own, say their name

patternVars == <<kinds, names, hash_name, choose, record>>

-----------------------------------------------------------------------------
(* netvar.c: set_offset *)

\* The sizes of the types (x86-64), which are their alignments too; "bytes" are three.
SizeOf == [tiny |-> 1, short |-> 2, int |-> 4, int64 |-> 8, ldouble |-> 16, bytes |-> 3]
AlignOf == [SizeOf EXCEPT !.bytes = 1]

RoundedUp(k, to) == ((k + to - 1) \div to) * to
HighestOf(S) == CHOOSE n \in S : \A m \in S : m <= n
LowestOf(S) == CHOOSE n \in S : \A m \in S : n <= m

\* Where the columns lie, how large the structure is (the offset of the last
\* entry) and how it is aligned (the bindtype of the last entry).
LayOut(s, sizes, aligns) ==
  LET ends[i \in 0 .. Len(s)] ==
        IF i = 0 THEN 0 ELSE RoundedUp(ends[i - 1], aligns[s[i]]) + sizes[s[i]]
      max_align == HighestOf({1} \cup {aligns[s[i]] : i \in DOMAIN s})
  IN [offsets |-> [i \in DOMAIN s |-> RoundedUp(ends[i - 1], aligns[s[i]])],
      size |-> RoundedUp(ends[Len(s)], max_align),
      align |-> max_align]

\* The structure column of the model: a nested pattern of a short and a tiny one
\* before an int.
Nested == LayOut(<<"short", "tiny", "int">>, SizeOf, AlignOf)

KindLen == [kind \in Kinds |-> IF kind = "struct" THEN Nested.size ELSE SizeOf[kind]]
KindAlign == [kind \in Kinds |-> IF kind = "struct" THEN Nested.align ELSE AlignOf[kind]]

set_offset(s) == LayOut(s, KindLen, KindAlign)

-----------------------------------------------------------------------------
(* colidx.c and pack.c *)

\* There are as many places as columns.
Columns == 0 .. Len(names) - 1
Home(c) == hash_name[names[c + 1]]

\* The first column of each place takes it, the others go on the stack.
Late == {c \in Columns : \E b \in 0 .. c - 1 : Home(b) = Home(c)}
Taken(p) == CHOOSE c \in Columns \ Late : Home(c) = p

\* Every place left over, from the first on, takes the column on top of the stack.
LeftOver == Columns \ {Home(c) : c \in Columns}
OnTop(p) ==
  CHOOSE c \in Late :
    Cardinality({d \in Late : d > c}) = Cardinality({q \in LeftOver : q < p})
ColumnAt == [p \in Columns |-> IF p \in LeftOver THEN OnTop(p) ELSE Taken(p)]

\* Mutant: what was linked to the place before is dropped.
LinkOfAlone(at, p) ==
  LET linked == {q \in LeftOver : Home(at[q]) = Home(at[p])}
  IN IF linked = {} \/ p \in LeftOver THEN -1 ELSE HighestOf(linked)

\* It is linked behind the place of its hash, before those that were linked there.
LinkOf(at, p) ==
  LET linked == {q \in LeftOver : Home(at[q]) = Home(at[p]) /\ (p \in LeftOver => q < p)}
  IN IF linked = {} THEN -1 ELSE HighestOf(linked)

mk_col_idx == LET at == ColumnAt IN [p \in Columns |-> [colno |-> at[p], link |-> LinkOf(at, p)]]

\* The places along the links; one more than there are is behind the last link.
PlacesFrom(colp, key) ==
  LET place[k \in 0 .. Len(names) + 1] ==
        IF k = 0 THEN hash_name[key]
        ELSE IF place[k - 1] = -1 THEN -1 ELSE colp[place[k - 1]].link
  IN place

\* Up to the place that has the name.
index_col(colp, key) ==
  LET place == PlacesFrom(colp, key)
      last == LowestOf({k \in 0 .. Len(names) + 1 :
                          place[k] = -1 \/ names[colp[place[k]].colno + 1] = key})
  IN IF place[last] = -1 THEN -1 ELSE colp[place[last]].colno

\* The number of the last entry when there is no such column.
pkg_getnum(key) == LowestOf({i \in 0 .. Len(names) : i = Len(names) \/ names[i + 1] = key})

\* index_col without an index.
index_plain(key) == IF pkg_getnum(key) = Len(names) THEN -1 ELSE pkg_getnum(key)

-----------------------------------------------------------------------------
(* except.c and patt_copy.c *)

AllColumns == [i \in 1 .. Len(names) |-> i - 1]
NamesOf(list) == {list[i] : i \in DOMAIN list}

\* What a sequence has at some of its places, in its order.
Only(s, places) ==
  LET upto[i \in 0 .. Len(s)] ==
        IF i = 0 THEN <<>> ELSE IF i \in places THEN Append(upto[i - 1], s[i]) ELSE upto[i - 1]
  IN upto[Len(s)]

\* The names that are not in the list.
Unlisted(list) == {i \in DOMAIN names : names[i] \notin NamesOf(list)}
except_col(list) == Only(names, Unlisted(list))

\* The columns of a list of names; all for an empty list.  Of a name that the pattern
\* does not have the code reads the entry before the first: no such list is given.
patt_copy_col(list) ==
  LET idx == mk_col_idx
  IN IF list = <<>> THEN AllColumns ELSE [i \in DOMAIN list |-> index_col(idx, list[i])]

-----------------------------------------------------------------------------
(* json_pack.c and SRM_json.c. *)

\* What a column is as a text: that of a long double is whatever its bytes are.
Text(c) == IF names[c + 1] \in Raw THEN "garbled" ELSE record[c]

\* An object of json-c holds a name once, the last value that was added; a null
\* pointer is never added.
add_json(json, c) ==
  LET name == names[c + 1]
  IN IF name \in Pointers /\ record[c] = "null" THEN json
     ELSE [n \in DOMAIN json \cup {name} |-> IF n = name THEN Text(c) ELSE json[n]]
Object(cols) ==
  LET upto[i \in 0 .. Len(cols)] ==
        IF i = 0 THEN [n \in {} |-> "null"] ELSE add_json(upto[i - 1], cols[i])
  IN upto[Len(cols)]

Selected(c) == names[c + 1] \notin Hidden

\* Without a list, or with an empty one, a column that is not selected is left out; an
\* empty list, unlike none, leaves out all nulls; an unknown name is passed over.
stu_to_json(list, none) ==
  LET idx == mk_col_idx
      number == [i \in DOMAIN list |-> index_col(idx, list[i])]
  IN Object(IF none THEN Only(AllColumns, {i \in DOMAIN names : Selected(i - 1)})
            ELSE IF list = <<>>
            THEN Only(AllColumns, {i \in DOMAIN names : Selected(i - 1) /\ record[i - 1] # "null"})
            ELSE Only(number, {i \in DOMAIN list : number[i] >= 0}))

\* put_str_one sets a pointer to the text that is inside the object.
json_to_struct(rec, json) ==
  [c \in DOMAIN rec |->
     IF names[c + 1] \notin DOMAIN json THEN rec[c]
     ELSE IF names[c + 1] \in Pointers THEN "inside" ELSE json[names[c + 1]]]

\* From this record to another one with the same pattern; the object is freed, and
\* with it the texts that pointers were set to.
SRM_copy(desc, list, none) ==
  LET json == stu_to_json(list, none)
      to == json_to_struct(desc, json)
  IN [c \in DOMAIN to |-> IF names[c + 1] \in Pointers \cap DOMAIN json THEN "freed" ELSE to[c]]

-----------------------------------------------------------------------------
(* Any pattern; the layout and the search are of no concern to each other. *)

PatternInit == kinds = <<>> /\ names = <<>> /\ hash_name = <<>> /\ choose = <<>> /\ record = <<>>

Blank == kinds = <<>> /\ names = <<>>

GiveKinds ==
  /\ Blank
  /\ \E n \in 1 .. MaxColumns : kinds' \in [1 .. n -> Kinds]
  /\ UNCHANGED <<names, hash_name, choose, record>>

GiveNames ==
  /\ Blank
  /\ \E n \in 1 .. MaxColumns :
       names' \in [1 .. n -> Names] /\ hash_name' \in [Names -> 0 .. n - 1]
  /\ UNCHANGED <<kinds, choose, record>>

Unique == \A i, j \in DOMAIN names : names[i] = names[j] => i = j

\* A record and a list of columns of a pattern.
GiveRecord ==
  /\ names # <<>> /\ record = <<>> /\ Unique
  /\ \E nulls \in SUBSET Columns :
       record' = [c \in Columns |-> IF c \in nulls THEN "null" ELSE names[c + 1]]
  /\ \E n \in 0 .. 2 : choose' \in [1 .. n -> Names]
  /\ UNCHANGED <<kinds, names, hash_name>>

PatternNext == GiveKinds \/ GiveNames \/ GiveRecord
PatternSpec == PatternInit /\ [][PatternNext]_patternVars

-----------------------------------------------------------------------------
(* Properties. *)

\* set_offset lays a structure out as the compiler does: every column at the first
\* multiple of its alignment behind the one before it, the whole a multiple of the
\* largest alignment, though the code looks at the type of the next column only.
LaidOut ==
  kinds # <<>> =>
    LET o == set_offset(kinds)
        End(i) == o.offsets[i] + KindLen[kinds[i]]
    IN /\ o.offsets[1] = 0
       /\ \A i \in DOMAIN kinds :
            /\ o.offsets[i] % KindAlign[kinds[i]] = 0 /\ o.align % KindAlign[kinds[i]] = 0
            /\ i > 1 => o.offsets[i] - End(i - 1) \in 0 .. KindAlign[kinds[i]] - 1
       /\ o.size % o.align = 0 /\ o.size - End(Len(kinds)) \in 0 .. o.align - 1

\* An index finds for every name, whatever the hash function, the column that is
\* found without one: the first of that name, or none.
IndexAgrees ==
  names # <<>> =>
    LET idx == mk_col_idx IN \A key \in Names : index_col(idx, key) = index_plain(key)

\* The columns that are not excepted, in their order - as long as one is left: an
\* empty list stands for all columns.
ExceptCopies ==
  (record # <<>> /\ except_col(choose) # <<>>) =>
    patt_copy_col(except_col(choose)) = Only(AllColumns, Unlisted(choose))

\* A copy by way of an object changes the columns that were chosen - without a list
\* those that are selected - and gives each its own value; a pointer that is null is
\* not copied, and with an empty list no null is.  Of a long double the copy is not
\* the value, and a pointer is left behind in freed memory (SRM_json.c:27-30).
CopiesChosen ==
  record # <<>> =>
    \A none \in BOOLEAN :
      LET desc == [c \in Columns |-> "other"]
          to == SRM_copy(desc, choose, none)
          Chosen(c) == IF none \/ choose = <<>> THEN Selected(c) ELSE names[c + 1] \in NamesOf(choose)
          Null(c) == record[c] = "null"
                     /\ (names[c + 1] \in Pointers \/ (~none /\ choose = <<>>))
      IN \A c \in Columns :
           IF Chosen(c) /\ ~Null(c)
           THEN CASE names[c + 1] \in Pointers -> to[c] = "freed"
                  [] names[c + 1] \in Raw \ Pointers -> TRUE
                  [] OTHER -> to[c] = record[c]
           ELSE to[c] = desc[c]

\* Offsets, indexes and copies of a record agree with its columns.
PatternAgrees == LaidOut /\ IndexAgrees /\ ExceptCopies /\ CopiesChosen
=============================================================================

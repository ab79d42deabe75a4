------------------------------- MODULE SessionMC -------------------------------
(***************************************************************************)
(* Small instances of ten views of a connection: the bytes it moves, the   *)
(* heads and bodies of its packages, its buffers, the sessions of the      *)
(* three servers, what a client and a service say to each other in one,    *)
(* what SQL calls leave open on the server, the texts of records and JSON  *)
(* values that are sent, the columns of a row, and the statements made.    *)
(* A behaviour shows one of them, the others rest.                         *)
(***************************************************************************)
EXTENDS Wire, PackBuffers, Session, Transfer, SqlCalls, JsonText, Columns, Stmt

VARIABLE view

viewVars == <<netVars, frameVars, packBufferVars, sessionVars, transferVars, sqlVars, packVars, jsonVars, columnVars,
              stmtVars, view>>

\* Values of up to four levels.
Small == {<<"null">>, <<"int", <<"1">>>>, <<"string", <<"\"">>>>}
Flat ==
  {<<"array", <<>>>>, <<"object", <<>>>>}
  \cup {<<"array", <<v, w>>>> : v \in Small, w \in Small}
  \cup {<<"object", <<<<<<"\\">>, v>>, <<<<"a">>, w>>>>>> : v \in Small, w \in Small}
Nested == {<<"array", <<v, <<"null">>>>>> : v \in Flat} \cup {<<"object", <<<<<<"a">>, v>>>>>> : v \in Flat}
TextValues ==
  {<<"boolean", TRUE>>, <<"boolean", FALSE>>, <<"int", <<"-", "1", "0">>>>}
  \cup {<<"string", s>> : s \in {<<>>, <<"\\", "n">>, <<"newline", "/">>, <<"ctl1">>}}
  \cup Small \cup Flat \cup Nested
  \cup {<<"array", <<v>>>> : v \in {w \in Nested : w[1] = "object"}}

\* Integer types of three and four bits.
Narrow == [tiny |-> 3, int |-> 4, time |-> 4]

\* A column, an expression with an alias, a name that begins with a blank, the row's
\* id; tables that are named, owned and have an alias; conditions and statements.
PatternNames == {<<"a">>, <<"f(a)", "x">>, <<"", "v">>, <<"ROWID">>}
TableNames == {<<"t">>, <<"$DB.", "t">>, <<"o", ".", "t">>, <<"t", " ", "b">>}
Conditions == {<<>>, <<"WHERE", "$DB.", "f">>, <<"SELECT">>, <<"DELETE">>}

ViewInit ==
  /\ view \in {"wire", "frame", "buffers", "session", "transfer", "sql", "pack", "json", "columns", "stmt"}
  /\ WireInit /\ FrameInit /\ PackBuffersInit /\ SessionInit /\ TransferInit /\ SqlInit /\ PackInit /\ JsonInit
  /\ ColumnsInit /\ StmtInit
  /\ view # "wire" => ~yields
  /\ view # "buffers" => build = "pkg" /\ ~undo
  /\ view # "session" => kind = "thread"

ViewNext ==
  /\ UNCHANGED view
  /\ IF view = "wire" THEN WireNext ELSE UNCHANGED netVars
  /\ IF view = "frame" THEN FrameNext ELSE UNCHANGED frameVars
  /\ IF view = "buffers" THEN PackBuffersNext ELSE UNCHANGED packBufferVars
  /\ IF view = "session" THEN SessionNext ELSE UNCHANGED sessionVars
  /\ IF view = "transfer" THEN TransferNext ELSE UNCHANGED transferVars
  /\ IF view = "sql" THEN SqlNext ELSE UNCHANGED sqlVars
  /\ IF view = "pack" THEN PackNext ELSE view = "columns" \/ UNCHANGED packVars
  /\ IF view = "json" THEN JsonNext ELSE UNCHANGED jsonVars
  /\ IF view = "columns" THEN ColumnsNext ELSE UNCHANGED columnVars
  /\ IF view = "stmt" THEN StmtNext ELSE UNCHANGED stmtVars

ViewSpec ==
  /\ ViewInit /\ [][ViewNext]_viewVars
  /\ WireFairness /\ SessionFairness /\ TransferFairness

\* Records, SQL literals, byte texts, JSON texts, columns of every type and statements
\* stand for the values they were made of (pack.c, a64n.c, json_object.c,
\* json_tokener.c, json_pack.c, SRM.c).
TextsStand == RecordsStand /\ JsonStands /\ ColumnsStand /\ StatementsStand
=============================================================================

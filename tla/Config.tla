-------------------------------- MODULE Config --------------------------------
(***************************************************************************)
(* The files a process is configured by.  The file SCPOOLCFG makes the client*)
(* pool (scpool.c), with its look-up and its end: lines with the same d_node*)
(* become the paths of one pool, each with its ring of connections, of which*)
(* ScPool is what goes on in between.  Below: the file of the environment   *)
(* (envcfg.c), of the keys of passwords (decode.c, getdw.c) and of the      *)
(* accounts of the databases (openauth.c).                                  *)
(***************************************************************************)
EXTENDS Integers, Sequences, FiniteSets

CONSTANTS
  DNodes,       \* numbers of servers
  Nums,         \* the column NUM of a line
  MaxCfgLines,  \* lines of the file (a bound of the model)
  MaxOpen       \* connections opened at a time (a bound of the model)

ASSUME ConfigAssumption ==
  DNodes \subseteq Nat /\ Nums \subseteq Int /\ MaxCfgLines \in Nat /\ MaxOpen \in Nat

VARIABLES
  cfgfile,    \* [lines, ended]: the file, and whether its last line ends with a newline
  scpool,     \* the pools, NoPool before and after
  SCPOOLNUM,
  ctx_flg,    \* clients of this process keep their context
  ret,        \* what scpool_init returned last
  opened,     \* descriptors that are open: <<pool, path, connection>>
  labelled    \* the paths that have logged in, in this order: <<pool, path>>

configVars == <<cfgfile, scpool, SCPOOLNUM, ctx_flg, ret, opened, labelled>>

NoPool == <<>>
NoLabel == <<>>

\* A line is a record of SCPOOL_tpl, or a comment, an empty or a wrong one.
CfgRecords == [node : DNodes, num : Nums]
Skipped == [node |-> -1, num |-> 0]
IsRecord(l) == l # Skipped

-----------------------------------------------------------------------------
(* scpool_init *)

\* fgets tells of the end of the file with a last line that has no newline.
LinesRead(f) ==
  SelectSeq(IF f.ended \/ f.lines = <<>> THEN f.lines ELSE SubSeq(f.lines, 1, Len(f.lines) - 1),
            IsRecord)

\* Mutant: only the record before is looked at.
GroupedNext(cfg, l) ==
  IF cfg # <<>> /\ cfg[Len(cfg)][1] = l.node
  THEN [cfg EXCEPT ![Len(cfg)][2] = Append(@, l)]
  ELSE Append(cfg, <<l.node, <<l>>>>)

\* The JSON object of arrays, <<d_node, records>> each, with one more record.
GroupedByNode(cfg, l) ==
  IF \E n \in DOMAIN cfg : cfg[n][1] = l.node
  THEN [n \in DOMAIN cfg |-> IF cfg[n][1] = l.node THEN <<l.node, Append(cfg[n][2], l)>> ELSE cfg[n]]
  ELSE Append(cfg, <<l.node, <<l>>>>)

CfgOf(ls) ==
  LET upTo[i \in 0 .. Len(ls)] == IF i = 0 THEN <<>> ELSE GroupedByNode(upTo[i - 1], ls[i])
  IN upTo[Len(ls)]

\* All connections are in the ring, free_q is the last one.
resource_init(l) ==
  LET num == IF l.num > 0 THEN l.num ELSE 1 IN
  [log |-> l, resource_num |-> num, weight |-> num, DBLABEL |-> NoLabel,
   free_q |-> num - 1,
   next |-> [i \in 0 .. num - 1 |-> IF i < num - 1 THEN i + 1 ELSE 0],
   Socket |-> [i \in 0 .. num - 1 |-> -1]]

PoolOf(group) ==
  [made |-> TRUE, d_node |-> group[1], DBLABEL |-> NoLabel,
   path |-> [j \in DOMAIN group[2] |-> resource_init(group[2][j])]]

\* A lock could not be made: the pools stay as malloc left them, in part.
HalfMade(cfg) == [n \in DOMAIN cfg |-> [made |-> FALSE]]

Returns(pools, num, r) == scpool' = pools /\ SCPOOLNUM' = num /\ ret' = r

NoCfgFile ==
  /\ scpool = NoPool
  /\ \E r \in {-1, -2} : Returns(NoPool, SCPOOLNUM, r)
  /\ ctx_flg' \in BOOLEAN
  /\ UNCHANGED <<cfgfile, opened, labelled>>

\* scpool_init with a pool that is there.
AlreadyMade == scpool # NoPool /\ ret' = 0 /\ UNCHANGED <<cfgfile, scpool, SCPOOLNUM, ctx_flg, opened, labelled>>

scpool_init ==
  LET cfg == CfgOf(LinesRead(cfgfile)) IN
  /\ scpool = NoPool
  /\ ctx_flg' \in BOOLEAN
  /\ \/ cfg = <<>> /\ Returns(NoPool, 0, -3)
     \/ /\ cfg # <<>>
        /\ \/ Returns([n \in DOMAIN cfg |-> PoolOf(cfg[n])], Len(cfg), Len(cfg))
           \/ Returns(NoPool, 0, -4)                    \* no memory for the pools
           \/ Returns(HalfMade(cfg), Len(cfg), -12)     \* no lock of a pool
           \/ \E r \in {-4, -12} : Returns(NoPool, Len(cfg), r) \* a path failed: scpool_free
  /\ labelled' = <<>>
  /\ UNCHANGED <<cfgfile, opened>>

-----------------------------------------------------------------------------
(* Between: connections that log in, and the end *)

Paths(n) == DOMAIN scpool[n].path
Made == scpool # NoPool /\ scpool[1].made

\* sc_connect as far as labels and descriptors go; a server's label is its path.
LogIn(n, j, i) ==
  LET pl == scpool[n].path[j]
      named == ~ctx_flg /\ pl.DBLABEL = NoLabel
      label == IF named THEN <<n, j>> ELSE pl.DBLABEL
  IN /\ Cardinality(opened) < MaxOpen /\ pl.Socket[i] < 0
     /\ scpool' = [scpool EXCEPT ![n].path[j].Socket[i] = i, ![n].path[j].DBLABEL = label,
                                 ![n].DBLABEL = IF named /\ @ = NoLabel THEN label ELSE @]
     /\ opened' = opened \cup {<<n, j, i>>}
     /\ labelled' = IF named THEN Append(labelled, <<n, j>>) ELSE labelled
     /\ UNCHANGED <<cfgfile, SCPOOLNUM, ctx_flg, ret>>

\* scpool_check closes what was idle for long.
scpool_check(n, j, i) ==
  /\ scpool[n].path[j].Socket[i] > -1
  /\ scpool' = [scpool EXCEPT ![n].path[j].Socket[i] = -1]
  /\ opened' = opened \ {<<n, j, i>>}
  /\ UNCHANGED <<cfgfile, SCPOOLNUM, ctx_flg, ret, labelled>>

OpenSockets ==
  {<<n, j, i>> \in opened :
     n \in 1 .. SCPOOLNUM /\ j \in Paths(n) /\ scpool[n].path[j].Socket[i] > -1}

\* SCPOOLNUM stays as it is.
scpool_free ==
  /\ Made
  /\ opened' = opened \ OpenSockets
  /\ scpool' = NoPool
  /\ UNCHANGED <<cfgfile, SCPOOLNUM, ctx_flg, ret, labelled>>

\* The file may be another one the next time.
Edit ==
  /\ scpool = NoPool
  /\ \E n \in 0 .. MaxCfgLines, e \in BOOLEAN :
       \E ls \in [1 .. n -> CfgRecords \cup {Skipped}] : cfgfile' = [lines |-> ls, ended |-> e]
  /\ cfgfile = [lines |-> <<>>, ended |-> TRUE] /\ ret = 0
  /\ UNCHANGED <<scpool, SCPOOLNUM, ctx_flg, ret, opened, labelled>>

ConfigInit ==
  /\ cfgfile = [lines |-> <<>>, ended |-> TRUE] /\ scpool = NoPool /\ SCPOOLNUM = 0
  /\ ctx_flg = FALSE /\ ret = 0 /\ opened = {} /\ labelled = <<>>

ConfigNext ==
  \/ Edit \/ NoCfgFile \/ AlreadyMade \/ scpool_init \/ scpool_free
  \/ /\ Made
     /\ \E n \in DOMAIN scpool : \E j \in Paths(n) : \E i \in DOMAIN scpool[n].path[j].Socket :
          LogIn(n, j, i) \/ scpool_check(n, j, i)

-----------------------------------------------------------------------------
(* The look-ups: pool numbers begin with 0 *)

get_scpool_no(d) ==
  IF scpool = NoPool \/ ~\E n \in 1 .. SCPOOLNUM : scpool[n].d_node = d THEN -1
  ELSE (CHOOSE n \in 1 .. SCPOOLNUM : scpool[n].d_node = d
                                      /\ \A k \in 1 .. n - 1 : scpool[k].d_node # d) - 1

getPathNum(p) ==
  IF scpool = NoPool \/ p < 0 \/ p >= SCPOOLNUM THEN -1 ELSE Len(scpool[p + 1].path)

get_total_conn_num(p) ==
  IF scpool = NoPool \/ p < 0 \/ p >= SCPOOLNUM THEN -1
  ELSE LET pl == scpool[p + 1].path
           sum[j \in 0 .. Len(pl)] == IF j = 0 THEN 0 ELSE sum[j - 1] + pl[j].resource_num
       IN sum[Len(pl)]

get_SC_DBLABEL(p) ==
  IF scpool = NoPool \/ ctx_flg \/ p < 0 \/ p >= SCPOOLNUM THEN NoLabel ELSE scpool[p + 1].DBLABEL

-----------------------------------------------------------------------------
(* Properties. *)

\* The records of a server in the file, in their order.
Records(d) == SelectSeq(LinesRead(cfgfile), LAMBDA l : l.node = d)

\* Each server of the file has one pool, with a path for each of its lines and a ring
\* of as many connections as the line says; nothing else has.
PoolsAsWritten ==
  /\ SCPOOLNUM = Cardinality({d \in DNodes : Records(d) # <<>>})
  /\ \A d \in DNodes :
       LET p == get_scpool_no(d)
           rs == Records(d)
       IN IF rs = <<>> THEN p = -1
          ELSE /\ p >= 0 /\ getPathNum(p) = Len(rs)
               /\ \A j \in DOMAIN rs : scpool[p + 1].path[j].log = rs[j]
               /\ get_total_conn_num(p) >= Len(rs)
               /\ \A k \in 1 .. SCPOOLNUM : scpool[k].d_node = d => k = p + 1

\* From free_q one comes round through every connection of the path, once.
RingsClosed ==
  \A n \in DOMAIN scpool : \A j \in Paths(n) :
    LET pl == scpool[n].path[j]
        after[s \in 0 .. pl.resource_num] == IF s = 0 THEN pl.free_q ELSE pl.next[after[s - 1]]
    IN /\ {after[s] : s \in 0 .. pl.resource_num - 1} = 0 .. pl.resource_num - 1
       /\ after[pl.resource_num] = pl.free_q

\* The label of a pool is the one its first server gave when it logged in.
FirstLabel ==
  \A n \in DOMAIN scpool :
    LET mine == SelectSeq(labelled, LAMBDA l : l[1] = n) IN
    ~ctx_flg => get_SC_DBLABEL(n - 1) = IF mine = <<>> THEN NoLabel ELSE mine[1]

\* The pools are those of the file, also after others were freed or could not be made;
\* without pools no descriptor is left and nothing is found (scpool.c:82-272,
\* scpool.c:722-763).
ConfigRight ==
  /\ Made => PoolsAsWritten /\ RingsClosed /\ FirstLabel
  /\ scpool = NoPool =>
       /\ opened = {}
       /\ \A d \in DNodes : get_scpool_no(d) = -1

-----------------------------------------------------------------------------
(* A text is a sequence of characters; words that are only looked for as wholes are
   one. *)

CONSTANTS
  IdChars,     \* the characters of names of variables
  Environment, \* the variables before: a function from names
  EnvLines,    \* lines of an environment file: a name, and pieces of text
  Labels,      \* labels of databases
  Crcs,        \* of every label its checksum
  KeyLines,    \* lines of a key file: [num, name]
  AuthLines,   \* lines of an account file
  MaxConfLines \* lines of a file (a bound of the model)

ASSUME ConfAssumption ==
  /\ IdChars \cap {"$", "{", "}", "(", ")", " ", "=", "#", "@", "."} = {}
  /\ Crcs \in [Labels -> Int] /\ MaxConfLines \in Nat
  /\ \A l \in KeyLines : l.num \in Int

VARIABLES
  envFile,   \* [lines, ended]: whether the last line ends with a newline
  keyFile,   \* the same
  authFile,  \* the lines
  dblabel    \* the label whose account is wanted

confVars == <<envFile, keyFile, authFile, dblabel>>

\* The loops on fgets leave at a last line that has no newline.
LinesSeen(f) == IF f.ended \/ f.lines = <<>> THEN f.lines ELSE SubSeq(f.lines, 1, Len(f.lines) - 1)

-----------------------------------------------------------------------------
(* envcfg.c: substitute_env *)

CharAt(text, i) == IF i \in DOMAIN text THEN text[i] ELSE ""
BehindText(text, i) == SubSeq(text, i, Len(text))

\* The regular expression: a $, a brace or none, a name as long as can be, a brace of
\* any kind or none.
NameStart(text, i) ==
  IF CharAt(text, i) # "$" THEN 0
  ELSE IF CharAt(text, i + 1) \in IdChars THEN i + 1
  ELSE IF CharAt(text, i + 1) \in {"{", "("} /\ CharAt(text, i + 2) \in IdChars THEN i + 2
  ELSE 0
NameStop(text, from) ==
  CHOOSE j \in from .. Len(text) + 1 :
    CharAt(text, j) \notin IdChars /\ \A k \in from .. j - 1 : text[k] \in IdChars
ReferenceEnd(text, stop) == IF CharAt(text, stop) \in {"}", ")"} THEN stop + 1 ELSE stop

ValueIn(env, name) == IF name \in DOMAIN env THEN env[name] ELSE <<".">>

\* The first reference is replaced and the search goes on behind what replaced it.
RECURSIVE substitute_env(_, _)
substitute_env(line, env) ==
  LET found == {i \in DOMAIN line : NameStart(line, i) # 0}
      first == CHOOSE i \in found : \A j \in found : i <= j
      from == NameStart(line, first)
      stop == NameStop(line, from)
  IN IF found = {} THEN line
     ELSE SubSeq(line, 1, first - 1) \o ValueIn(env, SubSeq(line, from, stop - 1))
          \o substitute_env(BehindText(line, ReferenceEnd(line, stop)), env)

\* putenv: a text without = takes the variable out.
putenv(env, text) ==
  LET signs == {i \in DOMAIN text : text[i] = "="}
      sign == CHOOSE i \in signs : \A j \in signs : i <= j
      name == SubSeq(text, 1, sign - 1)
  IN IF signs = {} THEN [n \in DOMAIN env \ {text} |-> env[n]]
     ELSE [n \in DOMAIN env \cup {name} |-> IF n = name THEN BehindText(text, sign + 1) ELSE env[n]]

\* TRIM and skipblk.
RECURSIVE skipblk(_)
skipblk(text) == IF CharAt(text, 1) = " " THEN skipblk(Tail(text)) ELSE text
RECURSIVE TRIM(_)
TRIM(text) == IF CharAt(text, Len(text)) = " " THEN TRIM(SubSeq(text, 1, Len(text) - 1)) ELSE text
IsSkipped(text) == CharAt(text, 1) \in {"", "#"}

\* One line: strcfg, which does not trim, and the loop of envcfg.
strcfg(text, env) ==
  LET line == skipblk(text) IN IF IsSkipped(line) THEN env ELSE putenv(env, substitute_env(line, env))
envcfg(texts, env) ==
  LET upto[i \in 0 .. Len(texts)] == IF i = 0 THEN env ELSE strcfg(TRIM(texts[i]), upto[i - 1])
  IN upto[Len(texts)]

-----------------------------------------------------------------------------
(* getdw.c, decode.c *)

\* A tree of the numbers: a number that comes again is passed over.
initdw(lines) ==
  LET keys == SelectSeq(lines, LAMBDA l : l.name # "comment")
      First(i) == \A j \in 1 .. i - 1 : keys[j].num # keys[i].num
      at(num) == CHOOSE i \in DOMAIN keys : keys[i].num = num /\ First(i)
  IN [num \in {keys[i].num : i \in DOMAIN keys} |-> keys[at(num)].name]
NoKey == "none"
getdw(num, dw) == IF num \in DOMAIN dw THEN dw[num] ELSE NoKey

\* The key of a label; without one nothing is decrypted.
decodeprepare(label) == getdw(Crcs[label], initdw(LinesSeen(keyFile)))

\* What a key makes of a text: the model's ciphers name their key.
Encrypt(key, text) == <<"@", key>> \o text
encryptpass(key, text) == IF CharAt(text, 1) = key THEN Tail(text) ELSE <<"garbled">>

-----------------------------------------------------------------------------
(* openauth.c *)

\* Items, of which two names mean the user and two the password.
MeaningOf == [UID |-> "UID", USERNAME |-> "UID", PWD |-> "Pwd", PASSWORD |-> "Pwd", SID |-> "DNS", DBOWN |-> "DBOWN"]

\* The value is taken from the line at the place where the key ends in the line
\* without its indentation.
Indentation(n) == [i \in 1 .. n |-> " "]
KeyText(key) == <<key, "=">>
ValueRead(l) == BehindText(Indentation(l.indent) \o KeyText(l.key) \o l.value, Len(KeyText(l.key)) + 1)

\* A user or a password that begins with @ is encrypted.
Deciphered(key, meaning, text) ==
  IF meaning \in {"UID", "Pwd"} /\ CharAt(text, 1) = "@" /\ key # NoKey
  THEN encryptpass(key, Tail(text)) ELSE text

\* Mutant: a section goes on to the end of the file.
EndsSectionLate(l) == FALSE

\* A section begins at its label and ends at the next one - if nothing is between its
\* < and its DBLABEL.
EndsSection(l) == l.what = "label" /\ ~l.apart
NoAccount == [m \in {"UID", "Pwd", "DNS", "DBOWN"} |-> <<>>]
SectionRead(lines, name, key) ==
  LET upto[i \in 0 .. Len(lines)] ==
        IF i = 0 THEN [found |-> FALSE, ended |-> FALSE, got |-> NoAccount]
        ELSE LET s == upto[i - 1]
                 l == lines[i]
             IN IF s.ended \/ l.what = "skip" THEN s
                ELSE IF ~s.found THEN [s EXCEPT !.found = l.what = "label" /\ l.name = name]
                ELSE IF EndsSection(l) THEN [s EXCEPT !.ended = TRUE]
                ELSE IF l.what = "label" THEN s
                ELSE LET m == MeaningOf[l.key] IN [s EXCEPT !.got[m] = Deciphered(key, m, ValueRead(l))]
  IN upto[Len(lines)].got

\* -3: no database or no user.
open_auth(lines, name, key) ==
  LET got == SectionRead(lines, name, key)
  IN [got |-> got, ret |-> IF got["DNS"] = <<>> \/ got["UID"] = <<>> THEN -3 ELSE 0]

-----------------------------------------------------------------------------
(* Any files. *)

NoText == [lines |-> <<>>, ended |-> TRUE]
FilesOf(lines, most) == [lines : UNION {[1 .. n -> lines] : n \in 0 .. most}, ended : BOOLEAN]

ConfInit == envFile = NoText /\ keyFile = NoText /\ authFile = <<>> /\ dblabel = "none"

NoTexts == envFile = NoText /\ keyFile = NoText /\ authFile = <<>>

GiveEnvFile ==
  /\ NoTexts /\ envFile' \in FilesOf(EnvLines, 2)
  /\ UNCHANGED <<keyFile, authFile, dblabel>>
GiveKeyFile ==
  /\ NoTexts /\ keyFile' \in FilesOf(KeyLines, 2)
  /\ UNCHANGED <<envFile, authFile, dblabel>>
GiveAuthFile ==
  /\ envFile = NoText /\ authFile = <<>>
  /\ \E n \in 1 .. MaxConfLines : authFile' \in [1 .. n -> AuthLines]
  /\ dblabel' \in Labels
  /\ UNCHANGED <<envFile, keyFile>>

ConfNext == GiveEnvFile \/ GiveKeyFile \/ GiveAuthFile

-----------------------------------------------------------------------------
(* Properties. *)

\* A line of the environment file as it is written: blanks, a name, pieces.
PieceText(p) ==
  CASE p.kind = "text" -> p.text
    [] p.kind = "braced" -> <<"$", "{">> \o p.text \o <<"}">>
    [] p.kind = "plain" -> <<"$">> \o p.text
PieceMeans(p, env) == IF p.kind = "text" THEN p.text ELSE ValueIn(env, p.text)
RECURSIVE Joined(_)
Joined(texts) == IF texts = <<>> THEN <<>> ELSE texts[1] \o Joined(Tail(texts))
LineText(l) ==
  IF l.kind = "skip" THEN l.text
  ELSE <<" ">> \o l.name \o <<"=">> \o Joined([i \in DOMAIN l.pieces |-> PieceText(l.pieces[i])])

\* A reference without braces ends where its name does, so what follows must not be
\* read as more of it; and no $ of a text may be read as the beginning of one.
Unambiguous(l) ==
  l.kind = "set" =>
    \A i \in DOMAIN l.pieces :
      LET next == IF i < Len(l.pieces) THEN CharAt(PieceText(l.pieces[i + 1]), 1) ELSE ""
          text == l.pieces[i].text \o <<next>>
      IN /\ l.pieces[i].kind = "plain" => next \notin IdChars \cup {"}", ")"}
         /\ l.pieces[i].kind = "text" =>
              \A k \in DOMAIN text : text[k] = "$" => CharAt(text, k + 1) \notin IdChars \cup {"{", "("}

\* Each line sets its variable to its pieces, references replaced by what the lines
\* before have set, and by a point if there is none; what a variable holds is not read
\* for references again (envcfg.c:19-88).
EnvironmentRight ==
  (\A i \in DOMAIN envFile.lines : Unambiguous(envFile.lines[i])) =>
    LET lines == LinesSeen(envFile)
        meant[i \in 0 .. Len(lines)] ==
          IF i = 0 THEN Environment
          ELSE LET env == meant[i - 1]
                   l == lines[i]
                   means == [k \in DOMAIN l.pieces |-> PieceMeans(l.pieces[k], env)]
               IN IF l.kind = "skip" THEN env
                  ELSE [n \in DOMAIN env \cup {l.name} |->
                         IF n = l.name THEN TRIM(Joined(means)) ELSE env[n]]
    IN envcfg([i \in DOMAIN lines |-> LineText(lines[i])], Environment) = meant[Len(lines)]

\* Of the first section with the wanted label the last value of each meaning is got,
\* and nothing of any other section; what was encrypted with the label's key is
\* decrypted - if labels are written together with their < and items are not indented
\* (openauth.c:76-127, decode.c:24-65).
AccountRight ==
  authFile # <<>> =>
    LET key == decodeprepare(dblabel)
        IsLabel(i) == authFile[i].what = "label"
        Begins(i) == IsLabel(i) /\ authFile[i].name = dblabel
        Inside(i) == \E b \in 1 .. i - 1 :
          /\ Begins(b) /\ \A c \in 1 .. b - 1 : ~Begins(c)
          /\ \A c \in b + 1 .. i : ~IsLabel(c)
        Of(m) == {i \in DOMAIN authFile : authFile[i].what = "item" /\ Inside(i) /\ MeaningOf[authFile[i].key] = m}
        Last(S) == CHOOSE i \in S : \A j \in S : j <= i
        Meant(v) == IF key # NoKey /\ CharAt(v, 1) = "@" /\ CharAt(v, 2) = key THEN BehindText(v, 3) ELSE v
        wanted == [m \in {"UID", "Pwd", "DNS", "DBOWN"} |-> IF Of(m) = {} THEN <<>> ELSE Meant(authFile[Last(Of(m))].value)]
        plain == /\ \A i \in DOMAIN authFile : IsLabel(i) => ~authFile[i].apart
                 /\ \A i \in DOMAIN authFile : authFile[i].what = "item" => authFile[i].indent = 0
        known == \A i \in DOMAIN authFile :
                   authFile[i].what = "item" /\ CharAt(authFile[i].value, 1) = "@" =>
                     MeaningOf[authFile[i].key] \in {"UID", "Pwd"} /\ key \in {NoKey, authFile[i].value[2]}
        a == open_auth(authFile, dblabel, key)
    IN plain /\ known => a.got = wanted /\ (a.ret = 0 <=> wanted["DNS"] # <<>> /\ wanted["UID"] # <<>>)

\* The key of a label is the one of the first line with its checksum, whatever the
\* others are (getdw.c:8-57).
KeyFound ==
  \A label \in Labels :
    LET lines == LinesSeen(keyFile)
        fit == {i \in DOMAIN lines : lines[i].name # "comment" /\ lines[i].num = Crcs[label]}
    IN decodeprepare(label) = IF fit = {} THEN NoKey ELSE lines[CHOOSE i \in fit : \A j \in fit : i <= j].name

ConfTextsRight == EnvironmentRight /\ AccountRight /\ KeyFound
=============================================================================

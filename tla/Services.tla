------------------------------- MODULE Services --------------------------------
(***************************************************************************)
(* The services that come with every server (scsrv) and the client's side   *)
(* of them (sccli): the table of services by name, the list of files, the   *)
(* gate before remote commands, the modules and the echo.  A package is     *)
(* answered by packages whose heads say what they are; Transfer is how the  *)
(* blocks of files and commands go on from the answers given here.          *)
(***************************************************************************)
EXTENDS Integers, Sequences, FiniteSets

CONSTANTS
  SrvNames,     \* names of services
  NameSums,     \* of every name the sum of its bytes
  MaxServices,  \* services of a server (a bound of the model)
  Events,       \* numbers of events; the one below is what Event_proc makes of it
  EventOf,
  Status,       \* what stat tells of a file
  PathLengths,  \* lengths of paths, with room for any in a block
  MaxListed,    \* words of a listing (a bound of the model)
  BlockSize,    \* SDBC_BLKSZ
  Black,        \* how many patterns of forbidden commands there are
  FileNames,    \* names of files: sequences of characters
  MaxPackages   \* packages of an answer, lines of a file (a bound of the model)

ASSUME ServicesAssumption ==
  /\ NameSums \in [SrvNames -> Nat] /\ MaxServices \in Nat
  /\ 0 \notin Events /\ EventOf \in [Events -> Events]
  /\ MaxListed \in Nat /\ BlockSize \in Nat
  /\ \A n \in PathLengths : n \in Nat \ {0} /\ n < BlockSize - 2
  /\ Black \in Nat /\ MaxPackages \in Nat

VARIABLES
  srvNames,  \* the names of SRVFUNC from place 1 on
  ask,       \* a package for one of the services and what the service meets
  wanted     \* what getls receives, what s_getfile reads, and where it runs

serviceVars == <<srvNames, ask, wanted>>

\* These numbers stand for the codes of ERRNO2.
PACK_CONTINUE == 80
PACK_NOANSER == 81
PACK_STATUS == 82
FORMATERR == -7
LENGERR == -2
EINVAL == 22

LeastOf(S) == CHOOSE i \in S : \A j \in S : i <= j

-----------------------------------------------------------------------------
(* sccli/getsvc.c: the index of the names *)

svc_hash_name(name, mod) == NameSums[name] % mod

\* Places count from 0, names from 1.  The first name with a hash has its place, the
\* others wait on a stack, and a place left over takes the one on top.
HomeNames(names, place) == {i \in DOMAIN names : svc_hash_name(names[i], Len(names)) = place}
Collided(names) ==
  LET hash(i) == svc_hash_name(names[i], Len(names))
      late(i) == \E j \in 1 .. i - 1 : hash(j) = hash(i)
  IN SelectSeq([i \in DOMAIN names |-> i], late)
Holes(names) ==
  SelectSeq([p \in DOMAIN names |-> p - 1], LAMBDA p : HomeNames(names, p) = {})
Colno(names, place) ==
  IF HomeNames(names, place) # {} THEN LeastOf(HomeNames(names, place))
  ELSE LET stack == Collided(names)
           nth == CHOOSE n \in DOMAIN stack : Holes(names)[n] = place
       IN stack[Len(stack) + 1 - nth]

ChainHash(names, p) == svc_hash_name(names[Colno(names, p)], Len(names))

\* Mutant: the latest place takes the place of the one that hung there.
NamesLinkedOver(names, place) ==
  LET mine == {p \in 0 .. Len(names) - 1 : /\ HomeNames(names, p) = {}
                                           /\ ChainHash(names, p) = ChainHash(names, place)}
  IN IF place \in mine \/ mine = {} THEN -1 ELSE CHOOSE p \in mine : \A q \in mine : q <= p

\* The places that were left over hang one behind the other at the place their names
\* have lost; -1 ends the chain.
NamesLinked(names, place) ==
  LET mine == {p \in 0 .. Len(names) - 1 : /\ HomeNames(names, p) = {}
                                           /\ ChainHash(names, p) = ChainHash(names, place)}
      next == {p \in mine : place \in mine => p > place}
  IN IF next = {} THEN -1 ELSE LeastOf(next)

mk_srv_hash(names) ==
  [p \in 0 .. Len(names) - 1 |-> [colno |-> Colno(names, p), link |-> NamesLinked(names, p)]]

\* Along the chain; no such service is 1, the echo.
RECURSIVE AlongNames(_, _, _, _)
AlongNames(names, index, place, key) ==
  IF names[index[place].colno] = key THEN index[place].colno
  ELSE IF index[place].link = -1 THEN 1
  ELSE AlongNames(names, index, index[place].link, key)
get_srv_no(names, key) ==
  IF names = <<>> THEN 1
  ELSE AlongNames(names, mk_srv_hash(names), svc_hash_name(key, Len(names)), key)

-----------------------------------------------------------------------------
(* AnswersSent *)

HeadSaying(event, errno1, errno2) == [PROTO_NUM |-> event, ERRNO1 |-> errno1, ERRNO2 |-> errno2]

\* Without an Event_proc there is no event.
PutEvent(event) == IF ask.event_proc THEN EventOf[event] ELSE 0
Final(errno1, errno2) == <<HeadSaying(PutEvent(ask.event), errno1, errno2)>>

\* return_error: the data is the message.
return_error(errno1, errno2) == Final(errno1, errno2)

\* scsrv/get_srvname.c: the number stays that of the package.
get_srvname ==
  LET errno == IF ask.meets = "no table" THEN -1 ELSE 0 IN <<HeadSaying(ask.event, errno, errno)>>

\* scsrv/echo.c: the text is turned round, all but a newline at its end.
RECURSIVE EndsSwapped(_, _, _)
EndsSwapped(text, p, p1) ==
  IF p1 <= p THEN text
  ELSE EndsSwapped([text EXCEPT ![p] = text[p1], ![p1] = text[p]], p + 1, p1 - 1)
reversln(text) ==
  IF text = <<>> THEN text
  ELSE EndsSwapped(text, 1, IF text[Len(text)] = "\n" THEN Len(text) - 1 ELSE Len(text))
Echo == IF ask.ERRNO2 \in {PACK_NOANSER, PACK_CONTINUE} THEN <<>> ELSE Final(0, 0)

\* conf/isdir.c: isrfile.  -1: there is no such file.
isrfile(st) ==
  CASE st.mode = "none" -> -1
    [] st.mode = "other" -> 0
    [] st.mode = "regular" ->
         IF (IF st.root THEN st.readable # {}
             ELSE \/ "other" \in st.readable
                  \/ st.group /\ "group" \in st.readable
                  \/ st.owner /\ "user" \in st.readable)
         THEN 1 ELSE 0

\* scsrv/filelist.c.  The words ls prints go one by one into the block; one that has no
\* room starts the next block, and only such a one is followed by a blank.  A word
\* that ends with : says that nothing was found, as long as the block is empty.
NoBlock == [words |-> <<>>, used |-> 0]
Listed(ls) ==
  LET upto[i \in 0 .. Len(ls)] ==
        IF i = 0 THEN [sent |-> <<>>, block |-> NoBlock, ended |-> FALSE]
        ELSE LET s == upto[i - 1]
                 w == ls[i]
             IN IF s.ended THEN s
                ELSE IF s.block.used = 0 /\ w.colon THEN [s EXCEPT !.ended = TRUE]
                ELSE IF isrfile(w.stat) <= 0 THEN s
                ELSE IF BlockSize - 2 - s.block.used > w.len
                THEN [s EXCEPT !.block = [words |-> Append(@.words, w), used |-> @.used + w.len]]
                ELSE [s EXCEPT !.sent = Append(@, s.block),
                               !.block = [words |-> <<w>>, used |-> w.len + 1]]
  IN upto[Len(ls)]
ListBlocks(ls) ==
  LET end == Listed(ls)
  IN IF end.block.used > 0 THEN Append(end.sent, end.block) ELSE end.sent

filels ==
  CASE ask.PKG_LEN = 0 -> Final(-1, -1)
    [] ask.PKG_LEN > 0 /\ ask.meets = "no memory" -> Final(-2, -1)
    [] ask.PKG_LEN > 0 /\ ask.meets = "no process" -> Final(ask.errno, -1)
    [] ask.PKG_LEN > 0 /\ ask.meets = "done" ->
         [b \in DOMAIN ListBlocks(ask.ls) |-> HeadSaying(0, ask.ERRNO1, PACK_CONTINUE)]
           \o Final(ask.ERRNO1, 0)

\* scsrv/chkexec.c: the first pattern of the black list that is in the command, from 1.
\* A package of one byte is an empty text.
chkexec == IF ask.PKG_LEN <= 1 THEN -9999
           ELSE IF ask.black = {} THEN 0 ELSE LeastOf(ask.black)

\* scsrv/rexec.c: what is answered at once, and what is run: a command to its end, or one
\* that takes or gives text, of which Transfer tells.
Rexec ==
  LET Runs(answers, what) == [answers |-> answers, runs |-> what]
      io_flag == ask.ERRNO1
  IN IF ask.PKG_LEN = 0 THEN Runs(Final(EINVAL, 0), "none")
     ELSE IF chkexec # 0 THEN Runs(Final(chkexec, 0), "none")
     ELSE IF io_flag = 0 THEN Runs(Final(ask.errno, 0), "command")
     ELSE IF io_flag \notin {1, 2} THEN Runs(Final(FORMATERR, 0), "none")
     ELSE IF ask.meets = "no process" THEN Runs(Final(ask.errno, 0), "none")
     ELSE IF io_flag = 1 THEN Runs(Final(0, 0), "input") ELSE Runs(<<>>, "output")

\* scsrv/dmapp.c.  freed: the values given back, of which the answer of a module has
\* taken the list of errors.  A module that wants its thread to end has -1 given back,
\* which is no value.
WantsStatus == ask.ERRNO2 = PACK_STATUS
Refused == IF WantsStatus THEN PACK_NOANSER ELSE -1
dmapp ==
  LET wants == ask.ERRNO2 # PACK_NOANSER
      Says(answers, freed) == [answers |-> answers, freed |-> freed]
  IN CASE ask.meets = "bad json" -> Says(return_error(FORMATERR, Refused), <<"errors">>)
       [] ask.meets = "escape" -> Says(<<>>, <<"-1", "json">>)
       [] ask.meets = "nothing" ->
            Says(IF wants THEN Final(-1, Refused) ELSE <<>>, <<"errors", "json">>)
       [] ask.meets = "done" ->
            Says(IF wants THEN Final(0, IF WantsStatus THEN PACK_STATUS ELSE 0) ELSE <<>>,
                 <<"result", "errors", "json">>)

dmmgr ==
  IF ask.PKG_LEN = 0 THEN return_error(LENGERR, Refused)
  ELSE IF ask.ERRNO2 = PACK_NOANSER THEN <<>> ELSE Final(0, 0)

AnswersSent ==
  CASE ask.svc = "get_srvname" -> get_srvname
    [] ask.svc = "Echo" -> Echo
    [] ask.svc = "filels" -> filels
    [] ask.svc = "Rexec" -> Rexec.answers
    [] ask.svc = "dmapp" -> dmapp.answers
    [] ask.svc = "dmmgr" -> dmmgr

-----------------------------------------------------------------------------
(* sccli/getls.c *)

\* One word a line; a word that ends the text is not written any more.
s_output(m) == IF m.blank \/ m.words = <<>> THEN m.words ELSE SubSeq(m.words, 1, Len(m.words) - 1)

\* The first package that is not of the list ends it, well only if it says 100.  When no
\* more comes, RecvPack fails.
getls(packages) ==
  LET ends == {i \in DOMAIN packages : packages[i].ERRNO1 # 0 \/ packages[i].ERRNO2 # 0}
      end == IF ends = {} THEN Len(packages) + 1 ELSE LeastOf(ends)
      written[i \in 0 .. end - 1] == IF i = 0 THEN <<>> ELSE written[i - 1] \o s_output(packages[i])
  IN [ret |-> IF ends # {} /\ packages[end].ERRNO2 = 100 THEN 0 ELSE -1,
      written |-> written[end - 1]]

sc_basename(name) ==
  LET slashes == {i \in DOMAIN name : name[i] = "/"}
      last == CHOOSE i \in slashes : \A j \in slashes : j <= i
  IN IF slashes = {} THEN name ELSE SubSeq(name, last + 1, Len(name))
EndsInSlash(name) == name # <<>> /\ name[Len(name)] = "/"

\* Where a file goes to.  For a directory given without its / the / is put behind the
\* first ret = 2 characters.
Target(line) ==
  LET p == sc_basename(line.names[1])
      dir == IF wanted.RECVDIR = <<>> THEN <<"/", "t", "m", "p">> ELSE wanted.RECVDIR
      dflnm == line.names[2]
  IN IF Len(line.names) = 1 THEN IF EndsInSlash(dir) THEN dir \o p ELSE dir \o <<"/">> \o p
     ELSE IF EndsInSlash(dflnm) THEN dflnm \o p
     ELSE IF line.isdir /\ Len(dflnm) >= 2 THEN SubSeq(dflnm, 1, 2) \o <<"/">> \o p
     ELSE dflnm

\* s_getfile: line by line until one fails; fails: what N_Get_File returns.
s_getfile(lines) ==
  LET named == SelectSeq(lines, LAMBDA l : l.names[1][1] # "#")
      bad == {i \in DOMAIN named : named[i].fails \notin {0, 100}}
      upto == IF bad = {} THEN Len(named) ELSE LeastOf(bad)
  IN [ret |-> IF bad = {} THEN 0 ELSE named[upto].fails,
      got |-> [i \in 1 .. upto |-> <<named[i].names[1], Target(named[i])>>]]

m_getfile(packages) ==
  LET list == getls(packages)
  IN IF list.ret # 0 THEN [ret |-> list.ret, got |-> <<>>]
     ELSE s_getfile([i \in DOMAIN list.written |->
                       [names |-> <<list.written[i]>>, isdir |-> FALSE, fails |-> wanted.fails]])

-----------------------------------------------------------------------------
(* Any table, package, listing and file. *)

NoAsk == [svc |-> "none"]
NoWish == [packages |-> <<>>, lines |-> <<>>, RECVDIR |-> <<>>, fails |-> 0]
ServiceInit == srvNames = <<>> /\ ask = NoAsk /\ wanted = NoWish
AtRest == srvNames = <<>> /\ ask = NoAsk /\ wanted = NoWish

AddService ==
  /\ ask = NoAsk /\ wanted = NoWish /\ Len(srvNames) < MaxServices
  /\ \E name \in SrvNames :
       (\A i \in DOMAIN srvNames : srvNames[i] # name) /\ srvNames' = Append(srvNames, name)
  /\ UNCHANGED <<ask, wanted>>

\* What ls prints.
ListedWords == [len : PathLengths, colon : BOOLEAN, stat : Status]

\* What a service may meet.
Meets == [get_srvname |-> {"done", "no table"}, Echo |-> {"done"},
          filels |-> {"done", "no memory", "no process"}, Rexec |-> {"done", "no process"},
          dmapp |-> {"done", "bad json", "escape", "nothing"}, dmmgr |-> {"done"}]

AskFor ==
  /\ AtRest
  /\ \E svc \in DOMAIN Meets :
     \E meets \in Meets[svc], event \in Events, proc \in BOOLEAN, len \in {0, 1, 2},
        errno1 \in 0 .. 3, errno2 \in {0, PACK_CONTINUE, PACK_NOANSER, PACK_STATUS},
        black \in SUBSET (1 .. Black) :
       ask' = [svc |-> svc, event |-> event, event_proc |-> proc, PKG_LEN |-> len,
               ERRNO1 |-> errno1, ERRNO2 |-> errno2, black |-> black, meets |-> meets,
               errno |-> 5, ls |-> <<>>]
  /\ UNCHANGED <<srvNames, wanted>>

PrintWord ==
  /\ ask # NoAsk /\ ask.svc = "filels" /\ ask.meets = "done" /\ ask.PKG_LEN = 2
  /\ ask.event_proc /\ ask.event = LeastOf(Events) /\ ask.ERRNO1 = 0 /\ ask.ERRNO2 = 0
  /\ ask.black = {} /\ Len(ask.ls) < MaxListed
  /\ \E w \in ListedWords : ask' = [ask EXCEPT !.ls = Append(@, w)]
  /\ UNCHANGED <<srvNames, wanted>>

WishNames ==
  /\ srvNames = <<>> /\ ask = NoAsk
  /\ \/ /\ wanted.lines = <<>> /\ Len(wanted.packages) < MaxPackages
        /\ \E n \in FileNames, words \in {1, 2}, blank \in BOOLEAN,
              errno \in {0, 100, PACK_CONTINUE}, f \in {0, -1} :
             wanted' = [wanted EXCEPT !.fails = f, !.packages = Append(@,
               [ERRNO1 |-> 0, ERRNO2 |-> errno, words |-> [w \in 1 .. words |-> n], blank |-> blank])]
     \/ /\ wanted.packages = <<>> /\ Len(wanted.lines) < MaxPackages
        /\ \E ns \in {<<n>> : n \in FileNames} \cup (FileNames \X FileNames), d \in BOOLEAN,
              f \in {0, 100, -1}, dir \in FileNames \cup {<<>>} :
             /\ d => Len(ns) = 2
             /\ wanted' = [wanted EXCEPT !.RECVDIR = dir,
                                      !.lines = Append(@, [names |-> ns, isdir |-> d, fails |-> f])]
  /\ UNCHANGED <<srvNames, ask>>

ServiceNext == AddService \/ AskFor \/ PrintWord \/ WishNames

-----------------------------------------------------------------------------
(* Properties. *)

\* Every service is found by its name under its number and no other name is, whatever
\* hashes collide (getsvc.c:24-90, get_srvname.c:19-27).
ServicesFound ==
  \A key \in SrvNames :
    LET mine == {i \in DOMAIN srvNames : srvNames[i] = key}
    IN get_srv_no(srvNames, key) = IF mine = {} THEN 1 ELSE LeastOf(mine)

\* A package is answered by one package that ends it, behind any that go on, with the
\* event of its caller; who wants none gets none from the services that look at it, but
\* for what they could not read (echo.c:22, dmapp.c:27-62, filelist.c:93-124).
AnsweredOnce ==
  ask # NoAsk =>
    LET finals == {i \in DOMAIN AnswersSent : AnswersSent[i].ERRNO2 # PACK_CONTINUE}
        heeds == \/ ask.svc = "Echo"
                 \/ ask.svc = "dmapp" /\ ask.meets # "bad json"
                 \/ ask.svc = "dmmgr" /\ ask.PKG_LEN > 0
        later == \/ ask.svc = "dmapp" /\ ask.meets = "escape"
                 \/ ask.svc = "Rexec" /\ Rexec.runs = "output"
                 \/ ask.svc = "Echo" /\ ask.ERRNO2 = PACK_CONTINUE
    IN /\ finals = IF (heeds /\ ask.ERRNO2 = PACK_NOANSER) \/ later THEN {} ELSE {Len(AnswersSent)}
       /\ \A i \in finals : ask.svc # "get_srvname" => AnswersSent[i].PROTO_NUM = PutEvent(ask.event)
       /\ \A i \in DOMAIN AnswersSent \ finals : AnswersSent[i].PROTO_NUM = 0

\* Nothing runs that is on the black list, and who is refused is told the first pattern
\* that did it (chkexec.c:48-64, rexec.c:46-60).
CommandsGated ==
  ask # NoAsk /\ ask.svc = "Rexec" /\ ask.PKG_LEN > 1 /\ ask.black # {} =>
    /\ Rexec.runs = "none" /\ Rexec.answers[1].ERRNO1 \in ask.black
    /\ \A i \in ask.black : Rexec.answers[1].ERRNO1 <= i

\* What a call of a module has made is given back once - but for a module that wants its
\* thread to end (dmapp.c:27-68).
ModulesFreed ==
  ask # NoAsk /\ ask.svc = "dmapp" /\ ask.meets # "escape" =>
    LET made == {"errors"} \cup (IF ask.meets = "bad json" THEN {} ELSE {"json"})
                           \cup (IF ask.meets = "done" THEN {"result"} ELSE {})
    IN {dmapp.freed[i] : i \in DOMAIN dmapp.freed} = made /\ Len(dmapp.freed) = Cardinality(made)

\* The blocks hold every readable file ls has named, once and in order, and no block is
\* longer than its buffer (filelist.c:70-113).
ListingRight ==
  ask # NoAsk /\ ask.svc = "filels" =>
    LET Readable(i) == isrfile(ask.ls[i].stat) = 1
        first == {i \in DOMAIN ask.ls : ask.ls[i].colon /\ \A j \in 1 .. i - 1 : ~Readable(j)}
        heard == IF first = {} THEN ask.ls ELSE SubSeq(ask.ls, 1, LeastOf(first) - 1)
        blocks == ListBlocks(ask.ls)
        joined[b \in 0 .. Len(blocks)] == IF b = 0 THEN <<>> ELSE joined[b - 1] \o blocks[b].words
    IN /\ joined[Len(blocks)] = SelectSeq(heard, LAMBDA w : isrfile(w.stat) = 1)
       /\ \A b \in DOMAIN blocks : blocks[b].used < BlockSize /\ blocks[b].words # <<>>

\* getls returns 0 when 100 ends the list and nothing before was wrong, and then every
\* name is fetched whose word was not the last of its package without a blank; a file
\* goes into the directory that is given or RECVDIR under its own name, or where it is
\* told - unless a directory of more than two letters is given without its /
\* (getls.c:22-94).
FilesGot ==
  LET list == getls(wanted.packages)
      all == m_getfile(wanted.packages)
      Plain(l) == Len(l.names) = 1 \/ EndsInSlash(l.names[2]) \/ ~l.isdir
      lines == SelectSeq(wanted.lines, LAMBDA l : l.names[1][1] # "#")
      got == s_getfile(wanted.lines).got
      dir == IF wanted.RECVDIR = <<>> THEN <<"/", "t", "m", "p">> ELSE wanted.RECVDIR
  IN /\ list.ret = 0 <=>
          \E n \in DOMAIN wanted.packages :
            /\ wanted.packages[n].ERRNO2 = 100
            /\ \A k \in 1 .. n - 1 : wanted.packages[k].ERRNO2 = 0
     /\ all.ret = 0 => Len(all.got) = Len(SelectSeq(list.written, LAMBDA n : n[1] # "#"))
     /\ \A i \in DOMAIN got :
          /\ got[i][1] = lines[i].names[1]
          /\ sc_basename(got[i][1]) # <<>> /\ Plain(lines[i]) =>
               IF Len(lines[i].names) = 1
               THEN \E slash \in {<<>>, <<"/">>} :
                      /\ got[i][2] = dir \o slash \o sc_basename(got[i][1])
                      /\ EndsInSlash(dir \o slash)
               ELSE got[i][2] = lines[i].names[2]
                      \o (IF EndsInSlash(lines[i].names[2]) THEN sc_basename(got[i][1]) ELSE <<>>)

\* The echo of a text is the text turned round in front of its newline (echo.c:4-18).
EchoTurns ==
  \A i \in DOMAIN wanted.packages :
    LET text == wanted.packages[i].words[1]
        n == Len(text)
    IN \A end \in {<<>>, <<"\n">>} :
         reversln(text \o end) = [k \in 1 .. n |-> text[n + 1 - k]] \o end

ServicesRight ==
  ServicesFound /\ AnsweredOnce /\ CommandsGated /\ ModulesFreed /\ ListingRight /\ FilesGot /\ EchoTurns
=============================================================================

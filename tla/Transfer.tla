------------------------------- MODULE Transfer --------------------------------
(***************************************************************************)
(* Files, remote commands and single calls over one connection: the client *)
(* (sccli/client.c, sccli/sqlc.c) and the services (scsrv/rexec.c), which  *)
(* agree on who speaks next by ERRNO2 alone.  A call may take several       *)
(* packages either way; the next call starts on the same connection.        *)
(*                                                                         *)
(* A file is its number of blocks; the two channels are FIFO.  A package   *)
(* names the call it was sent for, which the code does not know.           *)
(***************************************************************************)
EXTENDS Integers, Sequences

CONSTANTS Calls,        \* the kinds of calls made
          Faults,       \* what may fail
          MaxCalls,     \* calls on the connection (a bound of the model)
          MaxBlocks,    \* blocks of a file or of a command's text (a bound)
          MaxFaults     \* faults of a behaviour (a bound)

ASSUME TransferAssumption ==
  /\ Calls \subseteq {"put", "get", "input", "output", "pwd", "sql"}
  /\ Faults \subseteq {"open", "write", "short", "read", "memory", "wait", "forget", "putwait", "execwait"}
  /\ MaxCalls \in Nat /\ MaxBlocks \in Nat /\ MaxFaults \in Nat

VARIABLES
  cli,      \* the client: where it is, its call, blocks it read and stored
  srv,      \* the server: where it is, blocks it read and stored, errno kept
  toSrv, toCli,
  calls,    \* calls begun
  errno,    \* the client's clip->Errno is -1: the pool gives the connection up
  faults,   \* faults so far
  strayed   \* get_srvname has answered the end of a command's input

transferVars == <<cli, srv, toSrv, toCli, calls, errno, faults, strayed>>

Request(op) == [op |-> op, more |-> FALSE, quiet |-> FALSE, id |-> calls + 1]
Block(more, quiet) == [op |-> "block", more |-> more, quiet |-> quiet, id |-> calls]
\* The last package of a command's input has number 1 when something was read; or
\* else it has that of the answer, 0, which is get_srvname's.
LastInput == [Block(FALSE, TRUE) EXCEPT !.op = IF cli.read = 0 THEN "names" ELSE "block"]
Reply(err, more, data, id) == [err |-> err, more |-> more, data |-> data, id |-> id]

TransferInit ==
  /\ cli = [at |-> "idle", op |-> "none", read |-> 0, stored |-> 0, left |-> 0, ret |-> 0]
  /\ srv = [at |-> "loop", id |-> 0, read |-> 0, stored |-> 0, left |-> 0, flg |-> 0]
  /\ toSrv = <<>> /\ toCli = <<>>
  /\ calls = 0 /\ errno = FALSE /\ faults = 0 /\ strayed = FALSE

Fails(f) == f \in Faults /\ faults < MaxFaults /\ faults' = faults + 1
Works == UNCHANGED faults

-----------------------------------------------------------------------------
(* The client. *)

Waiting == {"head", "answer", "final", "take"}

\* N_Put_File, N_Get_File, N_Rexec with input or output, N_PWD, N_ChDir and
\* N_PutEnv, or a call of sqlc.c: the request.  left: what the local file has.
BeginCall(op, n) ==
  /\ cli.at = "idle" /\ ~errno /\ calls < MaxCalls
  /\ n > 0 => op \in {"put", "input"}
  /\ calls' = calls + 1
  /\ toSrv' = Append(toSrv, Request(op))
  /\ cli' = [at |-> CASE op \in {"put", "input"} -> "head"
                      [] op \in {"get", "output"} -> "take"
                      [] op \in {"pwd", "sql"} -> "answer",
             op |-> op, read |-> 0, stored |-> 0, left |-> n, ret |-> 0]
  /\ UNCHANGED <<srv, toCli, errno, faults, strayed>>

Return(ret) == cli' = [cli EXCEPT !.at = "idle", !.ret = ret]

\* The server has opened the file or the command, or says why not.
TakeHead ==
  /\ cli.at = "head" /\ toCli # <<>>
  /\ toCli' = Tail(toCli)
  /\ IF Head(toCli).err # 0 THEN Return(1) ELSE cli' = [cli EXCEPT !.at = "send"]
  /\ UNCHANGED <<srv, toSrv, calls, errno, faults, strayed>>

\* The next block of the local file, or of what input() writes.  A read error
\* ends the loop as the end of the file does.
SendBlock ==
  /\ cli.at = "send" /\ cli.left > 0
  /\ toSrv' = Append(toSrv, Block(TRUE, FALSE))
  /\ cli' = [cli EXCEPT !.left = @ - 1, !.read = @ + 1]
  /\ UNCHANGED <<srv, toCli, calls, errno, faults, strayed>>

\* The package without PACK_CONTINUE: of a file it is to be answered, of a
\* command's input it is PACK_NOANSER.
SendLast ==
  /\ cli.at = "send"
  /\ \/ cli.left = 0 /\ Works
     \/ cli.left > 0 /\ cli.op = "put" /\ Fails("read")
  /\ toSrv' = Append(toSrv, IF cli.op = "input" THEN LastInput ELSE Block(FALSE, FALSE))
  /\ IF cli.op = "input" THEN Return(0) ELSE cli' = [cli EXCEPT !.at = "final"]
  /\ UNCHANGED <<srv, toCli, calls, errno, strayed>>

\* The one answer of a short call, or the last one of a file that was put.
TakeAnswer ==
  /\ cli.at \in {"answer", "final"} /\ toCli # <<>>
  /\ toCli' = Tail(toCli)
  /\ Return(Head(toCli).err)
  /\ UNCHANGED <<srv, toSrv, calls, errno, faults, strayed>>

\* N_Get_File and N_Rexec take packages as long as they say PACK_CONTINUE; an
\* error of a command ends it at once.  When the local file cannot be written
\* the rest stays unread, the connection is given up, and the result is errno,
\* which a write that was short has not set.
TakeBlock ==
  LET m == Head(toCli) IN
  /\ cli.at = "take" /\ toCli # <<>>
  /\ toCli' = Tail(toCli)
  /\ \/ /\ cli' = [cli EXCEPT !.stored = IF m.data THEN @ + 1 ELSE @,
                              !.at = IF m.more /\ ~(cli.op = "output" /\ m.err # 0)
                                     THEN "take" ELSE "idle",
                              !.ret = m.err]
        /\ Works /\ UNCHANGED errno
     \/ /\ cli.op = "get" /\ m.data /\ Fails("write")
        /\ \E ret \in {0, 1} : Return(ret)
        /\ errno' = TRUE
  /\ UNCHANGED <<srv, toSrv, calls, strayed>>

\* RecvPack times out.  The calls of client.c on files set Errno to -1; N_Rexec
\* and the calls of sqlc.c return the error and leave Errno (forget).
GiveUp ==
  /\ cli.at \in Waiting /\ toCli = <<>>
  /\ \/ cli.op \in {"put", "get", "pwd"} /\ Fails("wait") /\ errno' = TRUE
     \/ cli.op \in {"input", "output", "sql"} /\ Fails("forget") /\ UNCHANGED errno
  /\ Return(1)
  /\ UNCHANGED <<srv, toSrv, toCli, calls, strayed>>

-----------------------------------------------------------------------------
(* The server. *)

Answer(err, more, data, id) == toCli' = Append(toCli, Reply(err, more, data, id))
Loop == srv' = [srv EXCEPT !.at = "loop"]
Serving(at, id, n) ==
  srv' = [at |-> at, id |-> id, read |-> 0, stored |-> 0, left |-> n, flg |-> 0]

\* Mutant: echo answers every package, as it does for a client that calls it.
EchoAll(m) ==
  /\ m.op = "block" /\ Works /\ UNCHANGED srv
  /\ Answer(0, FALSE, FALSE, m.id)

\* A package that reaches the session's loop with number 1 is for Echo.
EchoBlock(m) ==
  /\ m.op = "block" /\ Works /\ UNCHANGED srv
  /\ IF m.more \/ m.quiet THEN UNCHANGED toCli ELSE Answer(0, FALSE, FALSE, m.id)

\* Mutant: putFile or Rexec does not answer when it cannot open.
OpenSilent(m) ==
  /\ m.op \in {"put", "input"}
  /\ \/ /\ Works /\ Answer(0, FALSE, FALSE, m.id)
        /\ Serving(IF m.op = "put" THEN "put" ELSE "exec", m.id, 0)
     \/ Fails("open") /\ UNCHANGED <<toCli, srv>>

\* get_srvname answers whatever ERRNO2 says.
Names(m) ==
  /\ m.op = "names" /\ Works /\ UNCHANGED srv
  /\ Answer(0, FALSE, FALSE, m.id)

\* PutFile opens the file, Rexec the command for its input.
OpenIn(m) ==
  /\ m.op \in {"put", "input"}
  /\ \/ /\ Works /\ Answer(0, FALSE, FALSE, m.id)
        /\ Serving(IF m.op = "put" THEN "put" ELSE "exec", m.id, 0)
     \/ Fails("open") /\ Answer(1, FALSE, FALSE, m.id) /\ UNCHANGED srv

\* GetFile tells the size, and refuses an empty file; Rexec starts to read what
\* the command writes.
OpenOut(m) ==
  /\ m.op \in {"get", "output"}
  /\ \/ \E n \in 0 .. MaxBlocks :
          \/ m.op = "get" /\ n = 0 /\ Answer(1, FALSE, FALSE, m.id) /\ UNCHANGED srv
          \/ /\ m.op = "get" /\ n > 0 /\ Answer(0, TRUE, FALSE, m.id)
             /\ Serving("get", m.id, n)
          \/ m.op = "output" /\ UNCHANGED toCli /\ Serving("out", m.id, n)
        /\ Works
     \/ Fails("open") /\ Answer(1, FALSE, FALSE, m.id) /\ UNCHANGED srv

\* Pwd, ChDir, PutEnv, or a service of the user that answers an SQL call.
Short(m) ==
  /\ m.op \in {"pwd", "sql"} /\ Works /\ UNCHANGED srv
  /\ \E err \in {0, 1} : Answer(err, FALSE, FALSE, m.id)

Dispatch ==
  /\ srv.at = "loop" /\ toSrv # <<>>
  /\ toSrv' = Tail(toSrv)
  /\ LET m == Head(toSrv) IN
       /\ EchoBlock(m) \/ Names(m) \/ OpenIn(m) \/ OpenOut(m) \/ Short(m)
       /\ strayed' = (strayed \/ m.op = "names")
  /\ UNCHANGED <<cli, calls, errno>>

\* Mutant: a later write that succeeds clears the error of an earlier one.
StoreForgets ==
  LET m == Head(toSrv) IN
  /\ srv.at = "put" /\ toSrv # <<>>
  /\ toSrv' = Tail(toSrv)
  /\ IF m.more
     THEN /\ UNCHANGED toCli
          /\ \/ Works /\ srv' = [srv EXCEPT !.stored = @ + 1, !.flg = 0]
             \/ Fails("write") /\ srv' = [srv EXCEPT !.flg = 1]
     ELSE Answer(srv.flg, FALSE, FALSE, srv.id) /\ Loop /\ Works
  /\ UNCHANGED <<cli, calls, errno, strayed>>

\* PutFile: after a write that failed nothing more is written, the rest is read
\* all the same, and the last package gets the errno of the failed write.  A write
\* that is short passes for a good one (short).
StoreBlock ==
  LET m == Head(toSrv) IN
  /\ srv.at = "put" /\ toSrv # <<>>
  /\ toSrv' = Tail(toSrv)
  /\ IF m.more
     THEN /\ UNCHANGED toCli
          /\ \/ /\ Works
                /\ srv' = [srv EXCEPT !.stored = IF srv.flg = 0 THEN @ + 1 ELSE @]
             \/ srv.flg = 0 /\ Fails("write") /\ srv' = [srv EXCEPT !.flg = 1]
             \/ srv.flg = 0 /\ Fails("short") /\ UNCHANGED srv
     ELSE Answer(srv.flg, FALSE, FALSE, srv.id) /\ Loop /\ Works
  /\ UNCHANGED <<cli, calls, errno, strayed>>

\* Rexec: the text goes to the command; the last package is not answered.
FeedCommand ==
  LET m == Head(toSrv) IN
  /\ srv.at = "exec" /\ toSrv # <<>>
  /\ toSrv' = Tail(toSrv)
  /\ IF m.more THEN srv' = [srv EXCEPT !.stored = @ + 1] ELSE Loop
  /\ UNCHANGED <<cli, toCli, calls, errno, faults, strayed>>

\* A block of the file or of the command's output.
SendData ==
  /\ srv.at \in {"get", "out"} /\ srv.left > 0
  /\ Answer(0, TRUE, TRUE, srv.id)
  /\ srv' = [srv EXCEPT !.left = @ - 1, !.read = @ + 1]
  /\ UNCHANGED <<cli, toSrv, calls, errno, faults, strayed>>

\* The end of the file, a read error that passes for it, no memory for the
\* buffer; the end of the command with its exit status.
SendEnd ==
  /\ srv.at \in {"get", "out"}
  /\ \/ srv.left = 0 /\ srv.at = "get" /\ Works /\ Answer(0, FALSE, FALSE, srv.id)
     \/ /\ srv.left = 0 /\ srv.at = "out" /\ Works
        /\ \E err \in {0, 1} : Answer(err, FALSE, FALSE, srv.id)
     \/ srv.left > 0 /\ Fails("read") /\ Answer(0, FALSE, FALSE, srv.id)
     \/ /\ srv.at = "get" /\ srv.read = 0 /\ Fails("memory")
        /\ Answer(1, FALSE, FALSE, srv.id)
  /\ Loop
  /\ UNCHANGED <<cli, toSrv, calls, errno, strayed>>

\* RecvPack times out in PutFile, which answers, or in Rexec, which does not.
\* Either returns to the session's loop, which takes what still comes for Echo.
StopWaiting ==
  /\ toSrv = <<>> /\ Loop
  /\ \/ srv.at = "put" /\ Fails("putwait") /\ Answer(1, FALSE, FALSE, srv.id)
     \/ srv.at = "exec" /\ Fails("execwait") /\ UNCHANGED toCli
  /\ UNCHANGED <<cli, toSrv, calls, errno, strayed>>

\* The pool has closed the connection: RecvPack or SendPack fails and the
\* session ends.
Ended ==
  /\ errno /\ srv.at # "ended" /\ toSrv = <<>>
  /\ srv' = [srv EXCEPT !.at = "ended"]
  /\ UNCHANGED <<cli, toSrv, toCli, calls, errno, faults, strayed>>

Client == TakeHead \/ SendBlock \/ SendLast \/ TakeAnswer \/ TakeBlock
Server == Dispatch \/ StoreBlock \/ FeedCommand \/ SendData \/ SendEnd \/ Ended

TransferNext ==
  \/ \E op \in Calls, n \in 0 .. MaxBlocks : BeginCall(op, n)
  \/ Client \/ GiveUp \/ Server \/ StopWaiting

\* Both processes run; nobody is made to call or to time out.
TransferFairness == WF_transferVars(Client) /\ WF_transferVars(Server)

TransferSpec == TransferInit /\ [][TransferNext]_transferVars /\ TransferFairness

-----------------------------------------------------------------------------
(* Properties. *)

TransferTypeOK ==
  /\ cli.at \in Waiting \cup {"idle", "send"} /\ cli.op \in Calls \cup {"none"}
  /\ srv.at \in {"loop", "put", "exec", "get", "out", "ended"}
  /\ {cli.ret, srv.flg} \subseteq {0, 1}
  /\ \A n \in {cli.read, cli.stored, cli.left, srv.read, srv.stored, srv.left} : n \in 0 .. MaxBlocks
  /\ calls \in 0 .. MaxCalls /\ faults \in 0 .. MaxFaults

\* Every package the client takes was sent for the call it is in, whatever was
\* cut short before: a call that returns on a connection the pool keeps leaves
\* none on its way.  It ends with the answer of get_srvname to the end of an empty
\* input, which comes when Rexec has given up waiting for it.
AnswersMatch ==
  \/ strayed
  \/ /\ TransferTypeOK
     /\ cli.at # "idle" /\ toCli # <<>> => Head(toCli).id = calls
     /\ cli.at = "idle" /\ ~errno => toCli = <<>>

\* What a transfer that reports success has stored.
WholeFile ==
  cli.at = "idle" /\ cli.ret = 0 /\ ~errno =>
    /\ cli.op = "put" => srv.stored = cli.read
    /\ cli.op = "get" => cli.stored = srv.read

\* A file transfer that reports success, and keeps its connection, has stored
\* every block that was read, as long as answers go to their calls.
StoredIsRead == strayed \/ WholeFile

\* With no timeout set at either end, no call leaves client and server waiting
\* for each other: it returns.
CallReturns == cli.at # "idle" ~> cli.at = "idle"
=============================================================================

------------------------------- MODULE CallProofs ------------------------------
(***************************************************************************)
(* Proofs about a client's calls.                                          *)
(*                                                                         *)
(* What SQL calls leave open (SqlCalls): for any number of cursors, and for *)
(* any size of the counter that holds them all, an orderly server and       *)
(* caller keep connect->status equal to what is open, so the forwarder      *)
(* keeps the client exactly as long as something is open.                   *)
(*                                                                         *)
(* Who speaks next (Transfer): for any number of calls, of blocks and of    *)
(* faults client and service agree on it, when no call gives up waiting and *)
(* keeps its connection and no short write is taken for a good one.         *)
(***************************************************************************)
EXTENDS SqlCalls, Transfer, FiniteSetTheorems, TLAPS

-----------------------------------------------------------------------------
(* SqlCalls. *)

\* What a transaction adds to the count; a refused one has still to be ended.
TranCount == IF tran = "none" THEN 0 ELSE 1

\* status counts the open cursors, the debts and the transaction; the forwarder is
\* bound exactly while the count is above 0.
StatusCounts ==
  /\ held \subseteq Cursors /\ debts \in 0..MaxDebts
  /\ tran \in {"none", "open", "refused"}
  /\ status = Cardinality(held) + debts + TranCount
  /\ Bound <=> status > 0

-----------------------------------------------------------------------------

\* A count below the size of the counter is stored as it is (the ++ and -- of
\* sqlc.c).
LEMMA CountExact == \A n \in 0..(StatusSize - 1) : Count(n) = n
  BY SqlAssumption DEF Count

\* Cardinalities of sets of cursors.
LEMMA CursorsCounted ==
  ASSUME NEW s \in SUBSET Cursors
  PROVE  /\ IsFiniteSet(s) /\ Cardinality(s) \in 0..Cardinality(Cursors)
         /\ Cardinality(Cursors) \in Nat
         /\ s # {} => Cardinality(s) > 0
         /\ s = {} => Cardinality(s) = 0
         /\ \A c \in s : Cardinality(s \ {c}) = Cardinality(s) - 1
         /\ \A r \in SUBSET Cursors :
              r \cap s = {} => Cardinality(s \cup r) = Cardinality(s) + Cardinality(r)
<1>1. IsFiniteSet(Cursors)
  BY SqlAssumption
<1>2. /\ IsFiniteSet(s) /\ Cardinality(s) \in Nat /\ Cardinality(Cursors) \in Nat
      /\ Cardinality(s) <= Cardinality(Cursors)
  BY <1>1, FS_Subset, FS_CardinalityType
<1>3. Cardinality(s) = 0 <=> s = {}
  BY <1>2, FS_EmptySet
<1>4. \A c \in s : Cardinality(s \ {c}) = Cardinality(s) - 1
  BY <1>2, FS_RemoveElement
<1>5. ASSUME NEW r \in SUBSET Cursors, r \cap s = {}
      PROVE  Cardinality(s \cup r) = Cardinality(s) + Cardinality(r)
  <2>1. IsFiniteSet(r) /\ Cardinality(r) \in Nat
    BY <1>1, FS_Subset, FS_CardinalityType
  <2>2. s \cap r = {}
    BY <1>5
  <2>3. Cardinality(s \cup r) = Cardinality(s) + Cardinality(r) - Cardinality(s \cap r)
    BY <1>2, <2>1, FS_Union
  <2>4. Cardinality(s \cap r) = 0
    BY <2>2, FS_EmptySet
  <2>. QED  BY <1>2, <2>1, <2>3, <2>4
<1>. QED  BY <1>2, <1>3, <1>4, <1>5

\* The count never reaches the size of the counter.
LEMMA StatusSmall ==
  ASSUME StatusCounts
  PROVE  /\ Cardinality(held) \in 0..Cardinality(Cursors) /\ Cardinality(Cursors) \in Nat
         /\ TranCount \in {0, 1} /\ status \in 0..(StatusSize - 1)
         /\ MaxDebts \in Nat /\ StatusSize \in Nat
<1>1. Cardinality(held) \in 0..Cardinality(Cursors) /\ Cardinality(Cursors) \in Nat
  BY CursorsCounted DEF StatusCounts
<1>. QED  BY <1>1, SqlAssumption DEF StatusCounts, TranCount

-----------------------------------------------------------------------------

\* Every call of sqlc.c keeps the count.
LEMMA StatusCountsKept ==
  ASSUME Orderly, StatusCounts, [SqlNext]_sqlVars
  PROVE  StatusCounts'
<1>. USE DEF StatusCounts, TranCount, Bound, Flag
<1>0. /\ Cardinality(held) \in 0..Cardinality(Cursors) /\ Cardinality(Cursors) \in Nat
      /\ status \in 0..(StatusSize - 1) /\ MaxDebts \in Nat /\ StatusSize \in Nat
      /\ StatusSize > Cardinality(Cursors) + MaxDebts + 1
  BY StatusSmall, SqlAssumption
<1>1. ASSUME NEW c \in Cursors, Prepare(c) PROVE StatusCounts'
  <2>1. Cardinality({c}) = 1
    BY FS_Singleton
  <2>2. /\ Cardinality(held \cup {c}) = Cardinality(held) + 1
        /\ Cardinality(held \cup {c}) <= Cardinality(Cursors)
    <3>1. {c} \in SUBSET Cursors /\ held \in SUBSET Cursors /\ {c} \cap held = {}
      BY <1>1 DEF Prepare
    <3>2. held \cup {c} \in SUBSET Cursors
      BY <3>1
    <3>3. Cardinality(held \cup {c}) = Cardinality(held) + Cardinality({c})
      BY <3>1, CursorsCounted
    <3>4. Cardinality(held \cup {c}) \in 0..Cardinality(Cursors)
      BY <3>2, CursorsCounted
    <3>. QED  BY <2>1, <3>3, <3>4, <1>0
  <2>3. CASE held' = held \cup {c} /\ UNCHANGED debts
    <3>1. Count(status + 1) = status + 1
      BY <1>0, <2>2, CountExact
    <3>2. held' \subseteq Cursors /\ Cardinality(held') = Cardinality(held) + 1
      BY <2>2, <2>3
    <3>3. /\ status' = status + 1 /\ told' = "PACK_STATUS"
          /\ tran' = tran /\ debts' = debts
      BY <1>1, <2>3, <3>1 DEF Prepare
    <3>4. TranCount' = TranCount
      BY <3>3
    <3>5. status' = Cardinality(held') + debts' + TranCount'
      BY <1>0, <3>2, <3>3, <3>4
    <3>6. Bound' /\ status' > 0
      BY <1>0, <3>3
    <3>7. debts' \in 0..MaxDebts /\ tran' \in {"none", "open", "refused"}
      BY <3>3
    <3>. QED  BY <3>2, <3>5, <3>6, <3>7
  <2>4. CASE debts < MaxDebts /\ debts' = debts + 1 /\ UNCHANGED held
    <3>1. Count(status + 1) = status + 1
      BY <1>0, <2>4, CountExact
    <3>2. /\ status' = status + 1 /\ told' = "PACK_STATUS"
          /\ tran' = tran /\ held' = held
      BY <1>1, <2>4, <3>1 DEF Prepare
    <3>3. TranCount' = TranCount
      BY <3>2
    <3>4. status' = Cardinality(held') + debts' + TranCount' /\ debts' \in 0..MaxDebts
      BY <1>0, <2>4, <3>2, <3>3
    <3>5. Bound' /\ status' > 0
      BY <1>0, <3>2
    <3>. QED  BY <3>2, <3>4, <3>5
  <2>. QED  BY <1>1, <2>3, <2>4 DEF Prepare
<1>2. ASSUME NEW refs \in SUBSET Cursors, RPC(refs) PROVE StatusCounts'
  <2>1. /\ Cardinality(refs) \in 0..Cardinality(Cursors)
        /\ Cardinality(held \cup refs) = Cardinality(held) + Cardinality(refs)
        /\ Cardinality(held \cup refs) <= Cardinality(Cursors)
    <3>1. refs \cap held = {} /\ held \in SUBSET Cursors
      BY <1>2 DEF RPC
    <3>2. held \cup refs \in SUBSET Cursors
      BY <3>1
    <3>3. Cardinality(held \cup refs) = Cardinality(held) + Cardinality(refs)
      BY <3>1, CursorsCounted
    <3>4. /\ Cardinality(held \cup refs) \in 0..Cardinality(Cursors)
          /\ Cardinality(refs) \in 0..Cardinality(Cursors)
      BY <3>2, CursorsCounted
    <3>. QED  BY <3>3, <3>4, <1>0
  <2>2. CASE held' = held \cup refs /\ UNCHANGED debts
    <3>1. Count(status + Cardinality(refs)) = status + Cardinality(refs)
      BY <1>0, <2>1, CountExact
    <3>2. /\ held' \subseteq Cursors
          /\ Cardinality(held') = Cardinality(held) + Cardinality(refs)
      BY <2>1, <2>2
    <3>3. /\ status' = status + Cardinality(refs) /\ told' = Flag(status')
          /\ tran' = tran /\ debts' = debts
      BY <1>2, <2>2, <3>1 DEF RPC, SendWith
    <3>4. TranCount' = TranCount
      BY <3>3
    <3>5. status' = Cardinality(held') + debts' + TranCount'
      BY <1>0, <2>1, <3>2, <3>3, <3>4
    <3>6. Bound' <=> status' > 0
      BY <3>3
    <3>. QED  BY <3>2, <3>3, <3>5, <3>6
  <2>3. CASE /\ debts + Cardinality(refs) <= MaxDebts
             /\ debts' = debts + Cardinality(refs) /\ UNCHANGED held
    <3>1. Count(status + Cardinality(refs)) = status + Cardinality(refs)
      BY <1>0, <2>1, <2>3, CountExact
    <3>2. /\ status' = status + Cardinality(refs) /\ told' = Flag(status')
          /\ tran' = tran /\ held' = held
      BY <1>2, <2>3, <3>1 DEF RPC, SendWith
    <3>3. TranCount' = TranCount
      BY <3>2
    <3>4. status' = Cardinality(held') + debts' + TranCount' /\ debts' \in 0..MaxDebts
      BY <1>0, <2>1, <2>3, <3>2, <3>3
    <3>5. Bound' <=> status' > 0
      BY <3>2
    <3>. QED  BY <3>2, <3>4, <3>5
  <2>. QED  BY <1>2, <2>2, <2>3 DEF RPC
<1>3. ASSUME NEW c \in Cursors, Fetch(c) PROVE StatusCounts'
  <2>1. Cardinality(held) > 0
    BY <1>3, CursorsCounted DEF Fetch
  <2>. QED  BY <1>0, <1>3, <2>1 DEF Fetch
<1>4. ASSUME NEW c \in Cursors, Close(c) PROVE StatusCounts'
  <2>1. Cardinality(held) > 0 /\ Cardinality(held \ {c}) = Cardinality(held) - 1
    BY <1>4, CursorsCounted DEF Close
  <2>2. held' = held \ {c}
    BY <1>4 DEF Close, Orderly
  <2>3. Count(status - 1) = status - 1
    BY <1>0, <2>1, CountExact
  <2>. QED  BY <1>0, <1>4, <2>1, <2>2, <2>3 DEF Close, SendWith
<1>5. CASE Exec
  BY <1>0, <1>5 DEF Exec, SendWith
<1>6. CASE BeginTran
  <2>1. Count(status + 1) = status + 1
    BY <1>0, <1>6, CountExact DEF BeginTran
  <2>2. tran' \in {"open", "refused"}
    BY <1>6 DEF BeginTran
  <2>. QED  BY <1>0, <1>6, <2>1, <2>2 DEF BeginTran, SendWith
<1>7. CASE EndTran
  <2>1. tran # "none" /\ tran' = "none"
    BY <1>7 DEF EndTran, Orderly
  <2>2. Count(status - 1) = status - 1
    BY <1>0, <2>1, CountExact
  <2>. QED  BY <1>0, <1>7, <2>1, <2>2 DEF EndTran, SendWith
<1>8. CASE CloseRefused
  <2>1. Count(status - 1) = status - 1
    BY <1>0, <1>8, CountExact DEF CloseRefused
  <2>. QED  BY <1>0, <1>8, <2>1 DEF CloseRefused
<1>9. CASE UNCHANGED sqlVars
  BY <1>9 DEF sqlVars
<1>. QED  BY <1>1, <1>2, <1>3, <1>4, <1>5, <1>6, <1>7, <1>8, <1>9 DEF SqlNext

\* status is what is open: the strengthening the two theorems below rest on.
LEMMA StatusAlwaysCounts == ASSUME Orderly PROVE SqlSpec => []StatusCounts
<1>1. SqlInit => StatusCounts
  BY SqlAssumption, FS_EmptySet DEF SqlInit, StatusCounts, TranCount, Bound
<1>2. StatusCounts /\ [SqlNext]_sqlVars => StatusCounts'
  BY StatusCountsKept
<1>. QED  BY <1>1, <1>2, PTL DEF SqlSpec

\* While a cursor or a transaction of the client is open, the last package it sent
\* has told the forwarder to keep it on its server.
THEOREM StaysBound == ASSUME Orderly PROVE SqlSpec => []BoundWhileOpen
<1>1. StatusCounts => BoundWhileOpen
  <2>1. SUFFICES ASSUME StatusCounts, held # {} \/ tran = "open" PROVE Bound
    BY DEF BoundWhileOpen
  <2>2. Cardinality(held) > 0 \/ TranCount = 1
    BY <2>1, CursorsCounted DEF StatusCounts, TranCount
  <2>. QED  BY <2>1, <2>2, StatusSmall DEF StatusCounts
<1>. QED  BY <1>1, StatusAlwaysCounts, PTL

\* When the last cursor is closed and the transaction ended, the forwarder is free
\* and the count back at 0.
THEOREM FreedWhenDone == ASSUME Orderly PROVE SqlSpec => []FreeWhenDone
<1>1. StatusCounts => FreeWhenDone
  <2>1. SUFFICES ASSUME StatusCounts, held = {}, tran = "none", debts = 0
                 PROVE  ~Bound /\ status = 0
    BY DEF FreeWhenDone
  <2>2. Cardinality(held) = 0 /\ TranCount = 0
    BY <2>1, FS_EmptySet DEF TranCount
  <2>. QED  BY <2>1, <2>2 DEF StatusCounts
<1>. QED  BY <1>1, StatusAlwaysCounts, PTL
\* Both at once, as the run checks them.
THEOREM BoundExactlyWhileOpen == ASSUME Orderly PROVE SqlSpec => []BoundExactly
<1>1. BoundWhileOpen /\ FreeWhenDone => BoundExactly
  BY DEF BoundExactly
<1>. QED  BY <1>1, StaysBound, FreedWhenDone, PTL

-----------------------------------------------------------------------------
(* Transfer: the invariant. *)

\* Whoever gives up waiting gives the connection up, since no timeout is set for
\* N_Rexec, for the calls of sqlc.c and for PutFile, which keep it; and the service
\* has no short write, which PutFile takes for a good one.
NothingMissed == Faults \cap {"forget", "putwait", "short"} = {}

Requests == [op : Calls \cup {"block", "names"}, more : BOOLEAN, quiet : BOOLEAN, id : Nat]
Replies == [err : {0, 1}, more : BOOLEAN, data : BOOLEAN, id : Nat]

Ranges ==
  /\ cli \in [at : Waiting \cup {"idle", "send"}, op : Calls \cup {"none"}, read : 0 .. MaxBlocks,
              stored : 0 .. MaxBlocks, left : 0 .. MaxBlocks, ret : {0, 1}]
  /\ srv \in [at : {"loop", "put", "exec", "get", "out", "ended"}, id : Nat, read : 0 .. MaxBlocks,
              stored : 0 .. MaxBlocks, left : 0 .. MaxBlocks, flg : {0, 1}]
  /\ toSrv \in Seq(Requests) /\ toCli \in Seq(Replies)
  /\ calls \in 0 .. MaxCalls /\ faults \in 0 .. MaxFaults /\ errno \in BOOLEAN
  /\ cli.read + cli.left <= MaxBlocks /\ srv.read + srv.left <= MaxBlocks

\* The first k packages to the server say that more follow; they are no more than
\* a file has.
Heads(k) ==
  /\ k \in 0 .. Len(toSrv)
  /\ \A i \in 1 .. Len(toSrv) : (toSrv[i].more <=> i <= k) /\ (i <= k => toSrv[i].op = "block")
Bounded(k) == srv.at \in {"put", "exec"} => srv.stored + k <= MaxBlocks

\* What Echo does not answer, and what get_srvname does.
Mute(m) == m.op \in {"block", "names"} /\ (m.more \/ m.quiet)

\* Of a command's input the rest may be on its way.
Idle(k) ==
  /\ cli.at = "idle" /\ toCli = <<>>
  /\ \A i \in 1 .. Len(toSrv) : Mute(toSrv[i])
  /\ srv.at = "loop" \/ (srv.at = "exec" /\ Len(toSrv) = k + 1)
  /\ cli.op \in {"put", "get"} /\ cli.ret = 0 => toSrv = <<>> /\ srv.at = "loop"
  /\ WholeFile

\* The request is behind it.
Asked(k) ==
  /\ \/ cli.at = "head" /\ cli.op \in {"put", "input"}
     \/ cli.at = "take" /\ cli.op \in {"get", "output"}
     \/ cli.at = "answer" /\ cli.op \in {"pwd", "sql"}
  /\ cli.read = 0 /\ cli.stored = 0
  /\ toCli = <<>> /\ toSrv # <<>>
  /\ toSrv[Len(toSrv)] = [op |-> cli.op, more |-> FALSE, quiet |-> FALSE, id |-> calls]
  /\ \A i \in 1 .. Len(toSrv) - 1 : Mute(toSrv[i])
  /\ srv.at = "loop" \/ (srv.at = "exec" /\ Len(toSrv) = k + 2)

\* The service stores what was read, or knows of an error.
Storing(k) ==
  \/ /\ cli.op = "put" /\ srv.at = "put" /\ srv.id = calls
     /\ srv.stored + k <= cli.read /\ (srv.flg = 0 => srv.stored + k = cli.read)
  \/ cli.op = "input" /\ (srv.at = "loop" \/ (srv.at = "exec" /\ srv.stored + k <= cli.read))

OneAnswer == toSrv = <<>> /\ Len(toCli) = 1 /\ toCli[1].id = calls

Headed ==
  /\ cli.at = "head" /\ cli.read = 0 /\ OneAnswer /\ cli.op \in {"put", "input"}
  /\ IF toCli[1].err = 0 THEN Storing(0) ELSE srv.at = "loop"

Sending(k) ==
  /\ cli.at = "send" /\ toCli = <<>> /\ Len(toSrv) = k /\ Storing(k)
  /\ \A i \in 1 .. k : Mute(toSrv[i])

Finishing(k) ==
  /\ cli.at = "final" /\ cli.op = "put"
  /\ \/ toCli = <<>> /\ Len(toSrv) = k + 1 /\ srv.at = "put" /\ Storing(k)
     \/ OneAnswer /\ srv.at = "loop" /\ (toCli[1].err = 0 => srv.stored = cli.read)

Answered == cli.at = "answer" /\ cli.op \in {"pwd", "sql"} /\ OneAnswer /\ srv.at = "loop"

\* On its way are the size of a file, d blocks, and the end.
Incoming(size, d) ==
  /\ Len(toCli) = size + d + (IF srv.at = "loop" THEN 1 ELSE 0)
  /\ \A i \in 1 .. Len(toCli) :
       /\ toCli[i].id = calls
       /\ toCli[i].data <=> size < i /\ i <= size + d
       /\ toCli[i].more <=> i <= size + d
       /\ toCli[i].more => toCli[i].err = 0
  /\ cli.stored + d <= MaxBlocks
  /\ srv.at # "loop" \/ toCli[size + d + 1].err = 0 => cli.stored + d = srv.read

Taking ==
  /\ cli.at = "take" /\ toSrv = <<>>
  /\ \/ srv.at = "loop" /\ cli.op \in {"get", "output"}
     \/ srv.at = "get" /\ cli.op = "get" /\ srv.id = calls
     \/ srv.at = "out" /\ cli.op = "output" /\ srv.id = calls
  /\ \E size \in {0, 1}, d \in 0 .. Len(toCli) : Incoming(size, d)

\* The pool gives the connection up.
Lost == errno /\ cli.at = "idle"

Stage(k) ==
  \/ Idle(k) \/ Asked(k) \/ Headed \/ Sending(k) \/ Finishing(k) \/ Answered \/ Taking

\* Whose turn it is, in every stage of a call: without it AnswersMatch does not say
\* why a package on its way is for the call in hand.
TransferInv ==
  Ranges /\ \E k \in 0 .. Len(toSrv) : Heads(k) /\ Bounded(k) /\ (Lost \/ (~errno /\ Stage(k)))

-----------------------------------------------------------------------------
(* Channels. *)

LEMMA TailFacts ==
  ASSUME NEW S, NEW q \in Seq(S), q # <<>>
  PROVE  /\ Len(q) \in Nat \ {0} /\ Head(q) = q[1] /\ q[1] \in S
         /\ Tail(q) \in Seq(S) /\ Len(Tail(q)) = Len(q) - 1
         /\ \A i \in 1 .. Len(q) - 1 : Tail(q)[i] = q[i + 1]
         /\ Tail(q) = <<>> <=> Len(q) = 1
<1>1. /\ Len(q) \in Nat \ {0} /\ Head(q) = q[1] /\ q[1] \in S
      /\ Tail(q) \in Seq(S) /\ Len(Tail(q)) = Len(q) - 1
      /\ \A i \in 1 .. Len(q) - 1 : Tail(q)[i] = q[i + 1]
  OBVIOUS
<1>2. \A r \in Seq(S) : r = <<>> <=> Len(r) = 0
  OBVIOUS
<1>3. Tail(q) = <<>> <=> Len(Tail(q)) = 0
  BY <1>1, <1>2
<1> QED BY <1>1, <1>3

LEMMA AppendFacts ==
  ASSUME NEW S, NEW q \in Seq(S), NEW m \in S
  PROVE  /\ Len(q) \in Nat /\ Append(q, m) \in Seq(S) /\ Append(q, m) # <<>>
         /\ Len(Append(q, m)) = Len(q) + 1 /\ Append(q, m)[Len(q) + 1] = m
         /\ \A i \in 1 .. Len(q) : Append(q, m)[i] = q[i]
         /\ q = <<>> <=> Len(q) = 0
OBVIOUS

Less(k) == IF k = 0 THEN 0 ELSE k - 1

\* The server takes a package.
LEMMA HeadsTaken ==
  ASSUME Ranges, NEW k \in Nat, Heads(k), toSrv # <<>>, toSrv' = Tail(toSrv)
  PROVE  /\ toSrv' \in Seq(Requests) /\ Less(k) \in 0 .. Len(toSrv') /\ Heads(Less(k))'
         /\ Head(toSrv) = toSrv[1] /\ Head(toSrv) \in Requests /\ (Head(toSrv).more <=> k > 0)
         /\ k > 0 => Head(toSrv).op = "block"
         /\ \A i \in 1 .. Len(toSrv') : i + 1 \in 1 .. Len(toSrv) /\ toSrv'[i] = toSrv[i + 1]
         /\ Len(toSrv) \in Nat \ {0} /\ Len(toSrv') = Len(toSrv) - 1
         /\ toSrv' = <<>> <=> Len(toSrv) = 1
<1>1. /\ Len(toSrv) \in Nat \ {0} /\ Head(toSrv) = toSrv[1] /\ toSrv[1] \in Requests
      /\ Tail(toSrv) \in Seq(Requests) /\ Len(Tail(toSrv)) = Len(toSrv) - 1
      /\ \A i \in 1 .. Len(toSrv) - 1 : Tail(toSrv)[i] = toSrv[i + 1]
      /\ Tail(toSrv) = <<>> <=> Len(toSrv) = 1
  BY TailFacts DEF Ranges
<1> HIDE DEF Requests
<1>2. Len(toSrv') = Len(toSrv) - 1 /\ \A i \in 1 .. Len(toSrv') : toSrv'[i] = toSrv[i + 1]
  BY <1>1
<1>3. /\ k \in 0 .. Len(toSrv)
      /\ \A i \in 1 .. Len(toSrv) : (toSrv[i].more <=> i <= k) /\ (i <= k => toSrv[i].op = "block")
  BY DEF Heads
<1>4. (toSrv[1].more <=> k > 0) /\ (k > 0 => toSrv[1].op = "block")
  BY <1>1, <1>3
<1>5. Less(k) \in 0 .. Len(toSrv')
  BY <1>1, <1>2, <1>3 DEF Less
<1>6. \A i \in 1 .. Len(toSrv') : /\ toSrv'[i].more <=> i <= Less(k)
                                  /\ i <= Less(k) => toSrv'[i].op = "block"
  BY <1>1, <1>2, <1>3 DEF Less
<1> QED BY <1>1, <1>2, <1>4, <1>5, <1>6 DEF Heads

\* The client sends one.
LEMMA HeadsSent ==
  ASSUME Ranges, NEW k \in Nat, Heads(k), NEW m \in Requests, toSrv' = Append(toSrv, m)
  PROVE  /\ toSrv' \in Seq(Requests) /\ toSrv' # <<>> /\ Len(toSrv') = Len(toSrv) + 1
         /\ toSrv'[Len(toSrv')] = m /\ \A i \in 1 .. Len(toSrv) : toSrv'[i] = toSrv[i]
         /\ Len(toSrv) \in Nat /\ (toSrv = <<>> <=> Len(toSrv) = 0)
         /\ ~m.more => Heads(k)' /\ k \in 0 .. Len(toSrv')
         /\ m.more /\ m.op = "block" /\ Len(toSrv) = k => Heads(k + 1)' /\ k + 1 \in 0 .. Len(toSrv')
<1>1. /\ Len(toSrv) \in Nat /\ toSrv' \in Seq(Requests) /\ toSrv' # <<>>
      /\ Len(toSrv') = Len(toSrv) + 1 /\ toSrv'[Len(toSrv) + 1] = m
      /\ \A i \in 1 .. Len(toSrv) : toSrv'[i] = toSrv[i]
      /\ toSrv = <<>> <=> Len(toSrv) = 0
  BY AppendFacts DEF Ranges
<1> HIDE DEF Requests
<1>2. /\ k \in 0 .. Len(toSrv)
      /\ \A i \in 1 .. Len(toSrv) : (toSrv[i].more <=> i <= k) /\ (i <= k => toSrv[i].op = "block")
  BY DEF Heads
<1>3. ~m.more => Heads(k)' /\ k \in 0 .. Len(toSrv')
  BY <1>1, <1>2 DEF Heads
<1>4. m.more /\ m.op = "block" /\ Len(toSrv) = k => Heads(k + 1)' /\ k + 1 \in 0 .. Len(toSrv')
  BY <1>1, <1>2 DEF Heads
<1> QED BY <1>1, <1>3, <1>4

-----------------------------------------------------------------------------
(* The client's steps. *)

LEMMA TransferStart == TransferInit => TransferInv
<1> SUFFICES ASSUME TransferInit PROVE TransferInv
  OBVIOUS
<1> USE TransferAssumption DEF TransferInit
<1>1. Ranges
  <2>1. 0 \in 0 .. MaxBlocks /\ 0 \in 0 .. MaxCalls /\ 0 \in 0 .. MaxFaults /\ 0 + 0 <= MaxBlocks
    OBVIOUS
  <2>2. <<>> \in Seq(Requests) /\ <<>> \in Seq(Replies)
    OBVIOUS
  <2> HIDE DEF Requests, Replies
  <2> QED BY <2>1, <2>2 DEF Ranges
<1>2. Len(toSrv) = 0
  OBVIOUS
<1>3. Heads(0) /\ Bounded(0)
  BY <1>2 DEF Heads, Bounded
<1>4. Idle(0) /\ ~errno
  BY <1>2 DEF Idle, WholeFile
<1> QED BY <1>1, <1>2, <1>3, <1>4 DEF TransferInv, Stage

LEMMA BeginCallStep ==
  ASSUME TransferInv, NEW op \in Calls, NEW n \in 0 .. MaxBlocks, BeginCall(op, n)
  PROVE  TransferInv'
<1>0. MaxCalls \in Nat /\ MaxBlocks \in Nat /\ MaxFaults \in Nat
  BY TransferAssumption
<1> USE <1>0
<1>1. Ranges
  BY DEF TransferInv
<1>2. /\ cli.at = "idle" /\ ~errno /\ calls < MaxCalls /\ (n > 0 => op \in {"put", "input"})
      /\ calls' = calls + 1 /\ toSrv' = Append(toSrv, Request(op))
      /\ cli' = [at |-> CASE op \in {"put", "input"} -> "head"
                          [] op \in {"get", "output"} -> "take"
                          [] op \in {"pwd", "sql"} -> "answer",
                 op |-> op, read |-> 0, stored |-> 0, left |-> n, ret |-> 0]
      /\ UNCHANGED <<srv, toCli, errno, faults>>
  BY DEF BeginCall
<1>3. PICK k \in 0 .. Len(toSrv) : Heads(k) /\ Bounded(k) /\ Idle(k)
  BY <1>2 DEF TransferInv, Stage, Lost, Asked, Headed, Sending, Finishing, Answered, Taking
<1>4. k \in Nat /\ Len(toSrv) \in Nat
  BY <1>1, AppendFacts DEF Ranges
<1> DEFINE m == Request(op)
<1>5. m \in Requests /\ ~m.more /\ m = [op |-> op, more |-> FALSE, quiet |-> FALSE, id |-> calls']
  <2>1. calls' = calls + 1 /\ calls' \in Nat
    BY <1>1, <1>2 DEF Ranges
  <2>2. m = [op |-> op, more |-> FALSE, quiet |-> FALSE, id |-> calls']
    BY <2>1 DEF Request
  <2> QED BY <2>1, <2>2 DEF Requests
<1> HIDE DEF m
<1>6. toSrv' = Append(toSrv, m)
  BY <1>2 DEF m
<1>7. /\ toSrv' \in Seq(Requests) /\ toSrv' # <<>> /\ Len(toSrv') = Len(toSrv) + 1
      /\ toSrv'[Len(toSrv')] = m /\ \A i \in 1 .. Len(toSrv) : toSrv'[i] = toSrv[i]
      /\ Heads(k)' /\ k \in 0 .. Len(toSrv')
  BY <1>1, <1>3, <1>4, <1>5, <1>6, HeadsSent
<1>8. /\ \/ cli'.at = "head" /\ op \in {"put", "input"}
         \/ cli'.at = "take" /\ op \in {"get", "output"}
         \/ cli'.at = "answer" /\ op \in {"pwd", "sql"}
      /\ cli'.op = op /\ cli'.read = 0 /\ cli'.stored = 0 /\ cli'.left = n /\ cli'.ret = 0
  BY <1>2, TransferAssumption
<1>9. Ranges'
  <2>1. cli' \in [at : Waiting \cup {"idle", "send"}, op : Calls \cup {"none"}, read : 0 .. MaxBlocks,
                  stored : 0 .. MaxBlocks, left : 0 .. MaxBlocks, ret : {0, 1}]
    BY <1>2, TransferAssumption DEF Waiting
  <2>2. calls' = calls + 1 /\ calls < MaxCalls /\ UNCHANGED <<srv, toCli, errno, faults>>
    BY <1>2
  <2>3. calls' \in 0 .. MaxCalls
    <3>1. calls \in 0 .. MaxCalls
      BY <1>1 DEF Ranges
    <3> QED BY <2>2, <3>1
  <2>4. cli'.read + cli'.left <= MaxBlocks
    BY <1>8
  <2>5. toSrv' \in Seq(Requests)
    BY <1>7
  <2> QED BY <1>1, <2>1, <2>2, <2>3, <2>4, <2>5 DEF Ranges
<1>10. Bounded(k)'
  BY <1>2, <1>3 DEF Bounded
<1>11. Asked(k)'
  <2>1. \A i \in 1 .. Len(toSrv') - 1 : Mute(toSrv'[i])
    BY <1>3, <1>4, <1>7 DEF Idle
  <2>2. srv'.at = "loop" \/ (srv'.at = "exec" /\ Len(toSrv') = k + 2)
    BY <1>2, <1>3, <1>4, <1>7 DEF Idle
  <2>3. toCli' = <<>>
    BY <1>2, <1>3 DEF Idle
  <2> QED BY <1>5, <1>7, <1>8, <2>1, <2>2, <2>3 DEF Asked
<1> QED BY <1>2, <1>7, <1>9, <1>10, <1>11 DEF TransferInv, Stage

\* A step of the client that leaves the channel to the server alone.
LEMMA TakeHeadStep ==
  ASSUME TransferInv, TakeHead
  PROVE  TransferInv'
<1>0. MaxCalls \in Nat /\ MaxBlocks \in Nat /\ MaxFaults \in Nat
  BY TransferAssumption
<1> USE <1>0
<1>1. Ranges
  BY DEF TransferInv
<1>2. /\ cli.at = "head" /\ toCli # <<>> /\ toCli' = Tail(toCli)
      /\ IF Head(toCli).err # 0 THEN cli' = [cli EXCEPT !.at = "idle", !.ret = 1]
                                ELSE cli' = [cli EXCEPT !.at = "send"]
      /\ UNCHANGED <<srv, toSrv, calls, errno, faults>>
  BY DEF TakeHead, Return
<1>3. PICK k \in 0 .. Len(toSrv) : Heads(k) /\ Bounded(k) /\ Headed /\ ~errno
  BY <1>2 DEF TransferInv, Stage, Lost, Idle, Asked, Sending, Finishing, Answered, Taking
<1>4. k = 0 /\ toSrv = <<>> /\ Len(toSrv) = 0
  BY <1>3 DEF Headed, OneAnswer
<1>5. toCli' = <<>> /\ Head(toCli) = toCli[1] /\ toCli' \in Seq(Replies)
  BY <1>1, <1>2, <1>3, TailFacts DEF Ranges, Headed, OneAnswer
<1>6. /\ cli'.op = cli.op /\ cli'.read = cli.read /\ cli'.stored = cli.stored /\ cli'.left = cli.left
      /\ \/ toCli[1].err # 0 /\ cli'.at = "idle" /\ cli'.ret = 1
         \/ toCli[1].err = 0 /\ cli'.at = "send"
  BY <1>1, <1>2, <1>5 DEF Ranges
<1>7. Ranges'
  BY <1>1, <1>2, <1>5, <1>6 DEF Ranges
<1>8. CASE toCli[1].err # 0
  <2>1. Idle(0)'
    BY <1>2, <1>3, <1>4, <1>5, <1>6, <1>8 DEF Headed, Idle, WholeFile
  <2> QED BY <1>2, <1>3, <1>4, <1>7, <2>1 DEF TransferInv, Stage, Heads, Bounded
<1>9. CASE toCli[1].err = 0
  <2>1. Sending(0)'
    BY <1>2, <1>3, <1>4, <1>5, <1>6, <1>9 DEF Headed, Sending, Storing
  <2> QED BY <1>2, <1>3, <1>4, <1>7, <2>1 DEF TransferInv, Stage, Heads, Bounded
<1> QED BY <1>8, <1>9

LEMMA SendBlockStep ==
  ASSUME TransferInv, SendBlock
  PROVE  TransferInv'
<1>0. MaxCalls \in Nat /\ MaxBlocks \in Nat /\ MaxFaults \in Nat
  BY TransferAssumption
<1> USE <1>0
<1>1. Ranges
  BY DEF TransferInv
<1>2. /\ cli.at = "send" /\ cli.left > 0 /\ toSrv' = Append(toSrv, Block(TRUE, FALSE))
      /\ cli' = [cli EXCEPT !.left = @ - 1, !.read = @ + 1]
      /\ UNCHANGED <<srv, toCli, calls, errno, faults>>
  BY DEF SendBlock
<1>3. PICK k \in 0 .. Len(toSrv) : Heads(k) /\ Bounded(k) /\ Sending(k) /\ ~errno
  BY <1>2 DEF TransferInv, Stage, Lost, Idle, Asked, Headed, Finishing, Answered, Taking
<1>4. k \in Nat /\ Len(toSrv) = k
  BY <1>1, <1>3, AppendFacts DEF Ranges, Sending
<1> DEFINE m == Block(TRUE, FALSE)
<1>5. m \in Requests /\ m.more /\ m.op = "block" /\ Mute(m)
  BY <1>1 DEF Block, Requests, Ranges, Mute
<1> HIDE DEF m
<1>6. toSrv' = Append(toSrv, m)
  BY <1>2 DEF m
<1>7. /\ toSrv' \in Seq(Requests) /\ Len(toSrv') = k + 1
      /\ toSrv'[k + 1] = m /\ \A i \in 1 .. k : toSrv'[i] = toSrv[i]
      /\ Heads(k + 1)' /\ k + 1 \in 0 .. Len(toSrv')
  BY <1>1, <1>3, <1>4, <1>5, <1>6, HeadsSent
<1>8. /\ cli'.at = "send" /\ cli'.op = cli.op /\ cli'.read = cli.read + 1
      /\ cli'.left = cli.left - 1 /\ cli'.stored = cli.stored /\ cli'.ret = cli.ret
      /\ cli.read \in Nat /\ cli.left \in Nat /\ cli.read + cli.left <= MaxBlocks
  BY <1>1, <1>2 DEF Ranges
<1>9. Ranges'
  <2>1. cli'.read \in 0 .. MaxBlocks /\ cli'.left \in 0 .. MaxBlocks /\ cli'.read + cli'.left <= MaxBlocks
    BY <1>2, <1>8
  <2>2. cli' \in [at : Waiting \cup {"idle", "send"}, op : Calls \cup {"none"}, read : 0 .. MaxBlocks,
                  stored : 0 .. MaxBlocks, left : 0 .. MaxBlocks, ret : {0, 1}]
    BY <1>1, <1>2, <1>8, <2>1 DEF Ranges
  <2> QED BY <1>1, <1>2, <1>7, <2>1, <2>2 DEF Ranges
<1>10. srv.stored \in Nat
  BY <1>1 DEF Ranges
<1>11. Sending(k + 1)'
  <2>1. \A i \in 1 .. k + 1 : Mute(toSrv'[i])
    BY <1>3, <1>4, <1>5, <1>7 DEF Sending
  <2>2. Storing(k + 1)'
    <3>1. CASE cli.op = "put"
      <4>1. /\ srv.at = "put" /\ srv.id = calls /\ srv.stored + k <= cli.read
            /\ srv.flg = 0 => srv.stored + k = cli.read
        BY <1>3, <3>1 DEF Sending, Storing
      <4>2. srv.stored + (k + 1) <= cli'.read /\ (srv.flg = 0 => srv.stored + (k + 1) = cli'.read)
        BY <1>4, <1>8, <1>10, <4>1
      <4> QED BY <1>2, <1>8, <3>1, <4>1, <4>2 DEF Storing
    <3>2. CASE cli.op # "put"
      BY <1>2, <1>3, <1>4, <1>8, <1>10, <3>2 DEF Sending, Storing
    <3> QED BY <3>1, <3>2
  <2>3. toCli' = <<>>
    BY <1>2, <1>3 DEF Sending
  <2> QED BY <1>7, <1>8, <2>1, <2>2, <2>3 DEF Sending
<1>12. Bounded(k + 1)'
  BY <1>2, <1>3, <1>4, <1>8, <1>10 DEF Bounded, Sending, Storing
<1> QED BY <1>2, <1>3, <1>7, <1>9, <1>11, <1>12 DEF TransferInv, Stage

LEMMA SendLastStep ==
  ASSUME TransferInv, SendLast
  PROVE  TransferInv'
<1>0. MaxCalls \in Nat /\ MaxBlocks \in Nat /\ MaxFaults \in Nat
  BY TransferAssumption
<1> USE <1>0
<1>1. Ranges
  BY DEF TransferInv
<1>2. /\ cli.at = "send" /\ toSrv' = Append(toSrv, IF cli.op = "input" THEN LastInput ELSE Block(FALSE, FALSE))
      /\ IF cli.op = "input" THEN cli' = [cli EXCEPT !.at = "idle", !.ret = 0]
                             ELSE cli' = [cli EXCEPT !.at = "final"]
      /\ UNCHANGED <<srv, toCli, calls, errno>>
      /\ faults' = faults \/ (faults < MaxFaults /\ faults' = faults + 1)
  BY DEF SendLast, Return, Works, Fails
<1>3. PICK k \in 0 .. Len(toSrv) : Heads(k) /\ Bounded(k) /\ Sending(k) /\ ~errno
  BY <1>2 DEF TransferInv, Stage, Lost, Idle, Asked, Headed, Finishing, Answered, Taking
<1>4. k \in Nat /\ Len(toSrv) = k
  BY <1>1, <1>3, AppendFacts DEF Ranges, Sending
<1> DEFINE m == IF cli.op = "input" THEN LastInput ELSE Block(FALSE, FALSE)
<1>5. m \in Requests /\ ~m.more /\ (cli.op = "input" => Mute(m))
  <2>1. calls \in Nat
    BY <1>1 DEF Ranges
  <2>2. m.op \in {"block", "names"} /\ ~m.more /\ (m.quiet <=> cli.op = "input")
    BY DEF Block, LastInput
  <2>3. m \in Requests
    BY <2>1 DEF Block, LastInput, Requests
  <2> QED BY <2>2, <2>3 DEF Mute
<1> HIDE DEF m
<1>6. toSrv' = Append(toSrv, m)
  BY <1>2 DEF m
<1>7. /\ toSrv' \in Seq(Requests) /\ Len(toSrv') = k + 1
      /\ toSrv'[k + 1] = m /\ \A i \in 1 .. k : toSrv'[i] = toSrv[i]
      /\ Heads(k)' /\ k \in 0 .. Len(toSrv')
  BY <1>1, <1>3, <1>4, <1>5, <1>6, HeadsSent
<1>8. /\ cli'.op = cli.op /\ cli'.read = cli.read /\ cli'.left = cli.left /\ cli'.stored = cli.stored
      /\ \/ cli.op = "input" /\ cli'.at = "idle" /\ cli'.ret = 0
         \/ cli.op # "input" /\ cli'.at = "final" /\ cli'.ret = cli.ret
  BY <1>1, <1>2 DEF Ranges
<1>9. Ranges'
  <2>1. cli' \in [at : Waiting \cup {"idle", "send"}, op : Calls \cup {"none"}, read : 0 .. MaxBlocks,
                  stored : 0 .. MaxBlocks, left : 0 .. MaxBlocks, ret : {0, 1}]
    BY <1>1, <1>2, <1>8 DEF Ranges, Waiting
  <2>2. faults' \in 0 .. MaxFaults
    BY <1>1, <1>2 DEF Ranges
  <2> QED BY <1>1, <1>2, <1>7, <1>8, <2>1, <2>2 DEF Ranges
<1>10. Bounded(k)'
  BY <1>2, <1>3 DEF Bounded
<1>11. CASE cli.op = "input"
  <2>1. \A i \in 1 .. Len(toSrv') : Mute(toSrv'[i])
    BY <1>3, <1>4, <1>5, <1>7, <1>11 DEF Sending
  <2>2. Idle(k)'
    BY <1>2, <1>3, <1>7, <1>8, <1>11, <2>1 DEF Sending, Storing, Idle, WholeFile
  <2> QED BY <1>2, <1>3, <1>7, <1>9, <1>10, <2>2 DEF TransferInv, Stage
<1>12. CASE cli.op # "input"
  <2>1. Finishing(k)'
    BY <1>2, <1>3, <1>7, <1>8, <1>12 DEF Sending, Storing, Finishing
  <2> QED BY <1>2, <1>3, <1>7, <1>9, <1>10, <2>1 DEF TransferInv, Stage
<1> QED BY <1>11, <1>12

LEMMA TakeAnswerStep ==
  ASSUME TransferInv, TakeAnswer
  PROVE  TransferInv'
<1>0. MaxCalls \in Nat /\ MaxBlocks \in Nat /\ MaxFaults \in Nat
  BY TransferAssumption
<1> USE <1>0
<1>1. Ranges
  BY DEF TransferInv
<1>2. /\ cli.at \in {"answer", "final"} /\ toCli # <<>> /\ toCli' = Tail(toCli)
      /\ cli' = [cli EXCEPT !.at = "idle", !.ret = Head(toCli).err]
      /\ UNCHANGED <<srv, toSrv, calls, errno, faults>>
  BY DEF TakeAnswer, Return
<1>3. PICK k \in 0 .. Len(toSrv) : Heads(k) /\ Bounded(k) /\ (Finishing(k) \/ Answered) /\ ~errno
  BY <1>2 DEF TransferInv, Stage, Lost, Idle, Asked, Sending, Headed, Taking
<1>4. /\ OneAnswer /\ srv.at = "loop"
      /\ \/ cli.op = "put" /\ (toCli[1].err = 0 => srv.stored = cli.read)
         \/ cli.op \in {"pwd", "sql"}
  BY <1>2, <1>3 DEF Finishing, Answered
<1>5. k = 0 /\ toSrv = <<>> /\ Len(toSrv) = 0
  BY <1>3, <1>4 DEF OneAnswer
<1>6. toCli' = <<>> /\ Head(toCli) = toCli[1] /\ toCli' \in Seq(Replies) /\ toCli[1] \in Replies
  BY <1>1, <1>2, <1>4, TailFacts DEF Ranges, OneAnswer
<1>7. /\ cli'.at = "idle" /\ cli'.ret = toCli[1].err
      /\ cli'.op = cli.op /\ cli'.read = cli.read /\ cli'.left = cli.left /\ cli'.stored = cli.stored
      /\ toCli[1].err \in {0, 1}
  BY <1>1, <1>2, <1>6 DEF Ranges, Replies
<1>8. Ranges'
  BY <1>1, <1>2, <1>6, <1>7 DEF Ranges
<1>9. Idle(0)'
  BY <1>2, <1>4, <1>5, <1>6, <1>7 DEF Idle, WholeFile
<1> QED BY <1>2, <1>3, <1>5, <1>8, <1>9 DEF TransferInv, Stage, Heads, Bounded

LEMMA GiveUpStep ==
  ASSUME TransferInv, GiveUp, NothingMissed
  PROVE  TransferInv'
<1>0. MaxCalls \in Nat /\ MaxBlocks \in Nat /\ MaxFaults \in Nat
  BY TransferAssumption
<1> USE <1>0
<1>1. Ranges
  BY DEF TransferInv
<1>2. PICK k \in 0 .. Len(toSrv) : Heads(k) /\ Bounded(k)
  BY DEF TransferInv
<1>3. /\ errno' = TRUE /\ cli' = [cli EXCEPT !.at = "idle", !.ret = 1]
      /\ faults < MaxFaults /\ faults' = faults + 1
      /\ UNCHANGED <<srv, toSrv, toCli, calls>>
  BY DEF GiveUp, Return, Fails, NothingMissed
<1>4. /\ cli'.at = "idle" /\ cli'.ret = 1
      /\ cli'.op = cli.op /\ cli'.read = cli.read /\ cli'.left = cli.left /\ cli'.stored = cli.stored
  BY <1>1, <1>3 DEF Ranges
<1>5. Ranges'
  <2>1. faults' \in 0 .. MaxFaults
    BY <1>1, <1>3 DEF Ranges
  <2> QED BY <1>1, <1>3, <1>4, <2>1 DEF Ranges
<1>6. Heads(k)' /\ Bounded(k)' /\ Lost'
  BY <1>2, <1>3, <1>4 DEF Heads, Bounded, Lost
<1> QED BY <1>2, <1>3, <1>5, <1>6 DEF TransferInv

LEMMA TakeBlockStep ==
  ASSUME TransferInv, TakeBlock
  PROVE  TransferInv'
<1>0. MaxCalls \in Nat /\ MaxBlocks \in Nat /\ MaxFaults \in Nat
  BY TransferAssumption
<1> USE <1>0
<1> DEFINE m == toCli[1]
<1>1. Ranges
  BY DEF TransferInv
<1>2. /\ cli.at = "take" /\ toCli # <<>> /\ toCli' = Tail(toCli)
      /\ UNCHANGED <<srv, toSrv, calls>>
  BY DEF TakeBlock
<1>3. PICK k \in 0 .. Len(toSrv) : Heads(k) /\ Bounded(k) /\ Taking /\ ~errno
  BY <1>2 DEF TransferInv, Stage, Lost, Idle, Asked, Headed, Sending, Finishing, Answered
<1>4. k = 0 /\ toSrv = <<>> /\ Len(toSrv) = 0
  BY <1>3 DEF Taking
<1>5. /\ Len(toCli) \in Nat \ {0} /\ Head(toCli) = m /\ m \in Replies
      /\ toCli' \in Seq(Replies) /\ Len(toCli') = Len(toCli) - 1
      /\ \A i \in 1 .. Len(toCli') : i + 1 \in 1 .. Len(toCli) /\ toCli'[i] = toCli[i + 1]
      /\ toCli' = <<>> <=> Len(toCli) = 1
  <2>1. /\ Len(toCli) \in Nat \ {0} /\ Head(toCli) = m /\ m \in Replies
        /\ Tail(toCli) \in Seq(Replies) /\ Len(Tail(toCli)) = Len(toCli) - 1
        /\ \A i \in 1 .. Len(toCli) - 1 : Tail(toCli)[i] = toCli[i + 1]
        /\ Tail(toCli) = <<>> <=> Len(toCli) = 1
    BY <1>1, <1>2, TailFacts DEF Ranges
  <2> HIDE DEF Replies
  <2> QED BY <1>2, <2>1
<1>6. PICK size \in {0, 1}, d \in 0 .. Len(toCli) : Incoming(size, d)
  BY <1>3 DEF Taking
<1>7. /\ m.data <=> size = 0 /\ d > 0
      /\ m.more <=> size + d > 0
      /\ m.more => m.err = 0
      /\ m.err \in {0, 1} /\ m.data \in BOOLEAN /\ m.more \in BOOLEAN
  <2>1. 1 \in 1 .. Len(toCli)
    BY <1>5
  <2>2. /\ m.data <=> size < 1 /\ 1 <= size + d
        /\ m.more <=> 1 <= size + d
        /\ m.more => m.err = 0
    BY <1>6, <2>1 DEF Incoming
  <2> QED BY <1>5, <2>2 DEF Replies
<1> HIDE DEF m
<1>8. cli.stored \in Nat /\ cli.stored + d <= MaxBlocks
  BY <1>1, <1>6 DEF Ranges, Incoming
<1>9. ASSUME UNCHANGED <<errno, faults>>,
             cli' = [cli EXCEPT !.stored = IF m.data THEN @ + 1 ELSE @,
                                !.at = IF m.more /\ ~(cli.op = "output" /\ m.err # 0)
                                       THEN "take" ELSE "idle",
                                !.ret = m.err]
      PROVE  TransferInv'
  <2>1. /\ cli'.op = cli.op /\ cli'.read = cli.read /\ cli'.left = cli.left /\ cli'.ret = m.err
        /\ cli'.stored = IF m.data THEN cli.stored + 1 ELSE cli.stored
        /\ cli'.at = IF m.more THEN "take" ELSE "idle"
    BY <1>1, <1>7, <1>9 DEF Ranges
  <2>2. Ranges'
    <3>1. cli'.stored \in 0 .. MaxBlocks
      BY <1>7, <1>8, <2>1
    <3>2. cli' \in [at : Waiting \cup {"idle", "send"}, op : Calls \cup {"none"}, read : 0 .. MaxBlocks,
                    stored : 0 .. MaxBlocks, left : 0 .. MaxBlocks, ret : {0, 1}]
      BY <1>1, <1>7, <1>9, <2>1, <3>1 DEF Ranges, Waiting
    <3> QED BY <1>1, <1>2, <1>5, <1>9, <2>1, <3>2 DEF Ranges
  <2>3. Heads(0)' /\ Bounded(0)' /\ 0 \in 0 .. Len(toSrv')
    BY <1>2, <1>3, <1>4 DEF Heads, Bounded
  <2>4. CASE m.more
    <3> DEFINE s2 == 0
               d2 == IF size = 0 THEN d - 1 ELSE d
    <3>1. s2 \in {0, 1} /\ d2 \in Nat
      BY <1>5, <1>6, <1>7, <2>4
    <3>2. Len(toCli) = size + d + (IF srv.at = "loop" THEN 1 ELSE 0)
      BY <1>6 DEF Incoming
    <3>3. Len(toCli') = s2 + d2 + (IF srv'.at = "loop" THEN 1 ELSE 0) /\ d2 \in 0 .. Len(toCli')
      BY <1>2, <1>5, <1>6, <1>7, <2>4, <3>2
    <3>4. \A i \in 1 .. Len(toCli') :
            /\ toCli'[i].id = calls'
            /\ toCli'[i].data <=> s2 < i /\ i <= s2 + d2
            /\ toCli'[i].more <=> i <= s2 + d2
            /\ toCli'[i].more => toCli'[i].err = 0
      <4> SUFFICES ASSUME NEW i \in 1 .. Len(toCli')
                   PROVE  /\ toCli'[i].id = calls'
                          /\ toCli'[i].data <=> s2 < i /\ i <= s2 + d2
                          /\ toCli'[i].more <=> i <= s2 + d2
                          /\ toCli'[i].more => toCli'[i].err = 0
        OBVIOUS
      <4>1. i \in Nat \ {0} /\ i + 1 \in 1 .. Len(toCli) /\ toCli'[i] = toCli[i + 1]
        BY <1>5
      <4>2. /\ toCli[i + 1].id = calls
            /\ toCli[i + 1].data <=> size < i + 1 /\ i + 1 <= size + d
            /\ toCli[i + 1].more <=> i + 1 <= size + d
            /\ toCli[i + 1].more => toCli[i + 1].err = 0
        BY <1>6, <4>1 DEF Incoming
      <4> QED BY <1>2, <1>6, <1>7, <2>4, <4>1, <4>2
    <3>5. cli'.stored + d2 = cli.stored + d
      BY <1>6, <1>7, <1>8, <2>1, <2>4
    <3>6. srv'.at = "loop" => toCli'[s2 + d2 + 1] = toCli[size + d + 1]
      <4> SUFFICES ASSUME srv'.at = "loop" PROVE toCli'[s2 + d2 + 1] = toCli[size + d + 1]
        OBVIOUS
      <4>1. s2 + d2 + 1 \in 1 .. Len(toCli') /\ (s2 + d2 + 1) + 1 = size + d + 1
        BY <1>6, <1>7, <2>4, <3>1, <3>3
      <4> QED BY <1>5, <4>1
    <3>7. srv'.at # "loop" \/ toCli'[s2 + d2 + 1].err = 0 => cli'.stored + d2 = srv'.read
      BY <1>2, <1>6, <3>5, <3>6 DEF Incoming
    <3>8. cli'.stored + d2 <= MaxBlocks
      BY <1>8, <3>5
    <3>9. Incoming(s2, d2)'
      BY <3>3, <3>4, <3>7, <3>8 DEF Incoming
    <3>10. Taking'
      BY <1>2, <1>3, <2>1, <2>4, <3>1, <3>3, <3>9 DEF Taking
    <3> QED BY <1>3, <1>9, <2>2, <2>3, <3>10 DEF TransferInv, Stage
  <2>5. CASE ~m.more
    <3>1. size = 0 /\ d = 0 /\ ~m.data
      BY <1>6, <1>7, <2>5
    <3>2. Len(toCli) = 1 /\ srv.at = "loop" /\ (m.err = 0 => cli.stored = srv.read)
      BY <1>5, <1>6, <1>8, <3>1 DEF Incoming, m
    <3>3. toCli' = <<>> /\ cli'.at = "idle" /\ cli'.stored = cli.stored
      BY <1>5, <2>1, <2>5, <3>1, <3>2
    <3>4. Idle(0)'
      BY <1>2, <1>3, <1>4, <2>1, <3>2, <3>3 DEF Idle, WholeFile, Taking
    <3> QED BY <1>3, <1>9, <2>2, <2>3, <3>4 DEF TransferInv, Stage
  <2> QED BY <2>4, <2>5
<1>10. ASSUME faults < MaxFaults, faults' = faults + 1, errno' = TRUE,
              NEW ret \in {0, 1}, cli' = [cli EXCEPT !.at = "idle", !.ret = ret]
       PROVE  TransferInv'
  <2>1. /\ cli'.at = "idle" /\ cli'.ret = ret
        /\ cli'.op = cli.op /\ cli'.read = cli.read /\ cli'.left = cli.left /\ cli'.stored = cli.stored
    BY <1>1, <1>10 DEF Ranges
  <2>2. Ranges'
    <3>1. faults' \in 0 .. MaxFaults
      BY <1>1, <1>10 DEF Ranges
    <3> QED BY <1>1, <1>2, <1>5, <1>10, <2>1, <3>1 DEF Ranges
  <2>3. Heads(k)' /\ Bounded(k)' /\ Lost'
    BY <1>2, <1>3, <1>10, <2>1 DEF Heads, Bounded, Lost
  <2> QED BY <1>2, <1>3, <2>2, <2>3 DEF TransferInv
<1>11. \/ /\ UNCHANGED <<errno, faults>>
          /\ cli' = [cli EXCEPT !.stored = IF m.data THEN @ + 1 ELSE @,
                                !.at = IF m.more /\ ~(cli.op = "output" /\ m.err # 0)
                                       THEN "take" ELSE "idle",
                                !.ret = m.err]
       \/ /\ faults < MaxFaults /\ faults' = faults + 1 /\ errno' = TRUE
          /\ \E ret \in {0, 1} : cli' = [cli EXCEPT !.at = "idle", !.ret = ret]
  BY <1>5 DEF TakeBlock, Works, Fails, Return
<1> QED BY <1>9, <1>10, <1>11

-----------------------------------------------------------------------------
(* The server's steps. *)

\* The first answer on an empty channel.
LEMMA FirstAnswer ==
  ASSUME Ranges, NEW r \in Replies, toCli' = Append(toCli, r)
  PROVE  /\ toCli' \in Seq(Replies)
         /\ toCli = <<>> => Len(toCli') = 1 /\ toCli'[1] = r
         /\ Len(toCli) \in Nat /\ Len(toCli') = Len(toCli) + 1
         /\ toCli'[Len(toCli) + 1] = r /\ \A i \in 1 .. Len(toCli) : toCli'[i] = toCli[i]
<1>1. /\ Len(toCli) \in Nat /\ toCli' \in Seq(Replies)
      /\ Len(toCli') = Len(toCli) + 1 /\ toCli'[Len(toCli) + 1] = r
      /\ \A i \in 1 .. Len(toCli) : toCli'[i] = toCli[i]
      /\ toCli = <<>> <=> Len(toCli) = 0
  BY AppendFacts DEF Ranges
<1> QED BY <1>1

LEMMA EchoStep ==
  ASSUME TransferInv, Dispatch, EchoBlock(Head(toSrv))
  PROVE  TransferInv'
<1>0. MaxCalls \in Nat /\ MaxBlocks \in Nat /\ MaxFaults \in Nat
  BY TransferAssumption
<1> USE <1>0
<1> DEFINE m == toSrv[1]
<1>1. Ranges
  BY DEF TransferInv
<1>2. /\ srv.at = "loop" /\ toSrv # <<>> /\ toSrv' = Tail(toSrv)
      /\ UNCHANGED <<cli, srv, calls, errno, faults>>
  BY DEF Dispatch, EchoBlock, Works
<1>3. PICK k \in 0 .. Len(toSrv) : Heads(k) /\ Bounded(k) /\ (Lost \/ (~errno /\ Stage(k)))
  BY DEF TransferInv
<1>4. k \in Nat
  BY <1>1 DEF Ranges
<1>5. /\ toSrv' \in Seq(Requests) /\ Less(k) \in 0 .. Len(toSrv') /\ Heads(Less(k))'
      /\ Head(toSrv) = m /\ m \in Requests
      /\ \A i \in 1 .. Len(toSrv') : i + 1 \in 1 .. Len(toSrv) /\ toSrv'[i] = toSrv[i + 1]
      /\ Len(toSrv) \in Nat \ {0} /\ Len(toSrv') = Len(toSrv) - 1
      /\ toSrv' = <<>> <=> Len(toSrv) = 1
  BY <1>1, <1>2, <1>3, <1>4, HeadsTaken
<1>6. /\ m.op = "block"
      /\ IF m.more \/ m.quiet THEN toCli' = toCli ELSE toCli' = Append(toCli, Reply(0, FALSE, FALSE, m.id))
  BY <1>5 DEF EchoBlock, Answer
<1>7. Reply(0, FALSE, FALSE, m.id) \in Replies
  BY <1>5 DEF Reply, Replies, Requests
<1> HIDE DEF m
<1>8. toCli' \in Seq(Replies) /\ (Mute(m) => toCli' = toCli)
  BY <1>1, <1>6, <1>7, FirstAnswer DEF Mute, Ranges
<1>9. Ranges' /\ Bounded(Less(k))'
  BY <1>1, <1>2, <1>5, <1>8 DEF Ranges, Bounded
<1>10. Lost => Lost'
  BY <1>2 DEF Lost
<1>11. ASSUME Idle(k) PROVE Idle(Less(k))'
  <2>1. \A i \in 1 .. Len(toSrv) : Mute(toSrv[i])
    BY <1>11 DEF Idle
  <2>2. Mute(m) /\ \A i \in 1 .. Len(toSrv') : Mute(toSrv'[i])
    BY <1>5, <2>1 DEF m
  <2> QED BY <1>2, <1>8, <1>11, <2>2 DEF Idle, WholeFile
<1>12. ASSUME Asked(k) PROVE Asked(Less(k))'
  <2>1. /\ toSrv[Len(toSrv)].op = cli.op /\ cli.op \notin {"block", "names"}
        /\ \A i \in 1 .. Len(toSrv) - 1 : Mute(toSrv[i])
    BY <1>12 DEF Asked
  <2>2. Len(toSrv) # 1
    BY <1>6, <2>1 DEF m
  <2>3. 1 \in 1 .. Len(toSrv) - 1
    BY <1>5, <2>2
  <2>4. Mute(m)
    BY <2>1, <2>3 DEF m
  <2>5. toSrv' # <<>> /\ toSrv'[Len(toSrv')] = toSrv[Len(toSrv)]
    BY <1>5, <2>2
  <2>6. ASSUME NEW i \in 1 .. Len(toSrv') - 1 PROVE Mute(toSrv'[i])
    <3>1. i + 1 \in 1 .. Len(toSrv) - 1 /\ toSrv'[i] = toSrv[i + 1]
      BY <1>5
    <3> QED BY <2>1, <3>1
  <2> QED BY <1>2, <1>8, <1>12, <2>4, <2>5, <2>6 DEF Asked
<1>13. ASSUME Sending(k) PROVE Sending(Less(k))'
  <2>1. Len(toSrv) = k /\ \A i \in 1 .. k : Mute(toSrv[i])
    BY <1>13 DEF Sending
  <2>2. Less(k) = k - 1 /\ k > 0 /\ Len(toSrv') = Less(k)
    BY <1>5, <2>1 DEF Less
  <2>3. Mute(m)
    BY <1>4, <2>1, <2>2 DEF m
  <2>4. \A i \in 1 .. Less(k) : Mute(toSrv'[i])
    BY <1>4, <1>5, <2>1, <2>2
  <2> QED BY <1>2, <1>8, <1>13, <2>2, <2>3, <2>4 DEF Sending, Storing
<1>14. ~Headed /\ ~Finishing(k) /\ ~Answered /\ ~Taking
  BY <1>2 DEF Headed, Finishing, Answered, Taking, OneAnswer
<1>15. Lost' \/ (~errno' /\ Stage(Less(k))')
  BY <1>2, <1>3, <1>10, <1>11, <1>12, <1>13, <1>14 DEF Stage
<1> QED BY <1>5, <1>9, <1>15 DEF TransferInv

\* The service that is to start, or that has done all there is to do.
LEMMA OpenStep ==
  ASSUME TransferInv, Dispatch,
         LET m == Head(toSrv) IN OpenIn(m) \/ OpenOut(m) \/ Short(m)
  PROVE  TransferInv'
<1>0. MaxCalls \in Nat /\ MaxBlocks \in Nat /\ MaxFaults \in Nat
  BY TransferAssumption
<1> USE <1>0
<1> DEFINE m == toSrv[1]
<1>1. Ranges
  BY DEF TransferInv
<1>2. /\ srv.at = "loop" /\ toSrv # <<>> /\ toSrv' = Tail(toSrv)
      /\ UNCHANGED <<cli, calls, errno>>
  BY DEF Dispatch
<1>3. PICK k \in 0 .. Len(toSrv) : Heads(k) /\ Bounded(k) /\ (Lost \/ (~errno /\ Stage(k)))
  BY DEF TransferInv
<1>4. k \in Nat
  BY <1>1 DEF Ranges
<1>5. /\ toSrv' \in Seq(Requests) /\ Less(k) \in 0 .. Len(toSrv') /\ Heads(Less(k))'
      /\ Head(toSrv) = m /\ m \in Requests /\ (m.op # "block" => k = 0)
      /\ Len(toSrv) \in Nat \ {0} /\ Len(toSrv') = Len(toSrv) - 1
      /\ toSrv' = <<>> <=> Len(toSrv) = 1
  BY <1>1, <1>2, <1>3, <1>4, HeadsTaken
<1>6. OpenIn(m) \/ OpenOut(m) \/ Short(m)
  BY <1>5
<1>7. m.id \in Nat
  BY <1>5 DEF Requests
<1> HIDE DEF m
\* What the server does, and what the client gets to read.
<1>8. \/ /\ m.op \in {"put", "input"} /\ toCli' = Append(toCli, Reply(0, FALSE, FALSE, m.id))
         /\ Serving(IF m.op = "put" THEN "put" ELSE "exec", m.id, 0)
      \/ /\ m.op \in Calls \cap {"put", "input", "get", "output", "pwd", "sql"}
         /\ \E err \in {0, 1} : /\ toCli' = Append(toCli, Reply(err, FALSE, FALSE, m.id))
                                /\ m.op \in {"pwd", "sql"} \/ err = 1
         /\ UNCHANGED srv
      \/ \E n \in 0 .. MaxBlocks :
           /\ m.op = "get" /\ toCli' = Append(toCli, Reply(0, TRUE, FALSE, m.id))
           /\ Serving("get", m.id, n)
      \/ \E n \in 0 .. MaxBlocks :
           m.op = "output" /\ toCli' = toCli /\ Serving("out", m.id, n)
  <2>1. m.op \in Calls \cup {"block", "names"}
    BY <1>5 DEF Requests
  <2> QED BY <1>6, <2>1 DEF OpenIn, OpenOut, Short, Answer
<1>9. faults' = faults \/ (faults < MaxFaults /\ faults' = faults + 1)
  BY <1>6 DEF OpenIn, OpenOut, Short, Works, Fails
<1>10. /\ faults' \in 0 .. MaxFaults /\ 0 \in 0 .. MaxBlocks
       /\ \A n \in 0 .. MaxBlocks : 0 + n <= MaxBlocks
  BY <1>1, <1>9 DEF Ranges
<1>11. ~Mute(m) /\ m.op \notin {"block", "names"}
  BY <1>8 DEF Mute
<1>12. \A e \in {0, 1}, b \in BOOLEAN : /\ Reply(e, b, FALSE, m.id) \in Replies
                                       /\ Reply(e, b, FALSE, m.id).err = e /\ (Reply(e, b, FALSE, m.id).more <=> b)
                                       /\ ~Reply(e, b, FALSE, m.id).data /\ Reply(e, b, FALSE, m.id).id = m.id
  BY <1>7 DEF Reply, Replies
<1>13. k = 0 /\ Less(k) = 0
  BY <1>4, <1>5, <1>11 DEF Less
\* When the client is not lost it waits for this.
<1>14. ASSUME ~errno, Stage(k)
       PROVE  /\ toSrv' = <<>> /\ toCli = <<>> /\ m.op = cli.op /\ m.id = calls
              /\ cli.read = 0 /\ cli.stored = 0
              /\ \/ cli.at = "head" /\ cli.op \in {"put", "input"}
                 \/ cli.at = "take" /\ cli.op \in {"get", "output"}
                 \/ cli.at = "answer" /\ cli.op \in {"pwd", "sql"}
  <2>1. 1 \in 1 .. Len(toSrv)
    BY <1>5
  <2>2. ~Idle(k)
    BY <1>11, <2>1 DEF Idle, m
  <2>3. ~Sending(k)
    BY <1>11, <1>5, <1>13 DEF Sending
  <2>4. ~Headed /\ ~Finishing(k) /\ ~Answered /\ ~Taking
    BY <1>2 DEF Headed, Finishing, Answered, Taking, OneAnswer
  <2>5. Asked(k)
    BY <1>14, <2>2, <2>3, <2>4 DEF Stage
  <2>6. Len(toSrv) = 1
    <3>1. \A i \in 1 .. Len(toSrv) - 1 : Mute(toSrv[i])
      BY <2>5 DEF Asked
    <3>2. Len(toSrv) # 1 => 1 \in 1 .. Len(toSrv) - 1
      BY <1>5
    <3> QED BY <1>11, <3>1, <3>2 DEF m
  <2>7. m = [op |-> cli.op, more |-> FALSE, quiet |-> FALSE, id |-> calls]
    BY <2>5, <2>6 DEF Asked, m
  <2>8. m.op = cli.op /\ m.id = calls
    BY <2>7
  <2> QED BY <1>5, <2>5, <2>6, <2>8 DEF Asked
<1> DEFINE r(e, b) == Reply(e, b, FALSE, m.id)
<1>15. ASSUME NEW e \in {0, 1}, NEW b \in BOOLEAN, toCli' = Append(toCli, r(e, b))
       PROVE  /\ toCli' \in Seq(Replies)
              /\ toCli = <<>> => /\ Len(toCli') = 1 /\ toCli'[1].err = e /\ (toCli'[1].more <=> b)
                                 /\ ~toCli'[1].data /\ toCli'[1].id = m.id
  BY <1>1, <1>12, <1>15, FirstAnswer
<1> HIDE DEF r
<1>16. CASE /\ m.op \in {"put", "input"} /\ toCli' = Append(toCli, r(0, FALSE))
            /\ Serving(IF m.op = "put" THEN "put" ELSE "exec", m.id, 0)
  <2>1. /\ srv'.at = (IF m.op = "put" THEN "put" ELSE "exec") /\ srv'.id = m.id /\ srv'.stored = 0
        /\ srv'.flg = 0
    BY <1>16 DEF Serving
  <2>2. toCli' \in Seq(Replies)
    BY <1>15, <1>16
  <2>3. Ranges'
    BY <1>1, <1>2, <1>5, <1>7, <1>10, <1>16, <2>2 DEF Ranges, Serving
  <2>4. Bounded(0)'
    BY <1>10, <2>1 DEF Bounded
  <2>5. Lost => Lost'
    BY <1>2 DEF Lost
  <2>6. ASSUME ~errno, Stage(k) PROVE Headed'
    <3>1. /\ toSrv' = <<>> /\ toCli = <<>> /\ m.op = cli.op /\ m.id = calls /\ cli.read = 0
          /\ cli.at = "head"
      BY <1>14, <1>16, <2>6
    <3>2. OneAnswer' /\ toCli'[1].err = 0
      BY <1>2, <1>15, <1>16, <3>1 DEF OneAnswer
    <3>3. Storing(0)'
      BY <1>2, <1>16, <2>1, <3>1 DEF Storing
    <3> QED BY <1>2, <1>16, <3>1, <3>2, <3>3 DEF Headed
  <2> QED BY <1>2, <1>3, <1>5, <1>13, <2>3, <2>4, <2>5, <2>6 DEF TransferInv, Stage
<1>17. ASSUME NEW err \in {0, 1}, m.op \in {"put", "input", "get", "output", "pwd", "sql"},
              toCli' = Append(toCli, r(err, FALSE)), m.op \in {"pwd", "sql"} \/ err = 1, UNCHANGED srv
       PROVE  TransferInv'
  <2>1. /\ toCli' \in Seq(Replies)
        /\ toCli = <<>> => /\ Len(toCli') = 1 /\ toCli'[1].err = err /\ ~toCli'[1].more
                           /\ ~toCli'[1].data /\ toCli'[1].id = m.id
    BY <1>15, <1>17
  <2>2. Ranges'
    BY <1>1, <1>2, <1>5, <1>10, <1>17, <2>1 DEF Ranges
  <2>3. Bounded(0)'
    BY <1>2, <1>17 DEF Bounded
  <2>4. Lost => Lost'
    BY <1>2 DEF Lost
  <2>5. ASSUME ~errno, Stage(k) PROVE Headed' \/ Answered' \/ Taking'
    <3>1. /\ toSrv' = <<>> /\ toCli = <<>> /\ m.op = cli.op /\ m.id = calls
          /\ cli.read = 0 /\ cli.stored = 0
          /\ \/ cli.at = "head" /\ cli.op \in {"put", "input"}
             \/ cli.at = "take" /\ cli.op \in {"get", "output"}
             \/ cli.at = "answer" /\ cli.op \in {"pwd", "sql"}
      BY <1>14, <2>5
    <3>2. OneAnswer'
      BY <1>2, <2>1, <3>1 DEF OneAnswer
    <3>3. CASE cli.at = "head"
      <4>0. err = 1
        BY <1>17, <3>1, <3>3
      <4>1. toCli'[1].err # 0
        BY <2>1, <3>1, <4>0
      <4> QED BY <1>2, <1>17, <3>1, <3>2, <3>3, <4>1 DEF Headed
    <3>4. CASE cli.at = "answer"
      BY <1>2, <1>17, <3>1, <3>2, <3>4 DEF Answered
    <3>5. CASE cli.at = "take"
      <4>1. err = 1 /\ Len(toCli') = 1 /\ toCli'[1].err = 1
        BY <1>17, <2>1, <3>1, <3>5
      <4>2. /\ Len(toCli') = 0 + 0 + 1 /\ toCli'[0 + 0 + 1].err # 0
            /\ srv'.at = "loop" /\ cli'.stored + 0 <= MaxBlocks
        <5>1. 0 + 0 + 1 = 1 /\ 0 + 0 <= MaxBlocks
          OBVIOUS
        <5>2. cli'.stored = 0 /\ srv'.at = "loop"
          BY <1>2, <1>17, <3>1
        <5>3. Len(toCli') = 0 + 0 + 1
          BY <4>1, <5>1
        <5>4. toCli'[0 + 0 + 1].err # 0
          BY <4>1, <5>1
        <5>5. cli'.stored + 0 <= MaxBlocks
          BY <5>1, <5>2
        <5> QED BY <5>2, <5>3, <5>4, <5>5
      <4>3. \A i \in 1 .. Len(toCli') : i = 1
        BY <4>1
      <4>4. /\ toCli'[1].id = calls' /\ ~toCli'[1].data /\ ~toCli'[1].more
        BY <1>2, <2>1, <3>1
      <4>5. Incoming(0, 0)'
        BY <4>2, <4>3, <4>4 DEF Incoming
      <4> QED BY <4>5, <1>2, <1>17, <3>1, <3>5, <4>1, <4>2 DEF Taking
    <3> QED BY <3>1, <3>3, <3>4, <3>5
  <2> QED BY <1>2, <1>3, <1>5, <1>13, <2>2, <2>3, <2>4, <2>5 DEF TransferInv, Stage
<1>18. ASSUME NEW n \in 0 .. MaxBlocks,
              \/ m.op = "get" /\ toCli' = Append(toCli, r(0, TRUE)) /\ Serving("get", m.id, n)
              \/ m.op = "output" /\ toCli' = toCli /\ Serving("out", m.id, n)
       PROVE  TransferInv'
  <2>1. /\ srv'.at = (IF m.op = "get" THEN "get" ELSE "out") /\ srv'.id = m.id /\ srv'.read = 0
        /\ m.op \in {"get", "output"}
    <3>1. CASE m.op = "get" /\ Serving("get", m.id, n)
      BY <3>1 DEF Serving
    <3>2. CASE m.op = "output" /\ Serving("out", m.id, n)
      BY <3>2 DEF Serving
    <3> QED BY <1>18, <3>1, <3>2
  <2>2. toCli' \in Seq(Replies)
    BY <1>1, <1>15, <1>18 DEF Ranges
  <2>3. Ranges'
    <3>1. PICK at \in {"get", "out"} : Serving(at, m.id, n)
      BY <1>18
    <3> HIDE DEF Replies, Requests
    <3> QED BY <1>1, <1>2, <1>5, <1>7, <1>10, <2>2, <3>1 DEF Ranges, Serving
  <2>4. Bounded(0)'
    BY <2>1 DEF Bounded
  <2>5. Lost => Lost'
    BY <1>2 DEF Lost
  <2>6. ASSUME ~errno, Stage(k) PROVE Taking'
    <3>1. /\ toSrv' = <<>> /\ toCli = <<>> /\ m.op = cli.op /\ m.id = calls
          /\ cli.stored = 0 /\ cli.at = "take"
      BY <1>14, <2>1, <2>6
    <3>2. CASE m.op = "get"
      <4>1. /\ Len(toCli') = 1 /\ toCli'[1].err = 0 /\ toCli'[1].more /\ ~toCli'[1].data
            /\ toCli'[1].id = calls
        BY <1>15, <1>18, <3>1, <3>2
      <4>2. Incoming(1, 0)'
        BY <1>2, <1>10, <2>1, <3>1, <3>2, <4>1 DEF Incoming
      <4> QED BY <1>2, <2>1, <3>1, <3>2, <4>1, <4>2 DEF Taking
    <3>3. CASE m.op = "output"
      <4>1. toCli' = <<>> /\ Len(toCli') = 0
        BY <1>18, <3>1, <3>3
      <4>2. Incoming(0, 0)'
        BY <1>2, <1>10, <2>1, <3>1, <3>3, <4>1 DEF Incoming
      <4> QED BY <1>2, <2>1, <3>1, <3>3, <4>1, <4>2 DEF Taking
    <3> QED BY <2>1, <3>2, <3>3
  <2> QED BY <1>2, <1>3, <1>5, <1>13, <2>3, <2>4, <2>5, <2>6 DEF TransferInv, Stage
<1> QED BY <1>8, <1>16, <1>17, <1>18 DEF r

\* The next block of what the client sends.
LEMMA BlockStep ==
  ASSUME TransferInv, NothingMissed, StoreBlock \/ FeedCommand
  PROVE  TransferInv'
<1>0. MaxCalls \in Nat /\ MaxBlocks \in Nat /\ MaxFaults \in Nat
  BY TransferAssumption
<1> USE <1>0
<1> DEFINE m == toSrv[1]
<1>1. Ranges
  BY DEF TransferInv
<1>2. /\ srv.at \in {"put", "exec"} /\ toSrv # <<>> /\ toSrv' = Tail(toSrv)
      /\ UNCHANGED <<cli, calls, errno>>
  BY DEF StoreBlock, FeedCommand
<1>3. PICK k \in 0 .. Len(toSrv) : Heads(k) /\ Bounded(k) /\ (Lost \/ (~errno /\ Stage(k)))
  BY DEF TransferInv
<1>4. k \in Nat /\ srv.stored \in Nat /\ srv.stored + k <= MaxBlocks /\ srv.stored <= MaxBlocks
  BY <1>1, <1>2, <1>3 DEF Ranges, Bounded
<1>5. /\ toSrv' \in Seq(Requests) /\ Less(k) \in 0 .. Len(toSrv') /\ Heads(Less(k))'
      /\ Head(toSrv) = m /\ (m.more <=> k > 0)
      /\ \A i \in 1 .. Len(toSrv') : i + 1 \in 1 .. Len(toSrv) /\ toSrv'[i] = toSrv[i + 1]
      /\ Len(toSrv) \in Nat \ {0} /\ Len(toSrv') = Len(toSrv) - 1
      /\ toSrv' = <<>> <=> Len(toSrv) = 1
  BY <1>1, <1>2, <1>3, <1>4, HeadsTaken
<1> HIDE DEF m
<1>6. Lost => Lost'
  BY <1>2 DEF Lost
<1>7. ~Headed /\ ~Answered /\ ~Taking
  BY <1>2 DEF Headed, Answered, Taking, OneAnswer
<1>8. ASSUME k > 0
      PROVE  TransferInv'
  <2>1. /\ toCli' = toCli /\ (faults' = faults \/ (faults < MaxFaults /\ faults' = faults + 1))
        /\ \/ /\ srv' = [srv EXCEPT !.stored = IF srv.flg = 0 THEN @ + 1 ELSE @] /\ srv.at = "put"
           \/ srv' = [srv EXCEPT !.flg = 1] /\ srv.at = "put" /\ srv.flg = 0
           \/ srv' = [srv EXCEPT !.stored = @ + 1] /\ srv.at = "exec"
    BY <1>5, <1>8 DEF StoreBlock, FeedCommand, Works, Fails, NothingMissed
  <2>2. /\ srv'.at = srv.at /\ srv'.id = srv.id /\ srv'.read = srv.read /\ srv'.left = srv.left
        /\ \/ srv'.stored = srv.stored + 1 /\ srv'.flg = srv.flg
           \/ srv'.stored = srv.stored /\ srv'.flg # 0
        /\ srv'.flg \in {0, 1}
    BY <1>1, <2>1 DEF Ranges
  <2>3. Less(k) = k - 1 /\ srv'.stored \in 0 .. MaxBlocks /\ srv'.stored + Less(k) <= srv.stored + k
    BY <1>4, <1>8, <2>2 DEF Less
  <2>4. Ranges'
    <3>1. srv' \in [at : {"loop", "put", "exec", "get", "out", "ended"}, id : Nat, read : 0 .. MaxBlocks,
                    stored : 0 .. MaxBlocks, left : 0 .. MaxBlocks, flg : {0, 1}]
      BY <1>1, <2>1, <2>2, <2>3 DEF Ranges
    <3>2. faults' \in 0 .. MaxFaults
      BY <1>1, <2>1 DEF Ranges
    <3> QED BY <1>1, <1>2, <1>5, <2>1, <2>2, <3>1, <3>2 DEF Ranges
  <2>5. Bounded(Less(k))'
    BY <1>4, <2>2, <2>3 DEF Bounded
  <2>6. Storing(k) => Storing(Less(k))'
    <3>1. cli.read \in Nat /\ cli'.read = cli.read
      BY <1>1, <1>2 DEF Ranges
    <3>2. srv.stored + k <= cli.read => srv'.stored + Less(k) <= cli'.read
      BY <1>4, <2>2, <2>3, <3>1
    <3>3. srv'.flg = 0 => srv.flg = 0 /\ srv'.stored + Less(k) = srv.stored + k
      BY <1>4, <2>2, <2>3
    <3> QED BY <1>2, <2>2, <3>1, <3>2, <3>3 DEF Storing
  <2>7. ASSUME Idle(k) PROVE Idle(Less(k))'
    <3>1. /\ srv.at = "exec" /\ Len(toSrv) = k + 1 /\ \A i \in 1 .. Len(toSrv) : Mute(toSrv[i])
      BY <1>2, <2>7 DEF Idle
    <3>2. \A i \in 1 .. Len(toSrv') : Mute(toSrv'[i])
      BY <1>5, <3>1
    <3>3. ~(cli'.op \in {"put", "get"} /\ cli'.ret = 0)
      BY <1>2, <2>7 DEF Idle
    <3>4. Len(toSrv') = Less(k) + 1
      BY <1>4, <1>5, <2>3, <3>1
    <3> QED BY <1>2, <2>1, <2>2, <2>7, <3>1, <3>2, <3>3, <3>4 DEF Idle, WholeFile
  <2>8. ASSUME Asked(k) PROVE Asked(Less(k))'
    <3>1. /\ srv.at = "exec" /\ Len(toSrv) = k + 2
          /\ \A i \in 1 .. Len(toSrv) - 1 : Mute(toSrv[i])
      BY <1>2, <2>8 DEF Asked
    <3>2. \A i \in 1 .. Len(toSrv') - 1 : Mute(toSrv'[i])
      BY <1>5, <3>1
    <3>3. Len(toSrv') = Less(k) + 2 /\ toSrv' # <<>> /\ toSrv'[Len(toSrv')] = toSrv[Len(toSrv)]
      BY <1>4, <1>5, <1>8, <2>3, <3>1
    <3> QED BY <1>2, <2>1, <2>2, <2>8, <3>1, <3>2, <3>3 DEF Asked
  <2>9. ASSUME Sending(k) PROVE Sending(Less(k))'
    <3>1. Len(toSrv) = k /\ \A i \in 1 .. k : Mute(toSrv[i])
      BY <2>9 DEF Sending
    <3>2. Len(toSrv') = Less(k) /\ \A i \in 1 .. Less(k) : Mute(toSrv'[i])
      BY <1>4, <1>5, <2>3, <3>1
    <3> QED BY <1>2, <2>1, <2>6, <2>9, <3>2 DEF Sending
  <2>10. ASSUME Finishing(k) PROVE Finishing(Less(k))'
    <3>1. toCli = <<>> /\ Len(toSrv) = k + 1 /\ srv.at = "put" /\ Storing(k)
      BY <1>2, <2>10 DEF Finishing, OneAnswer
    <3>2. Len(toSrv') = Less(k) + 1
      BY <1>4, <1>5, <2>3, <3>1
    <3> QED BY <1>2, <2>1, <2>2, <2>6, <2>10, <3>1, <3>2 DEF Finishing
  <2>11. Lost' \/ (~errno' /\ Stage(Less(k))')
    BY <1>2, <1>3, <1>6, <1>7, <2>7, <2>8, <2>9, <2>10 DEF Stage
  <2> QED BY <1>5, <2>4, <2>5, <2>11 DEF TransferInv
<1>9. ASSUME k = 0
      PROVE  TransferInv'
  <2>1. /\ srv' = [srv EXCEPT !.at = "loop"] /\ faults' = faults
        /\ \/ srv.at = "put" /\ toCli' = Append(toCli, Reply(srv.flg, FALSE, FALSE, srv.id))
           \/ srv.at = "exec" /\ toCli' = toCli
    <3> ~m.more /\ Head(toSrv) = m
      BY <1>5, <1>9
    <3>1. CASE StoreBlock
      <4>1. srv.at = "put" /\ Answer(srv.flg, FALSE, FALSE, srv.id) /\ Loop /\ Works
        BY <3>1, Zenon DEF StoreBlock
      <4> QED BY <4>1 DEF Answer, Loop, Works
    <3>2. CASE FeedCommand
      <4>1. srv.at = "exec" /\ toCli' = toCli /\ faults' = faults /\ Loop
        BY <3>2, Zenon DEF FeedCommand
      <4> QED BY <4>1 DEF Loop
    <3> QED BY <3>1, <3>2
  <2>2. /\ srv'.at = "loop" /\ srv'.id = srv.id /\ srv'.read = srv.read /\ srv'.left = srv.left
        /\ srv'.stored = srv.stored /\ srv'.flg = srv.flg
    BY <1>1, <2>1 DEF Ranges
  <2> DEFINE r == Reply(srv.flg, FALSE, FALSE, srv.id)
  <2>3. r \in Replies /\ r.err = srv.flg /\ r.id = srv.id
    BY <1>1 DEF Ranges, Reply, Replies
  <2> HIDE DEF r
  <2>4. toCli' \in Seq(Replies) /\ (toCli = <<>> /\ srv.at = "put" => Len(toCli') = 1 /\ toCli'[1] = r)
    <3>1. CASE srv.at = "put"
      <4>1. toCli' = Append(toCli, r)
        BY <2>1, <3>1 DEF r
      <4> QED BY <1>1, <2>3, <4>1, FirstAnswer
    <3>2. CASE srv.at = "exec"
      BY <1>1, <2>1, <3>2 DEF Ranges
    <3> QED BY <1>2, <3>1, <3>2
  <2>5. Ranges'
    BY <1>1, <1>2, <1>5, <2>1, <2>2, <2>4 DEF Ranges
  <2>6. Less(k) = 0 /\ Bounded(0)'
    BY <1>9, <2>2 DEF Less, Bounded
  <2>7. ASSUME Idle(0) PROVE Idle(0)'
    <3>1. /\ srv.at = "exec" /\ Len(toSrv) = 1
      BY <1>2, <2>7 DEF Idle
    <3>2. toSrv' = <<>> /\ Len(toSrv') = 0
      BY <1>5, <3>1
    <3>3. ~(cli'.op \in {"put", "get"} /\ cli'.ret = 0)
      BY <1>2, <2>7 DEF Idle
    <3> QED BY <1>2, <2>1, <2>2, <2>7, <3>1, <3>2, <3>3 DEF Idle, WholeFile
  <2>8. ASSUME Asked(0) PROVE Asked(0)'
    <3>1. /\ srv.at = "exec" /\ Len(toSrv) = 2
      BY <1>2, <2>8 DEF Asked
    <3>2. Len(toSrv') = 1 /\ toSrv' # <<>> /\ toSrv'[Len(toSrv')] = toSrv[Len(toSrv)]
      BY <1>5, <3>1
    <3>3. \A i \in 1 .. Len(toSrv') - 1 : Mute(toSrv'[i])
      BY <3>2
    <3> QED BY <1>2, <2>1, <2>2, <2>8, <3>1, <3>2, <3>3 DEF Asked
  <2>9. ~Sending(0)
    BY <1>5 DEF Sending
  <2>10. ASSUME Finishing(0) PROVE Finishing(0)'
    <3>1. toCli = <<>> /\ Len(toSrv) = 1 /\ srv.at = "put" /\ Storing(0) /\ cli.op = "put"
      BY <1>2, <2>10 DEF Finishing, OneAnswer
    <3>2. srv.id = calls /\ (srv.flg = 0 => srv.stored = cli.read)
      BY <1>4, <3>1 DEF Storing
    <3>3. OneAnswer' /\ toCli'[1].err = srv.flg
      BY <1>2, <1>5, <2>3, <2>4, <3>1, <3>2 DEF OneAnswer
    <3> QED BY <1>2, <2>2, <2>10, <3>2, <3>3 DEF Finishing
  <2>11. Lost' \/ (~errno' /\ Stage(0)')
    BY <1>2, <1>3, <1>6, <1>7, <1>9, <2>7, <2>8, <2>9, <2>10 DEF Stage
  <2> QED BY <1>5, <2>5, <2>6, <2>11 DEF TransferInv
<1> QED BY <1>4, <1>8, <1>9

\* A block, or the end, of what the client gets.
LEMMA SendStep ==
  ASSUME TransferInv, SendData \/ SendEnd
  PROVE  TransferInv'
<1>0. MaxCalls \in Nat /\ MaxBlocks \in Nat /\ MaxFaults \in Nat
  BY TransferAssumption
<1> USE <1>0
<1>1. Ranges
  BY DEF TransferInv
<1>2. /\ srv.at \in {"get", "out"} /\ UNCHANGED <<cli, toSrv, calls, errno>>
  BY DEF SendData, SendEnd
<1>3. PICK k \in 0 .. Len(toSrv) : Heads(k) /\ Bounded(k) /\ (Lost \/ (~errno /\ Stage(k)))
  BY DEF TransferInv
<1>4. PICK err \in {0, 1}, data \in BOOLEAN :
        /\ toCli' = Append(toCli, Reply(err, data, data, srv.id))
        /\ IF data THEN err = 0 /\ srv.left > 0 /\ srv' = [srv EXCEPT !.left = @ - 1, !.read = @ + 1]
                   ELSE srv' = [srv EXCEPT !.at = "loop"]
  BY DEF SendData, SendEnd, Answer, Loop
<1>5. faults' \in 0 .. MaxFaults
  <2>1. faults' = faults \/ (faults < MaxFaults /\ faults' = faults + 1)
    BY DEF SendData, SendEnd, Works, Fails
  <2> QED BY <1>1, <2>1 DEF Ranges
<1> DEFINE r == Reply(err, data, data, srv.id)
<1>6. r \in Replies /\ r.err = err /\ (r.more <=> data) /\ (r.data <=> data) /\ r.id = srv.id
  BY <1>1, <1>4 DEF Ranges, Reply, Replies
<1> HIDE DEF r
<1>7. /\ toCli' \in Seq(Replies) /\ Len(toCli) \in Nat /\ Len(toCli') = Len(toCli) + 1
      /\ toCli'[Len(toCli) + 1] = r /\ \A i \in 1 .. Len(toCli) : toCli'[i] = toCli[i]
  <2>1. toCli' = Append(toCli, r)
    BY <1>4 DEF r
  <2> QED BY <1>1, <1>6, <2>1, FirstAnswer
<1>8. /\ srv'.id = srv.id /\ srv'.stored = srv.stored /\ srv'.flg = srv.flg
      /\ IF data THEN srv'.at = srv.at /\ srv'.left = srv.left - 1 /\ srv'.read = srv.read + 1
                 ELSE srv'.at = "loop" /\ srv'.left = srv.left /\ srv'.read = srv.read
  <2>1. CASE data
    <3>1. srv' = [srv EXCEPT !.left = @ - 1, !.read = @ + 1]
      BY <1>4, <2>1
    <3> QED BY <1>1, <2>1, <3>1 DEF Ranges
  <2>2. CASE ~data
    <3>1. srv' = [srv EXCEPT !.at = "loop"]
      BY <1>4, <2>2
    <3> QED BY <1>1, <2>2, <3>1 DEF Ranges
  <2> QED BY <2>1, <2>2
<1>9. /\ srv.read \in Nat /\ srv.left \in Nat /\ srv.read + srv.left <= MaxBlocks
      /\ srv'.read \in 0 .. MaxBlocks /\ srv'.left \in 0 .. MaxBlocks /\ srv'.read + srv'.left <= MaxBlocks
  <2>1. srv.read \in 0 .. MaxBlocks /\ srv.left \in 0 .. MaxBlocks /\ srv.read + srv.left <= MaxBlocks
    BY <1>1 DEF Ranges
  <2>2. CASE data
    <3>1. srv.left > 0 /\ srv'.left = srv.left - 1 /\ srv'.read = srv.read + 1
      BY <1>4, <1>8, <2>2
    <3> QED BY <2>1, <3>1
  <2>3. CASE ~data
    <3>1. srv'.left = srv.left /\ srv'.read = srv.read
      BY <1>8, <2>3
    <3> QED BY <2>1, <3>1
  <2> QED BY <2>2, <2>3
<1>10. Ranges'
  <2>1. srv' \in [at : {"loop", "put", "exec", "get", "out", "ended"}, id : Nat, read : 0 .. MaxBlocks,
                  stored : 0 .. MaxBlocks, left : 0 .. MaxBlocks, flg : {0, 1}]
    BY <1>1, <1>4, <1>8, <1>9 DEF Ranges
  <2> QED BY <1>1, <1>2, <1>5, <1>7, <1>9, <2>1 DEF Ranges
<1>11. Heads(k)' /\ Bounded(k)'
  BY <1>2, <1>3, <1>8 DEF Heads, Bounded
<1>12. Lost => Lost'
  BY <1>2 DEF Lost
<1>13. Stage(k) => Taking
  BY <1>2 DEF Stage, Idle, Asked, Headed, Sending, Finishing, Answered, Storing, OneAnswer
<1>14. ASSUME Taking, ~errno PROVE Taking'
  <2>1. PICK size \in {0, 1}, d \in 0 .. Len(toCli) : Incoming(size, d)
    BY <1>14 DEF Taking
  <2>2. /\ cli.at = "take" /\ toSrv = <<>> /\ srv.id = calls
        /\ \/ srv.at = "get" /\ cli.op = "get"
           \/ srv.at = "out" /\ cli.op = "output"
    BY <1>2, <1>14 DEF Taking
  <2>3. /\ Len(toCli) = size + d /\ cli.stored + d = srv.read
        /\ \A i \in 1 .. Len(toCli) :
             /\ toCli[i].id = calls
             /\ toCli[i].data <=> size < i
             /\ toCli[i].more /\ toCli[i].err = 0
    BY <1>2, <1>7, <2>1 DEF Incoming
  <2>4. cli.stored \in Nat /\ d \in Nat /\ size \in Nat /\ cli'.stored = cli.stored
    BY <1>1, <1>2, <1>7, <2>1 DEF Ranges
  <2>5. CASE data
    <3>1. Len(toCli') = size + (d + 1) /\ d + 1 \in 0 .. Len(toCli')
      BY <1>7, <2>3, <2>4
    <3>2. cli'.stored + (d + 1) = srv'.read /\ cli'.stored + (d + 1) <= MaxBlocks /\ srv'.at # "loop"
      <4>1. srv'.read = srv.read + 1 /\ srv'.at = srv.at
        BY <1>8, <2>5
      <4>2. cli'.stored + (d + 1) = srv'.read
        <5>1. cli.stored + d = srv.read /\ cli'.stored = cli.stored /\ cli.stored \in Nat /\ d \in Nat
          BY <2>3, <2>4
        <5>2. cli.stored + (d + 1) = (cli.stored + d) + 1
          BY <5>1
        <5> QED BY <4>1, <5>1, <5>2
      <4>3. srv'.read <= MaxBlocks
        BY <1>9
      <4> QED BY <1>2, <4>1, <4>2, <4>3
    <3>3. \A i \in 1 .. Len(toCli') :
            /\ toCli'[i].id = calls'
            /\ toCli'[i].data <=> size < i /\ i <= size + (d + 1)
            /\ toCli'[i].more <=> i <= size + (d + 1)
            /\ toCli'[i].more => toCli'[i].err = 0
      <4> SUFFICES ASSUME NEW i \in 1 .. Len(toCli')
                   PROVE  /\ toCli'[i].id = calls' /\ (toCli'[i].data <=> size < i)
                          /\ toCli'[i].more /\ toCli'[i].err = 0
        BY <3>1
      <4>1. CASE i = Len(toCli) + 1
        <5>1. r.err = 0 /\ r.more /\ r.data /\ r.id = calls'
          BY <1>2, <1>4, <1>6, <2>2, <2>5
        <5>2. toCli'[i] = r /\ size < i
          BY <1>7, <2>3, <2>4, <4>1
        <5> QED BY <5>1, <5>2
      <4>2. CASE i # Len(toCli) + 1
        <5>1. i \in 1 .. Len(toCli)
          BY <1>7, <4>2
        <5> QED BY <1>2, <1>7, <2>3, <5>1
      <4> QED BY <4>1, <4>2
    <3>4. Incoming(size, d + 1)'
      BY <1>8, <3>1, <3>2, <3>3 DEF Incoming
    <3> QED BY <1>2, <1>8, <2>1, <2>2, <2>5, <3>1, <3>4 DEF Taking
  <2>6. CASE ~data
    <3>1. Len(toCli') = size + d + 1 /\ d \in 0 .. Len(toCli') /\ srv'.at = "loop"
      BY <1>7, <1>8, <2>3, <2>4, <2>6
    <3>2. cli'.stored + d = srv'.read /\ cli'.stored + d <= MaxBlocks
      BY <1>8, <1>9, <2>3, <2>4, <2>6
    <3>3. \A i \in 1 .. Len(toCli') :
            /\ toCli'[i].id = calls'
            /\ toCli'[i].data <=> size < i /\ i <= size + d
            /\ toCli'[i].more <=> i <= size + d
            /\ toCli'[i].more => toCli'[i].err = 0
      <4> SUFFICES ASSUME NEW i \in 1 .. Len(toCli')
                   PROVE  /\ toCli'[i].id = calls'
                          /\ toCli'[i].data <=> size < i /\ i <= size + d
                          /\ toCli'[i].more <=> i <= size + d
                          /\ toCli'[i].more => toCli'[i].err = 0
        OBVIOUS
      <4>1. CASE i = Len(toCli) + 1
        BY <1>2, <1>6, <1>7, <2>2, <2>3, <2>4, <2>6, <4>1
      <4>2. CASE i # Len(toCli) + 1
        <5>1. i \in 1 .. Len(toCli)
          BY <1>7, <4>2
        <5> QED BY <1>2, <1>7, <2>3, <2>4, <5>1
      <4> QED BY <4>1, <4>2
    <3>4. Incoming(size, d)'
      BY <1>8, <3>1, <3>2, <3>3 DEF Incoming
    <3> QED BY <1>2, <2>1, <2>2, <3>1, <3>4 DEF Taking
  <2> QED BY <2>5, <2>6
<1>15. Lost' \/ (~errno' /\ Stage(k)')
  BY <1>2, <1>3, <1>12, <1>13, <1>14 DEF Stage
<1> QED BY <1>2, <1>3, <1>10, <1>11, <1>15 DEF TransferInv

\* The service gives up, or the session ends.
LEMMA EndStep ==
  ASSUME TransferInv, NothingMissed, StopWaiting \/ Ended
  PROVE  TransferInv'
<1>0. MaxCalls \in Nat /\ MaxBlocks \in Nat /\ MaxFaults \in Nat
  BY TransferAssumption
<1> USE <1>0
<1>1. Ranges
  BY DEF TransferInv
<1>2. PICK k \in 0 .. Len(toSrv) : Heads(k) /\ Bounded(k) /\ (Lost \/ (~errno /\ Stage(k)))
  BY DEF TransferInv
<1>3. /\ toSrv = <<>> /\ UNCHANGED <<cli, toSrv, toCli, calls, errno>>
      /\ \/ srv.at = "exec" /\ srv' = [srv EXCEPT !.at = "loop"] /\ faults < MaxFaults /\ faults' = faults + 1
         \/ errno /\ srv' = [srv EXCEPT !.at = "ended"] /\ faults' = faults
  BY DEF StopWaiting, Ended, Fails, Loop, NothingMissed
<1>4. /\ srv'.id = srv.id /\ srv'.stored = srv.stored /\ srv'.flg = srv.flg
      /\ srv'.left = srv.left /\ srv'.read = srv.read
      /\ srv'.at = "loop" \/ srv'.at = "ended"
      /\ ~errno => srv.at = "exec" /\ srv'.at = "loop"
  BY <1>1, <1>3 DEF Ranges
<1>5. Ranges'
  <2>1. faults' \in 0 .. MaxFaults
    BY <1>1, <1>3 DEF Ranges
  <2> QED BY <1>1, <1>3, <1>4, <2>1 DEF Ranges
<1>6. Heads(k)' /\ Bounded(k)' /\ (Lost => Lost')
  BY <1>2, <1>3, <1>4 DEF Heads, Bounded, Lost
<1>7. Len(toSrv) = 0 /\ k = 0
  BY <1>2, <1>3
<1>8. ASSUME ~errno PROVE Stage(k) => Stage(k)'
  <2>1. ~Idle(k) /\ ~Asked(k) /\ ~Finishing(k) /\ ~Answered /\ ~Taking
    BY <1>3, <1>4, <1>7, <1>8 DEF Idle, Asked, Finishing, Answered, Taking, Storing, OneAnswer
  <2>2. Headed => Headed'
    BY <1>3, <1>4, <1>8 DEF Headed, Storing, OneAnswer
  <2>3. Sending(k) => Sending(k)'
    BY <1>3, <1>4, <1>8 DEF Sending, Storing
  <2> QED BY <2>1, <2>2, <2>3 DEF Stage
<1> QED BY <1>2, <1>3, <1>5, <1>6, <1>8 DEF TransferInv

LEMMA TransferStep ==
  ASSUME NothingMissed, TransferInv, [TransferNext]_transferVars
  PROVE  TransferInv' \/ strayed'
<1>1. CASE UNCHANGED transferVars
  <2>1. /\ cli' = cli /\ srv' = srv /\ toSrv' = toSrv /\ toCli' = toCli
        /\ calls' = calls /\ errno' = errno /\ faults' = faults
    BY <1>1 DEF transferVars
  <2>2. PICK k \in 0 .. Len(toSrv) : Heads(k) /\ Bounded(k) /\ (Lost \/ (~errno /\ Stage(k)))
    BY DEF TransferInv
  <2>3. Ranges'
    BY <2>1 DEF TransferInv, Ranges
  <2>4. Heads(k)' /\ Bounded(k)' /\ (Lost => Lost')
    BY <2>1, <2>2 DEF Heads, Bounded, Lost
  <2>5. (Idle(k) => Idle(k)') /\ (Asked(k) => Asked(k)') /\ (Answered => Answered')
    BY <2>1 DEF Idle, WholeFile, Asked, Answered, OneAnswer
  <2>6. (Headed => Headed') /\ (Sending(k) => Sending(k)') /\ (Finishing(k) => Finishing(k)')
    BY <2>1 DEF Headed, Sending, Finishing, Storing, OneAnswer
  <2>7. Taking => Taking'
    BY <2>1 DEF Taking, Incoming
  <2>8. Stage(k) => Stage(k)'
    BY <2>5, <2>6, <2>7 DEF Stage
  <2> QED BY <2>1, <2>2, <2>3, <2>4, <2>8 DEF TransferInv
<1>2. ASSUME NEW op \in Calls, NEW n \in 0 .. MaxBlocks, BeginCall(op, n) PROVE TransferInv'
  BY <1>2, BeginCallStep
<1>3. CASE Client
  BY <1>3, TakeHeadStep, SendBlockStep, SendLastStep, TakeAnswerStep, TakeBlockStep DEF Client
<1>4. CASE GiveUp
  BY <1>4, GiveUpStep
<1>5. CASE Server \/ StopWaiting
  <2>1. CASE Dispatch
    <3>1. LET m == Head(toSrv) IN
            EchoBlock(m) \/ OpenIn(m) \/ OpenOut(m) \/ Short(m) \/ (Names(m) /\ strayed')
      BY <2>1 DEF Dispatch, Names
    <3> QED BY <2>1, <3>1, EchoStep, OpenStep
  <2>2. CASE StoreBlock \/ FeedCommand
    BY <2>2, BlockStep
  <2>3. CASE SendData \/ SendEnd
    BY <2>3, SendStep
  <2>4. CASE StopWaiting \/ Ended
    BY <2>4, EndStep
  <2> QED BY <1>5, <2>1, <2>2, <2>3, <2>4 DEF Server
<1> QED BY <1>1, <1>2, <1>3, <1>4, <1>5 DEF TransferNext

-----------------------------------------------------------------------------
\* Once get_srvname has answered the end of an input nothing is said.
Tame == strayed \/ TransferInv

LEMMA TameStep == NothingMissed /\ Tame /\ [TransferNext]_transferVars => Tame'
<1> SUFFICES ASSUME NothingMissed, Tame, [TransferNext]_transferVars PROVE Tame'
  OBVIOUS
<1>1. CASE TransferInv
  BY <1>1, TransferStep DEF Tame
<1>2. CASE strayed
  <2>1. CASE UNCHANGED transferVars
    BY <1>2, <2>1 DEF transferVars, Tame
  <2>2. CASE TransferNext
    <3>1. CASE Client \/ GiveUp \/ \E op \in Calls, n \in 0 .. MaxBlocks : BeginCall(op, n)
      BY <1>2, <3>1 DEF Client, GiveUp, BeginCall, TakeHead, SendBlock, SendLast, TakeAnswer, TakeBlock, Tame
    <3>2. CASE Server \/ StopWaiting
      BY <1>2, <3>2 DEF Server, StopWaiting, Dispatch, StoreBlock, FeedCommand, SendData, SendEnd, Ended, Tame
    <3> QED BY <2>2, <3>1, <3>2 DEF TransferNext
  <2> QED BY <2>1, <2>2
<1> QED BY <1>1, <1>2 DEF Tame

LEMMA TransferSafe == Tame => AnswersMatch /\ StoredIsRead
<1> SUFFICES ASSUME TransferInv PROVE AnswersMatch /\ StoredIsRead
  BY DEF Tame, AnswersMatch, StoredIsRead
<1>0. MaxCalls \in Nat /\ MaxBlocks \in Nat /\ MaxFaults \in Nat
  BY TransferAssumption
<1> USE <1>0
<1>1. Ranges
  BY DEF TransferInv
<1>2. PICK k \in 0 .. Len(toSrv) : Heads(k) /\ Bounded(k) /\ (Lost \/ (~errno /\ Stage(k)))
  BY DEF TransferInv
<1>3. TransferTypeOK
  BY <1>1 DEF Ranges, TransferTypeOK
<1>4. ASSUME cli.at # "idle", toCli # <<>> PROVE Head(toCli).id = calls
  <2>1. Len(toCli) \in Nat \ {0} /\ Head(toCli) = toCli[1]
    BY <1>1, <1>4, TailFacts DEF Ranges
  <2>2. Headed \/ Finishing(k) \/ Answered \/ Taking
    BY <1>2, <1>4 DEF Lost, Stage, Idle, Asked, Sending
  <2>3. CASE Taking
    BY <2>1, <2>3 DEF Taking, Incoming
  <2>4. CASE ~Taking
    BY <1>4, <2>1, <2>2, <2>4 DEF Headed, Finishing, Answered, OneAnswer
  <2> QED BY <2>3, <2>4
<1>5. cli.at = "idle" /\ ~errno => toCli = <<>>
  BY <1>2 DEF Lost, Stage, Idle, Asked, Headed, Sending, Finishing, Answered, Taking
<1>6. WholeFile
  BY <1>2 DEF Lost, Stage, Idle, Asked, Headed, Sending, Finishing, Answered, Taking, WholeFile
<1> QED BY <1>3, <1>4, <1>5, <1>6 DEF AnswersMatch, StoredIsRead

\* For any number of calls, blocks and faults no call is answered with what was
\* sent for another (AnswersMatch; client.c:26-270, rexec.c:35-420), when nobody who
\* gives up waiting keeps the connection, until get_srvname answers the end of an
\* empty input that Rexec did not wait for.
THEOREM AnswersOwnCall == NothingMissed /\ TransferSpec => []AnswersMatch
<1> SUFFICES ASSUME NothingMissed PROVE TransferSpec => []AnswersMatch
  OBVIOUS
<1>1. Tame /\ [TransferNext]_transferVars => Tame'
  BY TameStep
<1>2. Tame => AnswersMatch
  BY TransferSafe
<1>3. TransferInit => Tame
  BY TransferStart DEF Tame
<1> QED BY <1>1, <1>2, <1>3, PTL DEF TransferSpec

\* Under the same assumptions a file transfer that reports success and keeps its
\* connection has stored every block that was read (StoredIsRead), though writes
\* fail and packages are pipelined.
THEOREM StoredWhole == NothingMissed /\ TransferSpec => []StoredIsRead
<1> SUFFICES ASSUME NothingMissed PROVE TransferSpec => []StoredIsRead
  OBVIOUS
<1>1. Tame /\ [TransferNext]_transferVars => Tame'
  BY TameStep
<1>2. Tame => StoredIsRead
  BY TransferSafe
<1>3. TransferInit => Tame
  BY TransferStart DEF Tame
<1> QED BY <1>1, <1>2, <1>3, PTL DEF TransferSpec
=============================================================================

------------------------------- MODULE SqlCalls --------------------------------
(***************************************************************************)
(* The calls of sccli/sqlc.c and the state they leave behind: cursors and   *)
(* transactions on the server.  connect->status counts what is open, and    *)
(* tells a forwarder between client and server (PACK_STATUS in ERRNO2) that *)
(* the next call must reach the same server again.                          *)
(*                                                                         *)
(* A caller closes what it opened, and a cursor that Prepare or RPC refused *)
(* with a cursor number below 0 (sqlc.c:222).  The server and the forwarder *)
(* are modelled by what these calls expect of them.                         *)
(***************************************************************************)
EXTENDS Integers, FiniteSets

CONSTANTS
  Cursors,      \* the cursors of the server
  StatusSize,   \* where connect->status, an unsigned int, wraps (2^32 in the code)
  MaxDebts,     \* refused calls not closed yet (a bound of the model)
  Refusals,     \* what the server may refuse
  Unbegun       \* a transaction may be ended that was never begun

ASSUME SqlAssumption ==
  /\ IsFiniteSet(Cursors) /\ MaxDebts \in Nat
  /\ StatusSize \in Nat /\ StatusSize > Cardinality(Cursors) + MaxDebts + 1
  /\ Refusals \subseteq {"prepare", "rpc", "begin", "commit", "close"}
  /\ Unbegun \in BOOLEAN

VARIABLES
  status,   \* connect->status, unsigned
  held,     \* the server's open cursors
  tran,     \* the server's transaction: "none", "open", or "refused" to begin
  debts,    \* refused cursors the caller has still to close
  told      \* ERRNO2 of the last package: what the forwarder was told last

sqlVars == <<status, held, tran, debts, told>>

SqlInit == status = 0 /\ held = {} /\ tran = "none" /\ debts = 0 /\ told = "0"

\* status++ and status-- of an unsigned int.
Count(n) == n % StatusSize

\* ERRNO2 = (connect->status > 0) ? PACK_STATUS : 0
Flag(s) == IF s > 0 THEN "PACK_STATUS" ELSE "0"

SendWith(s) == status' = s /\ told' = Flag(s)

\* The forwarder keeps the client on its server.
Bound == told = "PACK_STATUS"

Refuses(call) == call \in Refusals

\* N_SQL_Prepare.  When the package cannot be sent or the answer not received the
\* count is taken back; the connection is of no use then.
Prepare(c) ==
  /\ c \notin held
  /\ status' = Count(status + 1) /\ told' = "PACK_STATUS"
  /\ \/ held' = held \cup {c} /\ UNCHANGED debts
     \/ Refuses("prepare") /\ debts < MaxDebts /\ debts' = debts + 1 /\ UNCHANGED held
  /\ UNCHANGED tran

\* N_SQL_RPC: st_lev says how many cursors the procedure returns.
RPC(refs) ==
  /\ refs \cap held = {}
  /\ SendWith(Count(status + Cardinality(refs)))
  /\ \/ held' = held \cup refs /\ UNCHANGED debts
     \/ /\ Refuses("rpc") /\ debts + Cardinality(refs) <= MaxDebts
        /\ debts' = debts + Cardinality(refs) /\ UNCHANGED held
  /\ UNCHANGED tran

\* N_SQL_Fetch: always with PACK_STATUS.
Fetch(c) == c \in held /\ told' = "PACK_STATUS" /\ UNCHANGED <<status, held, tran, debts>>

\* N_SQL_Select and N_SQL_Exec.
Exec == SendWith(status) /\ UNCHANGED <<held, tran, debts>>

\* N_SQL_EndTran
BeginTran ==
  /\ tran = "none"
  /\ SendWith(Count(status + 1))
  /\ tran' \in {"open"} \cup {r \in {"refused"} : Refuses("begin")}
  /\ UNCHANGED <<held, debts>>

EndTran ==
  /\ tran # "none" \/ Unbegun
  /\ SendWith(Count(status - 1))
  /\ tran' \in {"none"} \cup {t \in {tran} : Refuses("commit")}
  /\ UNCHANGED <<held, debts>>

\* N_SQL_Close and N_SQL_Close_RefCursor of an open cursor.
Close(c) ==
  /\ c \in held
  /\ SendWith(Count(status - 1))
  /\ held' \in {held \ {c}} \cup {o \in {held} : Refuses("close")}
  /\ UNCHANGED <<tran, debts>>

\* Mutant: closing what was refused always frees the forwarder.
CloseRefusedAlways ==
  /\ debts > 0
  /\ debts' = debts - 1
  /\ status' = Count(status - 1) /\ told' = "PACK_NOANSER"
  /\ UNCHANGED <<held, tran>>

\* N_SQL_Close_RefCursor of a cursor number below 0: the server is not asked.
\* When nothing else is open, a package that wants no answer frees the forwarder.
CloseRefused ==
  /\ debts > 0
  /\ debts' = debts - 1
  /\ status' = Count(status - 1)
  /\ told' = IF status' = 0 THEN "PACK_NOANSER" ELSE told
  /\ UNCHANGED <<held, tran>>

SqlNext ==
  \/ \E c \in Cursors : Prepare(c) \/ Fetch(c) \/ Close(c)
  \/ \E refs \in SUBSET Cursors : RPC(refs)
  \/ Exec \/ BeginTran \/ EndTran \/ CloseRefused

SqlSpec == SqlInit /\ [][SqlNext]_sqlVars

\* The server commits, rolls back and closes whenever it is asked to, and the
\* caller ends only what it began: then the count cannot lose its way.
Orderly == ~Unbegun /\ ~Refuses("commit") /\ ~Refuses("close")

-----------------------------------------------------------------------------
(* Properties. *)

\* While the server holds a cursor or a transaction of the client, the forwarder
\* keeps the client on this server.
BoundWhileOpen == (held # {} \/ tran = "open") => Bound

\* When all is closed and ended, the last package has freed the forwarder and the
\* count is back at 0.
FreeWhenDone == (held = {} /\ tran = "none" /\ debts = 0) => ~Bound /\ status = 0

\* The forwarder is bound while something is open, and no longer, in whatever
\* order the cursors, the transaction and the refused calls are closed.
BoundExactly == BoundWhileOpen /\ FreeWhenDone
=============================================================================

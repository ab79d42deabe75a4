-------------------------------- MODULE Session --------------------------------
(***************************************************************************)
(* The session loops of the three servers: a thread per connection         *)
(* (scsrv/TPC_srv.c), a process per connection started by inetd            *)
(* (scsrv/PPC_srv.c) and the thread pool (scsrv/tpool.c), from the accept   *)
(* over the key exchange (scsrv/clikey.c, sccli/get_clikey.c) to the end.   *)
(* The pool's scheduling is in TPool, its callbacks are in WaitQueue; here  *)
(* a task of the pool is a slot as a thread or a process is.                *)
(***************************************************************************)
EXTENDS Integers, Sequences
LOCAL INSTANCE Functions

CONSTANTS Clients,      \* connections, each with its own socket
          Slots,        \* threads, processes or tasks that hold a session
          LastService,  \* the last entry of Function[] with a function
          MaxAsks,      \* requests all clients send (a bound of the model)
          NoSocket      \* -1

ASSUME SessionAssumption == LastService \in Nat \ {0, 1} /\ NoSocket \notin Clients

VARIABLES
  kind,      \* "thread", "process" or "pool": which server runs
  server,    \* "accept", "await" (TPC's main thread), "crashed"
  shared,    \* Conn.Socket of TPC's main thread
  socket,    \* slot -> its Conn.Socket
  phase,     \* slot -> "free", "start", "keys", "loop"
  logined,   \* slot -> result of the login function, 0 before
  only,      \* slot -> only_do is set
  zero,      \* slot -> Function[0] of a process is still the login function
  up, dn,    \* client -> requests and answers on the way
  client,    \* client -> "new", "calls", "keys", "idle", "waits", "gone"
  open,      \* client -> "backlog", "open" or "closed": the server's end
  asks,      \* client -> requests sent
  passed,    \* client -> the login function has let it in
  ran,       \* client -> which of "service" and "only_do" ran for it
  given      \* client -> it got an only_do before it had passed

sessionVars == <<kind, server, shared, socket, phase, logined, only, zero, up, dn,
                 client, open, asks, passed, ran, given>>
slotVars == <<socket, phase, logined, only, zero>>
wireVars == <<up, dn, client, open, asks, passed, ran, given>>

Quit == 65535
Terminator == LastService + 1    \* the {0,0} entry that ends Function[]
Numbers == 0 .. Terminator + 1 \cup {Quit}

Message(num, quiet, id) == [num |-> num, quiet |-> quiet, id |-> id]

\* The first bytes on a connection: those of get_clikey, or a stranger's.  An
\* answer is the id of its request; that of the first bytes is the key.
Hello == Message(-1, FALSE, -1)
Strange == Message(-2, FALSE, -1)

SessionInit ==
  /\ kind \in {"thread", "process", "pool"}
  /\ server = "accept" /\ shared = NoSocket
  /\ socket = [s \in Slots |-> NoSocket]
  /\ phase = [s \in Slots |-> "free"]
  /\ logined = [s \in Slots |-> 0]
  /\ only = [s \in Slots |-> FALSE]
  /\ zero = [s \in Slots |-> TRUE]
  /\ up = [c \in Clients |-> <<>>] /\ dn = [c \in Clients |-> <<>>]
  /\ client = [c \in Clients |-> "new"]
  /\ open = [c \in Clients |-> "closed"]
  /\ asks = [c \in Clients |-> 0]
  /\ passed = [c \in Clients |-> FALSE]
  /\ ran = [c \in Clients |-> {}]
  /\ given = [c \in Clients |-> FALSE]

-----------------------------------------------------------------------------
(* The client: Net_Connect, get_clikey, one call at a time, disconnect. *)

\* tcpopen succeeds as soon as the connection is in the listener's backlog;
\* the first 26 bytes are those of get_clikey, or those of a stranger.
Net_Connect(c) ==
  /\ client[c] = "new" /\ server # "crashed"
  /\ \E m \in {Hello, Strange} : up' = [up EXCEPT ![c] = <<m>>]
  /\ client' = [client EXCEPT ![c] = "keys"]
  /\ open' = [open EXCEPT ![c] = "backlog"]
  /\ UNCHANGED <<kind, server, shared, slotVars, dn, asks, passed, ran, given>>

\* A request; a quiet one (ERRNO2 = PACK_NOANSER) is not waited for.
SendRequest(c) ==
  /\ client[c] = "idle" /\ FoldFunction(+, 0, asks) < MaxAsks
  /\ \E n \in Numbers, quiet \in BOOLEAN :
       /\ quiet => n = 1
       /\ up' = [up EXCEPT ![c] = Append(@, Message(n, quiet, asks[c]))]
       /\ client' = [client EXCEPT ![c] = IF n = Quit THEN "gone"
                                          ELSE IF quiet THEN "idle" ELSE "waits"]
  /\ asks' = [asks EXCEPT ![c] = @ + 1]
  /\ UNCHANGED <<kind, server, shared, slotVars, dn, open, passed, ran, given>>

\* The 68 bytes of the key, or the answer to the request the client waits for.
Receive(c) ==
  /\ client[c] \in {"keys", "waits"} /\ dn[c] # <<>>
  /\ dn' = [dn EXCEPT ![c] = Tail(@)]
  /\ client' = [client EXCEPT ![c] = "idle"]
  /\ UNCHANGED <<kind, server, shared, slotVars, up, open, asks, passed, ran, given>>

\* The connection was closed by the server: RecvNet fails.
SeeEnd(c) ==
  /\ client[c] \in {"keys", "waits", "idle"} /\ open[c] = "closed" /\ dn[c] = <<>>
  /\ client' = [client EXCEPT ![c] = "gone"]
  /\ UNCHANGED <<kind, server, shared, slotVars, up, dn, open, asks, passed, ran, given>>

\* The client gives up, in the middle of a call too.
HangUp(c) ==
  /\ client[c] \in {"keys", "waits", "idle"}
  /\ client' = [client EXCEPT ![c] = "gone"]
  /\ UNCHANGED <<kind, server, shared, slotVars, up, dn, open, asks, passed, ran, given>>

-----------------------------------------------------------------------------
(* The listener. *)

\* Mutant: a task taken for the next client keeps the status of the last.
BeginStale(s, c, p) ==
  /\ phase' = [phase EXCEPT ![s] = p]
  /\ socket' = [socket EXCEPT ![s] = c]
  /\ zero' = [zero EXCEPT ![s] = TRUE]
  /\ UNCHANGED <<logined, only>>

\* A slot starts a session.
Begin(s, c, p) ==
  /\ phase' = [phase EXCEPT ![s] = p]
  /\ socket' = [socket EXCEPT ![s] = c]
  /\ logined' = [logined EXCEPT ![s] = 0]
  /\ only' = [only EXCEPT ![s] = FALSE]
  /\ zero' = [zero EXCEPT ![s] = TRUE]

\* inetd forks a process with the connection as descriptor 0; the pool's main
\* thread takes a free task.
Accept(s, c) ==
  /\ kind # "thread" /\ server = "accept"
  /\ open[c] = "backlog" /\ phase[s] = "free"
  /\ Begin(s, c, "keys")
  /\ open' = [open EXCEPT ![c] = "open"]
  /\ UNCHANGED <<kind, server, shared, up, dn, client, asks, passed, ran, given>>

\* Mutant: the main thread goes on to accept without waiting for the copy.
AcceptNoWait(c) ==
  /\ kind = "thread" /\ server = "accept" /\ open[c] = "backlog"
  /\ shared' = c
  /\ \/ \E s \in Slots : /\ phase[s] = "free"
                         /\ phase' = [phase EXCEPT ![s] = "start"]
        /\ open' = [open EXCEPT ![c] = "open"]
     \/ UNCHANGED phase /\ open' = [open EXCEPT ![c] = "closed"]
  /\ UNCHANGED <<kind, server, socket, logined, only, zero, up, dn, client, asks, passed, ran, given>>

\* TPC: accept, Conn.Socket = s, pthread_create; when there are no threads left
\* the connection is closed.
AcceptThread(c) ==
  /\ kind = "thread" /\ server = "accept" /\ open[c] = "backlog"
  /\ shared' = c
  /\ \/ \E s \in Slots : /\ phase[s] = "free"
                         /\ phase' = [phase EXCEPT ![s] = "start"]
        /\ server' = "await"
        /\ open' = [open EXCEPT ![c] = "open"]
     \/ UNCHANGED <<server, phase>> /\ open' = [open EXCEPT ![c] = "closed"]
  /\ UNCHANGED <<kind, socket, logined, only, zero, up, dn, client, asks, passed, ran, given>>

\* while (Conn.Socket != -1) usleep(1000);
Awaited ==
  /\ kind = "thread" /\ server = "await" /\ shared = NoSocket
  /\ server' = "accept"
  /\ UNCHANGED <<kind, shared, slotVars, wireVars>>

\* Mutant: the new thread does not tell the main thread that it has its socket.
CopySilent(s) ==
  /\ phase[s] = "start" /\ server # "crashed"
  /\ Begin(s, shared, "keys")
  /\ UNCHANGED <<kind, server, shared, wireVars>>

\* The new thread copies the Conn of the main thread and tells it so.
CopyConn(s) ==
  /\ phase[s] = "start" /\ server # "crashed"
  /\ Begin(s, shared, "keys")
  /\ shared' = NoSocket
  /\ UNCHANGED <<kind, server, wireVars>>

-----------------------------------------------------------------------------
(* A session. *)

\* The slot is free and its socket closed.
Over(s) ==
  /\ phase' = [phase EXCEPT ![s] = "free"]
  /\ socket' = [socket EXCEPT ![s] = NoSocket]
  /\ open' = [open EXCEPT ![socket[s]] = "closed"]
  /\ UNCHANGED <<logined, only, zero, dn>>

\* mk_clikey answers a good hello within 15 s; anything else ends the session.
\* Then conn_init runs, if there is one, and may install only_do.
ExchangeKeys(s) ==
  /\ phase[s] = "keys" /\ server # "crashed" /\ socket[s] # NoSocket
  /\ \/ /\ up[socket[s]] = <<Hello>>
        /\ phase' = [phase EXCEPT ![s] = "loop"]
        /\ dn' = [dn EXCEPT ![socket[s]] = Append(@, Hello.id)]
        /\ up' = [up EXCEPT ![socket[s]] = <<>>]
        /\ \E o \in BOOLEAN : /\ only' = [only EXCEPT ![s] = o]
                              /\ given' = [given EXCEPT ![socket[s]] = @ \/ o]
        /\ UNCHANGED <<socket, logined, zero, open>>
     \/ up[socket[s]] # <<Hello>> /\ Over(s) /\ UNCHANGED <<up, given>>
  /\ UNCHANGED <<kind, server, shared, client, asks, passed, ran>>

\* What one request does: the answer it gets, the login state and only_do after
\* it, what of the user's ran, and whether the session ends or the process dies.
Turn(answer, in, o) ==
  [answer |-> answer, in |-> in, only |-> o, ran |-> {}, ends |-> FALSE, dies |-> FALSE]
Ending(t) == [t EXCEPT !.ends = TRUE]
Running(t, f) == [t EXCEPT !.ran = {f}]

\* Echo: no answer to a quiet request.
EchoTurn(m, in, o) == Turn(~m.quiet, in, o)

\* The login function, which answers and returns -1 (end), 0 (not logged in) or
\* 1.  As conn_init, a service and only_do itself may, it installs only_do or
\* takes it away.
LoginTurns == {Ending(Turn(TRUE, -1, FALSE))} \cup UNION {{Turn(TRUE, 0, o), Turn(TRUE, 1, o)} : o \in BOOLEAN}

\* The user's function answers; the session goes on unless it returns -1, which
\* a thread does not look at after only_do.
CallTurns(in, f) == {Running(Turn(TRUE, in, o), f) : o \in BOOLEAN}
ServiceTurns(in, f) == CallTurns(in, f) \cup {Ending(t) : t \in CallTurns(in, f)}

\* Function[Terminator].funcaddr is null; what lies behind it is not a function.
Wild(in, o) == [Turn(FALSE, in, o) EXCEPT !.dies = TRUE]

ThreadTurns(m, in, o) ==
  CASE m.num = 1 -> {EchoTurn(m, in, o)}
    [] m.num = Quit -> {Ending(Turn(FALSE, in, o))}
    [] m.num = 0 -> IF in = 0 THEN LoginTurns ELSE {Turn(TRUE, in, o)}
    [] m.num \notin {0, 1, Quit} /\ o -> CallTurns(in, "only_do")
    [] m.num \notin {0, 1, Quit} /\ ~o ->
         IF in = 0 \/ m.num > Terminator THEN {Ending(Turn(FALSE, in, o))}
         ELSE IF m.num = Terminator THEN {Wild(in, o)}
         ELSE ServiceTurns(in, "service")

\* The login function called as if it were a service.
Again(in) == UNION {{Turn(TRUE, in, o), Ending(Turn(TRUE, in, o))} : o \in BOOLEAN}

\* Function[1] of a process is its Echo.  Before the login every other number is
\* answered "Not Login!"; after it no number is too large, and 0 is the login again
\* when only_do has kept it in its place.
ProcessTurns(m, in, o, isLogin) ==
  CASE m.num = 1 -> {EchoTurn(m, in, o)}
    [] m.num = Quit -> {Ending(Turn(FALSE, in, o))}
    [] m.num \notin {1, Quit} /\ in = 0 ->
         IF m.num = 0 /\ isLogin THEN LoginTurns ELSE {Turn(TRUE, 0, o)}
    [] m.num \notin {1, Quit} /\ in # 0 /\ o -> ServiceTurns(in, "only_do")
    [] m.num \notin {1, Quit} /\ in # 0 /\ ~o ->
         IF m.num = 0 THEN IF isLogin THEN Again(in) ELSE {Turn(TRUE, in, o)}
         ELSE IF m.num >= Terminator THEN {Wild(in, o)}
         ELSE ServiceTurns(in, "service")

PoolTurns(m, in, o) ==
  CASE m.num = 1 -> {EchoTurn(m, in, o)}
    [] m.num = Quit -> {Ending(Turn(FALSE, in, o))}
    [] m.num \notin {1, Quit} /\ in = 0 ->
         IF m.num = 0 THEN LoginTurns ELSE {Ending(Turn(FALSE, in, o))}
    [] m.num \notin {1, Quit} /\ in # 0 /\ o -> ServiceTurns(in, "only_do")
    [] m.num \notin {1, Quit} /\ in # 0 /\ ~o ->
         IF m.num = 0 THEN {Turn(TRUE, in, o)}
         ELSE IF m.num > LastService THEN {Ending(Turn(FALSE, in, o))}
         ELSE ServiceTurns(in, "service")

Turns(s, m) ==
  CASE kind = "thread" -> ThreadTurns(m, logined[s], only[s])
    [] kind = "process" -> ProcessTurns(m, logined[s], only[s], zero[s])
    [] kind = "pool" -> PoolTurns(m, logined[s], only[s])

\* One round of the loop: RecvPack and the request's turn.
Serve(s) ==
  LET c == socket[s]
      m == Head(up[c])
  IN /\ phase[s] = "loop" /\ server # "crashed" /\ up[c] # <<>>
     /\ up' = [up EXCEPT ![c] = Tail(@)]
     /\ \E t \in Turns(s, m) :
          /\ ran' = [ran EXCEPT ![c] = @ \cup t.ran]
          /\ given' = [given EXCEPT ![c] = @ \/ (t.only /\ t.in # 1)]
          /\ logined' = [logined EXCEPT ![s] = t.in]
          /\ only' = [only EXCEPT ![s] = t.only]
          /\ zero' = [zero EXCEPT ![s] =
               @ /\ ~(kind = "process" /\ m.num = 0 /\ logined[s] = 0 /\ ~t.only)]
          /\ passed' = [passed EXCEPT ![c] = @ \/ (logined[s] = 0 /\ t.in = 1)]
          /\ server' = IF t.dies /\ kind = "thread" THEN "crashed" ELSE server
          \* SO_LINGER of 0: close() drops an answer that has not left yet.
          /\ \E lost \in BOOLEAN :
               /\ lost => t.ends /\ kind # "process"
               /\ dn' = [dn EXCEPT ![c] =
                    IF t.answer /\ ~lost THEN Append(@, m.id) ELSE @]
          /\ phase' = [phase EXCEPT ![s] = IF t.ends \/ t.dies THEN "free" ELSE @]
          /\ socket' = [socket EXCEPT ![s] = IF t.ends \/ t.dies THEN NoSocket ELSE @]
          /\ open' = [open EXCEPT ![c] = IF t.ends \/ t.dies THEN "closed" ELSE @]
     /\ UNCHANGED <<kind, shared, client, asks>>

\* Mutant: the end of the connection is noticed only after the login.
LoseLoggedIn(s) ==
  /\ phase[s] = "loop" /\ server # "crashed" /\ logined[s] # 0
  /\ client[socket[s]] = "gone" /\ up[socket[s]] = <<>>
  /\ Over(s)
  /\ UNCHANGED <<kind, server, shared, up, client, asks, passed, ran, given>>

\* RecvPack fails: the client has closed its end.
LoseClient(s) ==
  /\ phase[s] = "loop" /\ server # "crashed"
  /\ client[socket[s]] = "gone" /\ up[socket[s]] = <<>>
  /\ Over(s)
  /\ UNCHANGED <<kind, server, shared, up, client, asks, passed, ran, given>>

\* The pool closes a task that did not log in within 60 s, or stayed silent
\* longer than its conn.timeout.
ExpireTask(s) ==
  /\ kind = "pool" /\ phase[s] = "loop" /\ up[socket[s]] = <<>>
  /\ Over(s)
  /\ UNCHANGED <<kind, server, shared, up, client, asks, passed, ran, given>>

\* A thread that calls what is no function takes the process down, and every
\* connection with it.
Collapse ==
  /\ server = "crashed" /\ \E c \in Clients : open[c] # "closed"
  /\ open' = [c \in Clients |-> "closed"]
  /\ socket' = [s \in Slots |-> NoSocket]
  /\ phase' = [s \in Slots |-> "free"]
  /\ UNCHANGED <<kind, server, shared, logined, only, zero, up, dn, client, asks, passed, ran, given>>

SessionNext ==
  \/ \E c \in Clients :
       Net_Connect(c) \/ SendRequest(c) \/ Receive(c) \/ SeeEnd(c) \/ HangUp(c) \/ AcceptThread(c)
  \/ \E s \in Slots, c \in Clients : Accept(s, c)
  \/ Awaited \/ Collapse
  \/ \E s \in Slots :
       CopyConn(s) \/ ExchangeKeys(s) \/ Serve(s) \/ LoseClient(s) \/ ExpireTask(s)

\* Every thread or process runs, the main thread accepts, and a client reads what
\* has come.  Nobody is made to ask, to leave or to be expired.
SessionFairness ==
  /\ \A c \in Clients :
       /\ WF_sessionVars(Receive(c)) /\ WF_sessionVars(SeeEnd(c))
       /\ WF_sessionVars(AcceptThread(c) \/ \E s \in Slots : Accept(s, c))
  /\ WF_sessionVars(Awaited) /\ WF_sessionVars(Collapse)
  /\ \A s \in Slots :
       WF_sessionVars(CopyConn(s) \/ ExchangeKeys(s) \/ Serve(s) \/ LoseClient(s))

SessionSpec == SessionInit /\ [][SessionNext]_sessionVars /\ SessionFairness

-----------------------------------------------------------------------------
(* Properties. *)

SessionTypeOK ==
  /\ kind \in {"thread", "process", "pool"}
  /\ server \in {"accept", "await", "crashed"}
  /\ shared \in Clients \cup {NoSocket}
  /\ socket \in [Slots -> Clients \cup {NoSocket}]
  /\ phase \in [Slots -> {"free", "start", "keys", "loop"}]
  /\ logined \in [Slots -> -1 .. 1]
  /\ only \in [Slots -> BOOLEAN] /\ zero \in [Slots -> BOOLEAN]
  /\ client \in [Clients -> {"new", "keys", "idle", "waits", "gone"}]
  /\ open \in [Clients -> {"backlog", "open", "closed"}]
  /\ asks \in [Clients -> Nat]
  /\ passed \in [Clients -> BOOLEAN] /\ given \in [Clients -> BOOLEAN]
  /\ ran \in [Clients -> SUBSET {"service", "only_do"}]

\* An accepted connection has one session: the socket the main thread hands over
\* in Conn reaches one thread, and is neither read twice nor overwritten by the
\* next accept.
OneSession ==
  \A c \in Clients :
    /\ \A s, t \in Slots : socket[s] = c /\ socket[t] = c => s = t
    /\ open[c] = "open" /\ server # "crashed" =>
         \/ \E s \in Slots : socket[s] = c
         \/ shared = c /\ \E s \in Slots : phase[s] = "start"

\* No service of the user runs for a client the login function has not let in,
\* whatever the slot did for the client before it.  only_do runs before the login
\* in the server of threads alone, which asks for it first, and only for a client
\* whose own conn_init or refused login has installed it.
ServedAfterLogin ==
  \A c \in Clients :
    /\ "service" \in ran[c] => passed[c]
    /\ "only_do" \in ran[c] => passed[c] \/ (kind = "thread" /\ given[c])

\* An answer on the way is the answer to the request the client waits for; the
\* first one is the key.  A client that waits for none finds none.
AnswersOwn ==
  \A c \in Clients :
    dn[c] # <<>> /\ client[c] # "gone" =>
      /\ dn[c] = <<asks[c] - 1>>
      /\ client[c] = IF asks[c] = 0 THEN "keys" ELSE "waits"

\* Sessions do not mix: one socket, one session, its own answers.
SessionsApart == SessionTypeOK /\ OneSession /\ AnswersOwn

\* What is still to come for a client: a key, an answer, or the end of its session.
Owed(c) == client[c] \in {"keys", "waits"} \/ (client[c] = "gone" /\ open[c] # "closed")

\* Whoever waits for a key or an answer gets it or sees the connection end, and a
\* client that has gone leaves no session behind.
AnsweredOrEnded == \A c \in Clients : Owed(c) ~> ~Owed(c)
=============================================================================

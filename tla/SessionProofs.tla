----------------------------- MODULE SessionProofs -----------------------------
(***************************************************************************)
(* Sessions do not mix, and nobody is served before the login but by an    *)
(* only_do of his own, for any number of clients, of slots and of services. *)
(***************************************************************************)
EXTENDS Session, TLAPS

-----------------------------------------------------------------------------
(* The invariant. *)

Messages == [num : Int, quiet : BOOLEAN, id : Int]
Channels == up \in [Clients -> Seq(Messages)] /\ dn \in [Clients -> Seq(Int)]

\* A request that is not answered is for Echo.
Unheard(m) == m.quiet /\ m.num = 1
AllQuiet(q) == \A i \in 1 .. Len(q) : Unheard(q[i])
\* The last request is the one the client waits for.
EndsWith(q, n) ==
  /\ q # <<>> /\ q[Len(q)].id = n
  /\ \A i \in 1 .. Len(q) - 1 : Unheard(q[i])

\* The first bytes are on their way; the key has been sent.
First(c) == client[c] = "keys" /\ asks[c] = 0 /\ up[c] \in {<<Hello>>, <<Strange>>} /\ dn[c] = <<>>
Keyed(c) == client[c] = "keys" /\ asks[c] = 0 /\ up[c] = <<>> /\ dn[c] = <<-1>>

\* What a client knows and what is on its connection.
Talk(c) ==
  \/ client[c] = "new" /\ asks[c] = 0 /\ up[c] = <<>> /\ dn[c] = <<>> /\ open[c] = "closed"
  \/ First(c) \/ Keyed(c)
  \/ client[c] = "idle" /\ dn[c] = <<>> /\ AllQuiet(up[c])
  \/ /\ client[c] = "waits" /\ asks[c] > 0
     /\ \/ up[c] = <<>> /\ dn[c] \in {<<>>, <<asks[c] - 1>>}
        \/ dn[c] = <<>> /\ EndsWith(up[c], asks[c] - 1)
  \/ client[c] = "gone"

\* A connection whose key exchange is still to come.
Unkeyed(c) ==
  \/ open[c] = "backlog"
  \/ shared = c /\ \E s \in Slots : phase[s] = "start"
  \/ \E s \in Slots : phase[s] = "keys" /\ socket[s] = c

Clientele ==
  \A c \in Clients : Talk(c) /\ (Unkeyed(c) => First(c) \/ client[c] = "gone")

\* A session has an open socket; it knows what became of the login.
Slot(s) ==
  /\ phase[s] \in {"keys", "loop"} <=> socket[s] # NoSocket
  /\ socket[s] # NoSocket => open[socket[s]] = "open"
  /\ phase[s] = "keys" => logined[s] = 0 /\ ~only[s]
  /\ phase[s] = "loop" =>
       /\ logined[s] \in {0, 1} /\ (only[s] => logined[s] = 1 \/ given[socket[s]])
       /\ logined[s] = 1 => passed[socket[s]]
       /\ ~First(socket[s])

\* The main thread waits for the one thread that has still to copy its socket.
HandOver ==
  /\ server # "accept" => kind = "thread"
  /\ \A s \in Slots : phase[s] = "start" =>
       /\ server # "accept" /\ shared \in Clients /\ open[shared] = "open"
       /\ \A t \in Slots : socket[t] # shared /\ (phase[t] = "start" => t = s)

SessionInv ==
  /\ SessionTypeOK /\ Channels /\ Clientele
  /\ \A s \in Slots : Slot(s)
  /\ HandOver /\ OneSession /\ ServedAfterLogin

LEMMA OwnAnswers ==
  ASSUME SessionInv PROVE AnswersOwn
<1> SUFFICES ASSUME NEW c \in Clients, dn[c] # <<>>, client[c] # "gone"
             PROVE  dn[c] = <<asks[c] - 1>> /\ client[c] = IF asks[c] = 0 THEN "keys" ELSE "waits"
  BY DEF AnswersOwn
<1>1. Talk(c) /\ asks[c] \in Nat
  BY DEF SessionInv, Clientele, SessionTypeOK
<1> QED BY <1>1 DEF Talk, First, Keyed
-----------------------------------------------------------------------------
(* Requests on their way. *)

LEMMA TailOf ==
  ASSUME NEW q \in Seq(Messages), q # <<>>
  PROVE  /\ Head(q) \in Messages /\ Tail(q) \in Seq(Messages)
         /\ AllQuiet(q) => Unheard(Head(q)) /\ AllQuiet(Tail(q))
         /\ \A n : EndsWith(q, n) => \/ Tail(q) = <<>> /\ Head(q).id = n
                                     \/ Unheard(Head(q)) /\ EndsWith(Tail(q), n)
<1>1. /\ Len(q) \in Nat \ {0} /\ Head(q) = q[1] /\ Tail(q) \in Seq(Messages)
      /\ Len(Tail(q)) = Len(q) - 1
      /\ \A i \in 1 .. Len(q) - 1 : Tail(q)[i] = q[i + 1]
      /\ Head(q) \in Messages
  OBVIOUS
<1>2. Tail(q) = <<>> <=> Len(q) = 1
  <2>1. \A r \in Seq(Messages) : r = <<>> <=> Len(r) = 0
    OBVIOUS
  <2>2. Tail(q) = <<>> <=> Len(Tail(q)) = 0
    BY <1>1, <2>1
  <2> QED BY <1>1, <2>2
<1> HIDE DEF Messages
<1>3. AllQuiet(q) => Unheard(Head(q)) /\ AllQuiet(Tail(q))
  BY <1>1 DEF AllQuiet
<1>4. ASSUME NEW n, EndsWith(q, n), Len(q) # 1
      PROVE  Unheard(Head(q)) /\ EndsWith(Tail(q), n)
  <2>1. Unheard(q[1]) /\ q[Len(q)].id = n /\ \A i \in 1 .. Len(q) - 1 : Unheard(q[i])
    BY <1>1, <1>4 DEF EndsWith
  <2>2. Tail(q)[Len(Tail(q))].id = n
    BY <1>1, <1>4, <2>1
  <2>3. \A i \in 1 .. Len(Tail(q)) - 1 : Unheard(Tail(q)[i])
    BY <1>1, <1>4, <2>1
  <2> QED BY <1>1, <1>2, <1>4, <2>1, <2>2, <2>3 DEF EndsWith
<1>5. ASSUME NEW n, EndsWith(q, n), Len(q) = 1
      PROVE  Tail(q) = <<>> /\ Head(q).id = n
  BY <1>1, <1>2, <1>5 DEF EndsWith
<1> QED BY <1>1, <1>3, <1>4, <1>5

LEMMA AppendOf ==
  ASSUME NEW q \in Seq(Messages), NEW m \in Messages, AllQuiet(q)
  PROVE  /\ Append(q, m) \in Seq(Messages)
         /\ Unheard(m) => AllQuiet(Append(q, m))
         /\ EndsWith(Append(q, m), m.id)
<1>1. /\ Append(q, m) \in Seq(Messages) /\ Len(q) \in Nat
      /\ Len(Append(q, m)) = Len(q) + 1 /\ Append(q, m) # <<>>
      /\ \A i \in 1 .. Len(q) : Append(q, m)[i] = q[i]
      /\ Append(q, m)[Len(q) + 1] = m
  OBVIOUS
<1> QED BY <1>1 DEF AllQuiet, EndsWith

-----------------------------------------------------------------------------
(* What a request does. *)

Results == [answer : BOOLEAN, in : -1 .. 1, only : BOOLEAN, ran : SUBSET {"service", "only_do"},
            ends : BOOLEAN, dies : BOOLEAN]

\* No service runs but for a client that has logged in, only_do before the login
\* in a thread alone and only when there is one, a login is never taken back, and
\* Echo goes on without an answer when none is wanted.
Proper(t, m, in, o) ==
  /\ t \in Results
  /\ "service" \in t.ran => in = 1
  /\ "only_do" \in t.ran => in = 1 \/ (kind = "thread" /\ o)
  /\ in = 1 => t.in = 1
  /\ ~t.ends => t.in \in {0, 1}
  /\ m.num = 1 => (t.answer <=> ~m.quiet) /\ ~t.ends /\ ~t.dies

LEMMA EndingOf ==
  ASSUME NEW t \in Results
  PROVE  /\ Ending(t) \in Results
         /\ Ending(t).answer = t.answer /\ Ending(t).in = t.in /\ Ending(t).only = t.only
         /\ Ending(t).ran = t.ran /\ Ending(t).dies = t.dies
         /\ Ending(t).ends
BY DEF Ending, Results

LEMMA RunningOf ==
  ASSUME NEW t \in Results, NEW f \in {"service", "only_do"}
  PROVE  /\ Running(t, f) \in Results
         /\ Running(t, f).answer = t.answer /\ Running(t, f).in = t.in /\ Running(t, f).only = t.only
         /\ Running(t, f).ran = {f} /\ Running(t, f).ends = t.ends /\ Running(t, f).dies = t.dies
<1>1. {f} \in SUBSET {"service", "only_do"}
  OBVIOUS
<1> QED BY <1>1 DEF Running, Results

LEMMA WildOf ==
  ASSUME NEW i \in -1 .. 1, NEW o \in BOOLEAN
  PROVE  Wild(i, o) \in Results /\ Wild(i, o).in = i /\ Wild(i, o).only = o /\ Wild(i, o).ran = {}
BY DEF Wild, Turn, Results

LEMMA TurnsProper ==
  ASSUME SessionTypeOK, NEW s \in Slots, NEW m \in Messages, NEW t \in Turns(s, m),
         logined[s] \in {0, 1}
  PROVE  Proper(t, m, logined[s], only[s])
<1> DEFINE in == logined[s]
           o == only[s]
           n == m.num
           Fits(u) == /\ u \in Results /\ (in = 1 => u.in = 1) /\ (~u.ends => u.in \in {0, 1})
                      /\ "service" \in u.ran => in = 1
                      /\ "only_do" \in u.ran => in = 1 \/ (kind = "thread" /\ o)
<1>1. o \in BOOLEAN /\ in \in {0, 1} /\ m.quiet \in BOOLEAN /\ n \in Int
  BY DEF SessionTypeOK, Messages
<1>2. in \in -1 .. 1 /\ (~m.quiet) \in BOOLEAN
  <2>1. in \in -1 .. 1
    BY <1>1
  <2> QED BY <2>1
<1> HIDE DEF in, o, n
<1>b. \A u \in Results :
        /\ Ending(u) \in Results /\ Ending(u).in = u.in /\ Ending(u).ran = u.ran /\ Ending(u).ends
        /\ \A f \in {"service", "only_do"} :
             /\ Running(u, f) \in Results /\ Running(u, f).in = u.in /\ Running(u, f).ran = {f}
             /\ (Running(u, f).ends <=> u.ends)
  BY EndingOf, RunningOf
<1>3. \A p \in BOOLEAN : Fits(Turn(TRUE, in, p)) /\ Fits(Turn(FALSE, in, p))
  BY <1>1, <1>2 DEF Turn, Results
<1>c. \A p \in BOOLEAN : Fits(Ending(Turn(FALSE, in, p))) /\ Fits(Ending(Turn(TRUE, in, p)))
  BY <1>b, <1>3
<1>4. Fits(EchoTurn(m, in, o)) /\ (EchoTurn(m, in, o).answer <=> ~m.quiet)
      /\ ~EchoTurn(m, in, o).ends /\ ~EchoTurn(m, in, o).dies
  BY <1>1, <1>2 DEF EchoTurn, Turn, Results
<1>5. in = 0 => \A u \in LoginTurns : Fits(u)
  <2> DEFINE no == Turn(TRUE, -1, FALSE)
  <2>1. no \in Results /\ no.ran = {}
    BY DEF Turn, Results
  <2> HIDE DEF no
  <2>2. in = 0 => Fits(Ending(no))
    BY <1>b, <2>1
  <2>3. in = 0 => \A r \in {0, 1}, p \in BOOLEAN : Fits(Turn(TRUE, r, p))
    BY DEF Turn, Results
  <2> HIDE DEF Fits
  <2>4. \A u \in LoginTurns : u = Ending(no) \/ \E p \in BOOLEAN : u \in {Turn(TRUE, 0, p), Turn(TRUE, 1, p)}
    BY DEF LoginTurns, no
  <2> QED BY <2>2, <2>3, <2>4
<1>6. /\ in = 1 => \A f \in {"service", "only_do"} : \A u \in ServiceTurns(in, f) : Fits(u)
      /\ kind = "thread" /\ o => \A u \in CallTurns(in, "only_do") : Fits(u)
  <2> DEFINE Free(f) == in = 1 \/ (f = "only_do" /\ kind = "thread" /\ o)
  <2>1. ASSUME NEW f \in {"service", "only_do"}, Free(f), NEW p \in BOOLEAN
        PROVE  Fits(Running(Turn(TRUE, in, p), f)) /\ Fits(Ending(Running(Turn(TRUE, in, p), f)))
    <3> DEFINE u == Turn(TRUE, in, p)
    <3>1. u \in Results /\ (in = 1 => u.in = 1) /\ (~u.ends => u.in \in {0, 1})
      BY <1>3, <2>1
    <3> HIDE DEF u
    <3>2. Fits(Running(u, f)) /\ Running(u, f) \in Results
      BY <1>b, <2>1, <3>1
    <3>3. Fits(Ending(Running(u, f)))
      BY <1>b, <3>2
    <3> QED BY <3>2, <3>3 DEF u
  <2> HIDE DEF Fits
  <2>2. \A f \in {"service", "only_do"} : Free(f) => \A u \in ServiceTurns(in, f) : Fits(u)
    BY <2>1 DEF ServiceTurns, CallTurns
  <2> QED BY <2>2 DEF ServiceTurns
<1>a. in = 1 => \A u \in Again(in) : Fits(u)
  <2> HIDE DEF Fits
  <2> QED BY <1>3, <1>c DEF Again
<1>7. Fits(Wild(in, o))
  BY <1>1, <1>2, WildOf
<1>8. Fits(t) /\ (n = 1 => t = EchoTurn(m, in, o))
  <2> HIDE DEF Fits
  <2>1. CASE kind = "thread"
    <3>1. t \in ThreadTurns(m, in, o)
      BY <2>1 DEF Turns, in, o
    <3>2. n = 1 => t = EchoTurn(m, in, o)
      BY <3>1 DEF ThreadTurns, Quit, n
    <3>3. n = Quit => t = Ending(Turn(FALSE, in, o))
      BY <3>1 DEF ThreadTurns, Quit, n
    <3>4. n \notin {1, Quit} => Fits(t)
      <4>1. n \notin {0, 1, Quit} /\ o => t \in CallTurns(in, "only_do")
        BY <3>1 DEF ThreadTurns, n
      <4>2. n \notin {1, Quit} /\ (n = 0 \/ ~o) => Fits(t)
        BY <1>1, <1>3, <1>c, <1>5, <1>6, <1>7, <3>1 DEF ThreadTurns, n
      <4> QED BY <1>6, <2>1, <4>1, <4>2
    <3> QED BY <1>1, <1>3, <1>c, <1>4, <3>2, <3>3, <3>4
  <2>2. CASE kind = "process"
    <3>1. t \in ProcessTurns(m, in, o, zero[s])
      BY <2>2 DEF Turns, in, o
    <3>2. n = 1 => t = EchoTurn(m, in, o)
      BY <3>1 DEF ProcessTurns, Quit, n
    <3>3. n = Quit => t = Ending(Turn(FALSE, in, o))
      BY <3>1 DEF ProcessTurns, Quit, n
    <3>4. n \notin {1, Quit} => Fits(t)
      BY <1>1, <1>3, <1>c, <1>5, <1>6, <1>7, <1>a, <3>1 DEF ProcessTurns, n
    <3> QED BY <1>1, <1>3, <1>c, <1>4, <3>2, <3>3, <3>4
  <2>3. CASE kind = "pool"
    <3>1. t \in PoolTurns(m, in, o)
      BY <2>3 DEF Turns, in, o
    <3>2. n = 1 => t = EchoTurn(m, in, o)
      BY <3>1 DEF PoolTurns, Quit, n
    <3>3. n = Quit => t = Ending(Turn(FALSE, in, o))
      BY <3>1 DEF PoolTurns, Quit, n
    <3>4. n \notin {1, Quit} => Fits(t)
      BY <1>1, <1>3, <1>c, <1>5, <1>6, <1>7, <3>1 DEF PoolTurns, n
    <3> QED BY <1>1, <1>3, <1>c, <1>4, <3>2, <3>3, <3>4
  <2> QED BY <2>1, <2>2, <2>3 DEF SessionTypeOK
<1> QED BY <1>1, <1>4, <1>8 DEF Proper, in, o, n
-----------------------------------------------------------------------------
(* The steps. *)

\* A client's step: its session goes on, or it has none yet.
ClientMove(c) ==
  /\ UNCHANGED <<kind, server, shared, slotVars, passed, ran, given>>
  /\ \A d \in Clients : d # c =>
       /\ up'[d] = up[d] /\ dn'[d] = dn[d] /\ client'[d] = client[d]
       /\ open'[d] = open[d] /\ asks'[d] = asks[d]
  /\ Talk(c)'
  /\ \/ open'[c] = open[c] /\ (First(c)' => First(c))
        /\ (Unkeyed(c) => First(c)' \/ client'[c] = "gone")
     \/ open[c] = "closed" /\ open'[c] = "backlog" /\ First(c)'

LEMMA ClientMoves ==
  ASSUME SessionInv, SessionTypeOK', Channels', NEW c \in Clients, ClientMove(c)
  PROVE  SessionInv'
<1> USE DEF SessionInv, ClientMove, slotVars
<1>1. Clientele'
  <2> SUFFICES ASSUME NEW d \in Clients
               PROVE  Talk(d)' /\ (Unkeyed(d)' => First(d)' \/ client'[d] = "gone")
    BY DEF Clientele
  <2>1. CASE d # c
    BY <2>1 DEF Clientele, Talk, First, Keyed, Unkeyed
  <2>2. CASE d = c
    <3>0. /\ shared' = shared /\ phase' = phase /\ socket' = socket
          /\ open'[c] = open[c] \/ (open[c] = "closed" /\ open'[c] = "backlog")
      OBVIOUS
    <3>1. Unkeyed(c)' => Unkeyed(c) \/ (open'[c] = "backlog" /\ open[c] = "closed")
      <4> HIDE DEF SessionInv, ClientMove, slotVars
      <4> QED BY <3>0 DEF Unkeyed
    <3> QED BY <2>2, <3>1
  <2> QED BY <2>1, <2>2
<1>2. \A s \in Slots : Slot(s)'
  <2> SUFFICES ASSUME NEW s \in Slots PROVE Slot(s)'
    OBVIOUS
  <2>1. socket[s] # NoSocket => open'[socket[s]] = "open" /\ (phase[s] = "loop" => ~First(socket[s])')
    <3>1. socket[s] # NoSocket => socket[s] \in Clients /\ open[socket[s]] = "open"
                                  /\ (phase[s] = "loop" => ~First(socket[s]))
      BY DEF Slot, SessionTypeOK
    <3>2. CASE socket[s] = c
      BY <3>1, <3>2
    <3>3. CASE socket[s] # c
      BY <3>1, <3>3 DEF First
    <3> QED BY <3>2, <3>3
  <2> QED BY <2>1 DEF Slot, First
<1>3. HandOver'
  BY DEF HandOver, SessionTypeOK
<1>4. OneSession'
  BY DEF OneSession
<1>5. ServedAfterLogin'
  BY DEF ServedAfterLogin
<1> QED BY <1>1, <1>2, <1>3, <1>4, <1>5

\* What ServedAfterLogin says of one client.
Served(c) ==
  /\ "service" \in ran[c] => passed[c]
  /\ "only_do" \in ran[c] => passed[c] \/ (kind = "thread" /\ given[c])

\* A session's step: it goes on in its loop, or its slot is free and its socket
\* closed.
SlotMove(s, c) ==
  /\ socket[s] = c /\ c # NoSocket
  /\ UNCHANGED <<kind, shared, client, asks>>
  /\ server' = server \/ (server' = "crashed" /\ kind = "thread")
  /\ \A t \in Slots : t # s =>
       /\ socket'[t] = socket[t] /\ phase'[t] = phase[t]
       /\ logined'[t] = logined[t] /\ only'[t] = only[t]
  /\ \A d \in Clients : d # c =>
       /\ up'[d] = up[d] /\ dn'[d] = dn[d] /\ open'[d] = open[d]
       /\ passed'[d] = passed[d] /\ ran'[d] = ran[d] /\ given'[d] = given[d]
  /\ Talk(c)' /\ Served(c)'
  /\ \/ phase'[s] = "free" /\ socket'[s] = NoSocket /\ open'[c] = "closed"
     \/ /\ phase'[s] = "loop" /\ socket'[s] = c /\ open'[c] = open[c]
        /\ logined'[s] \in {0, 1} /\ (only'[s] => logined'[s] = 1 \/ given'[c])
        /\ logined'[s] = 1 => passed'[c]
        /\ ~First(c)'

LEMMA SlotMoves ==
  ASSUME SessionInv, SessionTypeOK', Channels', NEW s \in Slots, NEW c \in Clients, SlotMove(s, c)
  PROVE  SessionInv'
<1> USE DEF SessionInv, SlotMove
<1>1. /\ open[c] = "open" /\ phase[s] \in {"keys", "loop"}
      /\ \A t \in Slots : socket[t] = c => t = s
      /\ \A t \in Slots : phase[t] = "start" => shared # c /\ t # s
  BY DEF Slot, OneSession, HandOver
<1>2. Clientele'
  <2> SUFFICES ASSUME NEW d \in Clients
               PROVE  Talk(d)' /\ (Unkeyed(d)' => First(d)' \/ client'[d] = "gone")
    BY DEF Clientele
  <2>1. CASE d # c
    <3>1. Unkeyed(d)' => Unkeyed(d)
      BY <1>1, <2>1 DEF Unkeyed, SessionTypeOK
    <3>2. Talk(d) /\ (Unkeyed(d) => First(d) \/ client[d] = "gone")
      BY DEF Clientele
    <3>3. (First(d)' <=> First(d)) /\ (Keyed(d)' <=> Keyed(d))
      BY <2>1 DEF First, Keyed
    <3>4. Talk(d)'
      BY <2>1, <3>2, <3>3 DEF Talk
    <3> QED BY <3>1, <3>2, <3>3, <3>4
  <2>2. CASE d = c
    <3>1. ~Unkeyed(c)'
      BY <1>1 DEF Unkeyed
    <3> QED BY <2>2, <3>1
  <2> QED BY <2>1, <2>2
<1>3. \A t \in Slots : Slot(t)'
  <2> SUFFICES ASSUME NEW t \in Slots PROVE Slot(t)'
    OBVIOUS
  <2>1. CASE t = s
    BY <1>1, <2>1, SessionAssumption DEF Slot
  <2>2. CASE t # s
    <3>1. Slot(t) /\ socket[t] # c
      BY <1>1, <2>2
    <3>2. socket[t] # NoSocket => socket[t] \in Clients
      BY DEF SessionTypeOK
    <3>3. socket[t] # NoSocket =>
            /\ open'[socket[t]] = open[socket[t]] /\ passed'[socket[t]] = passed[socket[t]]
            /\ given'[socket[t]] = given[socket[t]]
            /\ (First(socket[t])' <=> First(socket[t]))
      BY <3>1, <3>2 DEF First
    <3>4. socket'[t] = socket[t] /\ phase'[t] = phase[t] /\ logined'[t] = logined[t] /\ only'[t] = only[t]
      BY <2>2
    <3> QED BY <3>1, <3>3, <3>4 DEF Slot, First
  <2> QED BY <2>1, <2>2
<1>4. HandOver'
  <2>1. server' # "accept" => kind' = "thread"
    BY DEF HandOver
  <2>2. ASSUME NEW t \in Slots, phase'[t] = "start"
        PROVE  /\ server' # "accept" /\ shared' \in Clients /\ open'[shared'] = "open"
               /\ \A u \in Slots : socket'[u] # shared' /\ (phase'[u] = "start" => u = t)
    <3>1. t # s /\ phase[t] = "start" /\ shared # c
      BY <1>1, <2>2
    <3>2. /\ server # "accept" /\ shared \in Clients /\ open[shared] = "open"
          /\ \A u \in Slots : socket[u] # shared /\ (phase[u] = "start" => u = t)
      BY <3>1 DEF HandOver
    <3>3. \A u \in Slots : socket'[u] \in {socket[u], NoSocket} /\ (phase'[u] = "start" => phase[u] = "start")
      OBVIOUS
    <3> QED BY <3>1, <3>2, <3>3, SessionAssumption
  <2> QED BY <2>1, <2>2 DEF HandOver
<1>5. OneSession'
  <2> SUFFICES ASSUME NEW d \in Clients
               PROVE  /\ \A t, u \in Slots : socket'[t] = d /\ socket'[u] = d => t = u
                      /\ open'[d] = "open" /\ server' # "crashed" =>
                           \/ \E t \in Slots : socket'[t] = d
                           \/ shared' = d /\ \E t \in Slots : phase'[t] = "start"
    BY DEF OneSession
  <2>1. \A t \in Slots : socket'[t] \in {socket[t], NoSocket}
    OBVIOUS
  <2>2. \A t, u \in Slots : socket'[t] = d /\ socket'[u] = d => t = u
    BY <2>1, SessionAssumption DEF OneSession
  <2>3. ASSUME open'[d] = "open", server' # "crashed"
        PROVE  \/ \E t \in Slots : socket'[t] = d
               \/ shared' = d /\ \E t \in Slots : phase'[t] = "start"
    <3>1. CASE d = c
      BY <2>3, <3>1
    <3>2. CASE d # c
      <4>1. open[d] = "open" /\ server # "crashed"
        BY <2>3, <3>2
      <4>2. CASE \E t \in Slots : socket[t] = d
        BY <3>2, <4>2
      <4>3. CASE shared = d /\ \E t \in Slots : phase[t] = "start"
        BY <1>1, <4>3
      <4> QED BY <4>1, <4>2, <4>3 DEF OneSession
    <3> QED BY <3>1, <3>2
  <2> QED BY <2>2, <2>3
<1>6. ServedAfterLogin'
  BY DEF ServedAfterLogin, Served
<1> QED BY <1>2, <1>3, <1>4, <1>5, <1>6

LEMMA SessionStart == SessionInit => SessionInv
<1> SUFFICES ASSUME SessionInit PROVE SessionInv
  OBVIOUS
<1> USE SessionAssumption DEF SessionInit
<1>1. SessionTypeOK
  BY DEF SessionTypeOK
<1>2. Channels
  BY DEF Channels
<1>3. Clientele
  BY DEF Clientele, Talk, Unkeyed
<1>4. \A s \in Slots : Slot(s)
  BY DEF Slot
<1>5. HandOver
  BY DEF HandOver
<1>6. OneSession
  BY DEF OneSession
<1>7. ServedAfterLogin
  BY DEF ServedAfterLogin
<1> QED BY <1>1, <1>2, <1>3, <1>4, <1>5, <1>6, <1>7 DEF SessionInv

\* Net_Connect, SendRequest, Receive, SeeEnd and HangUp.
LEMMA ClientSteps ==
  ASSUME SessionInv, NEW c \in Clients,
         Net_Connect(c) \/ SendRequest(c) \/ Receive(c) \/ SeeEnd(c) \/ HangUp(c)
  PROVE  SessionTypeOK' /\ Channels' /\ ClientMove(c)
<1>1. Talk(c) /\ (Unkeyed(c) => First(c) \/ client[c] = "gone")
  BY DEF SessionInv, Clientele
<1>2. SessionTypeOK /\ Channels
  BY DEF SessionInv
<1>3. up[c] \in Seq(Messages) /\ dn[c] \in Seq(Int) /\ asks[c] \in Nat
  BY <1>2 DEF SessionTypeOK, Channels
<1>4. Hello \in Messages /\ Strange \in Messages
  BY DEF Hello, Strange, Message, Messages
<1> USE DEF ClientMove, slotVars
<1>5. CASE Net_Connect(c)
  <2>1. PICK m \in {Hello, Strange} : up' = [up EXCEPT ![c] = <<m>>]
    BY <1>5 DEF Net_Connect
  <2>2. /\ client[c] = "new" /\ client' = [client EXCEPT ![c] = "keys"]
        /\ open' = [open EXCEPT ![c] = "backlog"]
        /\ UNCHANGED <<kind, server, shared, socket, phase, logined, only, zero, dn, asks, passed, ran, given>>
    BY <1>5 DEF Net_Connect
  <2>3. asks[c] = 0 /\ dn[c] = <<>> /\ open[c] = "closed"
    BY <1>1, <2>2 DEF Talk, First, Keyed
  <2>4. First(c)'
    BY <1>2, <2>1, <2>2, <2>3 DEF First, SessionTypeOK, Channels
  <2>5. SessionTypeOK'
    BY <1>2, <2>2 DEF SessionTypeOK
  <2>6. Channels'
    BY <1>2, <1>4, <2>1, <2>2 DEF Channels
  <2> QED BY <1>2, <2>1, <2>2, <2>3, <2>4, <2>5, <2>6 DEF Talk, SessionTypeOK, Channels
<1>6. CASE SendRequest(c)
  <2>1. PICK n \in Numbers, quiet \in BOOLEAN :
          /\ quiet => n = 1
          /\ up' = [up EXCEPT ![c] = Append(@, Message(n, quiet, asks[c]))]
          /\ client' = [client EXCEPT ![c] = IF n = Quit THEN "gone"
                                             ELSE IF quiet THEN "idle" ELSE "waits"]
    BY <1>6 DEF SendRequest
  <2> DEFINE m == Message(n, quiet, asks[c])
  <2>2. /\ client[c] = "idle" /\ asks' = [asks EXCEPT ![c] = @ + 1]
        /\ UNCHANGED <<kind, server, shared, socket, phase, logined, only, zero, dn, open, passed, ran, given>>
    BY <1>6 DEF SendRequest
  <2>3. m \in Messages /\ m.id = asks[c] /\ (quiet => Unheard(m))
    BY <1>3, <2>1, SessionAssumption DEF Message, Messages, Numbers, Terminator, Quit, Unheard
  <2>4. dn[c] = <<>> /\ AllQuiet(up[c])
    BY <1>1, <2>2 DEF Talk, First, Keyed
  <2> HIDE DEF m
  <2>5. /\ Append(up[c], m) \in Seq(Messages) /\ (quiet => AllQuiet(Append(up[c], m)))
        /\ EndsWith(Append(up[c], m), asks[c])
    BY <1>3, <2>3, <2>4, AppendOf
  <2>6. up' = [up EXCEPT ![c] = Append(@, m)]
    BY <2>1 DEF m
  <2>7. SessionTypeOK'
    BY <1>2, <2>1, <2>2 DEF SessionTypeOK
  <2>8. Channels'
    BY <1>2, <2>2, <2>5, <2>6 DEF Channels
  <2>9. Talk(c)'
    <3>1. /\ up'[c] = Append(up[c], m) /\ dn'[c] = <<>> /\ asks'[c] = asks[c] + 1
          /\ client'[c] = IF n = Quit THEN "gone" ELSE IF quiet THEN "idle" ELSE "waits"
      BY <1>2, <2>1, <2>2, <2>4, <2>6 DEF SessionTypeOK, Channels
    <3>2. asks[c] + 1 > 0 /\ (asks[c] + 1) - 1 = asks[c]
      BY <1>3
    <3> QED BY <2>5, <3>1, <3>2 DEF Talk
  <2>10. ~First(c)' /\ ~Unkeyed(c)
    BY <1>1, <1>2, <2>1, <2>2 DEF First, SessionTypeOK
  <2> QED BY <1>2, <2>1, <2>2, <2>7, <2>8, <2>9, <2>10 DEF SessionTypeOK, Channels
<1>7. CASE Receive(c)
  <2>1. /\ dn[c] # <<>> /\ dn' = [dn EXCEPT ![c] = Tail(@)]
        /\ client[c] \in {"keys", "waits"} /\ client' = [client EXCEPT ![c] = "idle"]
        /\ UNCHANGED <<kind, server, shared, socket, phase, logined, only, zero, up, open, asks, passed, ran, given>>
    BY <1>7 DEF Receive
  <2>2. Tail(dn[c]) = <<>> /\ up[c] = <<>>
    <3>1. up[c] = <<>> /\ \E x \in Int : dn[c] = <<x>>
      BY <1>1, <1>3, <2>1 DEF Talk, First, Keyed
    <3>2. \A x \in Int : Tail(<<x>>) = <<>>
      OBVIOUS
    <3> QED BY <3>1, <3>2
  <2>3. SessionTypeOK' /\ Channels'
    BY <1>2, <2>1 DEF SessionTypeOK, Channels
  <2>4. Talk(c)'
    BY <1>2, <2>1, <2>2 DEF Talk, AllQuiet, SessionTypeOK, Channels
  <2>5. ~First(c)' /\ ~Unkeyed(c)
    BY <1>1, <1>2, <2>1 DEF First, SessionTypeOK
  <2> QED BY <1>2, <2>1, <2>3, <2>4, <2>5 DEF SessionTypeOK, Channels
<1>8. CASE SeeEnd(c) \/ HangUp(c)
  <2>1. /\ client' = [client EXCEPT ![c] = "gone"]
        /\ UNCHANGED <<kind, server, shared, socket, phase, logined, only, zero, up, dn, open, asks, passed, ran, given>>
    BY <1>8 DEF SeeEnd, HangUp
  <2>2. SessionTypeOK' /\ Channels'
    BY <1>2, <2>1 DEF SessionTypeOK, Channels
  <2>3. Talk(c)' /\ ~First(c)' /\ client'[c] = "gone"
    BY <1>2, <2>1 DEF Talk, First, SessionTypeOK
  <2> QED BY <1>2, <2>1, <2>2, <2>3 DEF SessionTypeOK
<1> QED BY <1>5, <1>6, <1>7, <1>8

\* ExchangeKeys, Serve, LoseClient and ExpireTask.
LEMMA SlotSteps ==
  ASSUME SessionInv, NEW s \in Slots, NEW c \in Clients, c = socket[s],
         ExchangeKeys(s) \/ Serve(s) \/ LoseClient(s) \/ ExpireTask(s)
  PROVE  SessionTypeOK' /\ Channels' /\ SlotMove(s, c)
<1>1. SessionTypeOK /\ Channels /\ Slot(s)
  BY DEF SessionInv
<1>2. phase[s] \in {"keys", "loop"}
  BY DEF ExchangeKeys, Serve, LoseClient, ExpireTask
<1>3. socket[s] = c /\ c # NoSocket /\ open[c] = "open"
  BY <1>1, <1>2 DEF Slot
<1>4. /\ up[c] \in Seq(Messages) /\ dn[c] \in Seq(Int)
      /\ Talk(c) /\ client[c] # "new" /\ Served(c)
  BY <1>1, <1>3 DEF SessionInv, Channels, Clientele, ServedAfterLogin, Served, Talk, First, Keyed
<1>5. ASSUME Over(s), UNCHANGED <<kind, server, shared, up, client, asks, passed, ran, given>>
      PROVE  SessionTypeOK' /\ Channels' /\ SlotMove(s, c)
  <2>1. SessionTypeOK' /\ Channels'
    BY <1>1, <1>3, <1>5 DEF Over, SessionTypeOK, Channels
  <2>2. Talk(c)'
    BY <1>4, <1>5 DEF Over, Talk, First, Keyed
  <2>3. phase'[s] = "free" /\ socket'[s] = NoSocket /\ open'[c] = "closed"
    BY <1>1, <1>3, <1>5 DEF Over, SessionTypeOK
  <2>4. Served(c)'
    BY <1>4, <1>5 DEF Served
  <2> QED BY <1>1, <1>3, <1>5, <2>1, <2>2, <2>3, <2>4 DEF Over, SlotMove, SessionTypeOK
<1>6. CASE LoseClient(s) \/ ExpireTask(s)
  BY <1>3, <1>5, <1>6 DEF LoseClient, ExpireTask
<1>7. CASE ExchangeKeys(s)
  <2>1. CASE up[c] # <<Hello>>
    BY <1>3, <1>5, <1>7, <2>1 DEF ExchangeKeys
  <2>2. CASE up[c] = <<Hello>>
    <3>9. up[socket[s]] = <<Hello>>
      BY <1>3, <2>2
    <3>0. /\ phase[s] = "keys" /\ phase' = [phase EXCEPT ![s] = "loop"]
          /\ dn' = [dn EXCEPT ![socket[s]] = Append(@, Hello.id)]
          /\ up' = [up EXCEPT ![socket[s]] = <<>>]
          /\ \E o \in BOOLEAN : /\ only' = [only EXCEPT ![s] = o]
                                /\ given' = [given EXCEPT ![socket[s]] = @ \/ o]
          /\ UNCHANGED <<socket, logined, zero, open>>
          /\ UNCHANGED <<kind, server, shared, client, asks, passed, ran>>
      BY <1>7, <3>9 DEF ExchangeKeys
    <3>1. PICK o \in BOOLEAN : /\ phase[s] = "keys" /\ phase' = [phase EXCEPT ![s] = "loop"]
            /\ dn' = [dn EXCEPT ![c] = Append(@, -1)] /\ up' = [up EXCEPT ![c] = <<>>]
            /\ only' = [only EXCEPT ![s] = o] /\ given' = [given EXCEPT ![c] = @ \/ o]
            /\ UNCHANGED <<kind, server, shared, socket, logined, zero, client, open, asks, passed, ran>>
      BY <1>3, <3>0 DEF Hello, Message
    <3>2. SessionTypeOK' /\ Channels'
      BY <1>1, <1>4, <3>1 DEF SessionTypeOK, Channels
    <3>3. First(c) \/ client[c] = "gone"
      BY <1>3, <3>1 DEF SessionInv, Clientele, Unkeyed
    <3>4. /\ up'[c] = <<>> /\ dn'[c] = Append(dn[c], -1) /\ client'[c] = client[c]
          /\ asks'[c] = asks[c] /\ phase'[s] = "loop"
      BY <1>1, <1>3, <3>1 DEF SessionTypeOK, Channels
    <3>5. Talk(c)' /\ ~First(c)'
      <4>1. Append(<<>>, -1) = <<-1>>
        OBVIOUS
      <4>2. First(c) => Keyed(c)'
        BY <3>4, <4>1 DEF First, Keyed
      <4>3. ~First(c)'
        BY <3>4 DEF First
      <4> QED BY <3>3, <3>4, <4>2, <4>3 DEF Talk
    <3>6. logined[s] = 0 /\ (only'[s] => given'[c]) /\ (given[c] => given'[c])
      BY <1>1, <1>3, <3>1 DEF Slot, SessionTypeOK
    <3>7. Served(c)'
      BY <1>4, <3>1, <3>6 DEF Served
    <3> QED BY <1>1, <1>3, <3>1, <3>2, <3>4, <3>5, <3>6, <3>7 DEF SlotMove, SessionTypeOK, Channels
  <2> QED BY <2>1, <2>2
<1>8. CASE Serve(s)
  <2> DEFINE m == Head(up[c])
  <2>0. PICK t \in Turns(s, Head(up[socket[s]])), lost \in BOOLEAN :
          /\ ran' = [ran EXCEPT ![socket[s]] = @ \cup t.ran]
          /\ given' = [given EXCEPT ![socket[s]] = @ \/ (t.only /\ t.in # 1)]
          /\ logined' = [logined EXCEPT ![s] = t.in]
          /\ only' = [only EXCEPT ![s] = t.only]
          /\ zero' = [zero EXCEPT ![s] =
               @ /\ ~(kind = "process" /\ Head(up[socket[s]]).num = 0 /\ logined[s] = 0 /\ ~t.only)]
          /\ passed' = [passed EXCEPT ![socket[s]] = @ \/ (logined[s] = 0 /\ t.in = 1)]
          /\ server' = IF t.dies /\ kind = "thread" THEN "crashed" ELSE server
          /\ dn' = [dn EXCEPT ![socket[s]] = IF t.answer /\ ~lost THEN Append(@, Head(up[socket[s]]).id) ELSE @]
          /\ phase' = [phase EXCEPT ![s] = IF t.ends \/ t.dies THEN "free" ELSE @]
          /\ socket' = [socket EXCEPT ![s] = IF t.ends \/ t.dies THEN NoSocket ELSE @]
          /\ open' = [open EXCEPT ![socket[s]] = IF t.ends \/ t.dies THEN "closed" ELSE @]
    BY <1>8 DEF Serve
  <2>1. /\ t \in Turns(s, m) /\ lost \in BOOLEAN
        /\ ran' = [ran EXCEPT ![c] = @ \cup t.ran]
        /\ given' = [given EXCEPT ![c] = @ \/ (t.only /\ t.in # 1)]
        /\ logined' = [logined EXCEPT ![s] = t.in]
        /\ only' = [only EXCEPT ![s] = t.only]
        /\ zero' = [zero EXCEPT ![s] =
             @ /\ ~(kind = "process" /\ m.num = 0 /\ logined[s] = 0 /\ ~t.only)]
        /\ passed' = [passed EXCEPT ![c] = @ \/ (logined[s] = 0 /\ t.in = 1)]
        /\ server' = IF t.dies /\ kind = "thread" THEN "crashed" ELSE server
        /\ dn' = [dn EXCEPT ![c] = IF t.answer /\ ~lost THEN Append(@, m.id) ELSE @]
        /\ phase' = [phase EXCEPT ![s] = IF t.ends \/ t.dies THEN "free" ELSE @]
        /\ socket' = [socket EXCEPT ![s] = IF t.ends \/ t.dies THEN NoSocket ELSE @]
        /\ open' = [open EXCEPT ![c] = IF t.ends \/ t.dies THEN "closed" ELSE @]
    BY <1>3, <2>0
  <2>2. /\ phase[s] = "loop" /\ up[c] # <<>> /\ up' = [up EXCEPT ![c] = Tail(@)]
        /\ UNCHANGED <<kind, shared, client, asks>>
    BY <1>3, <1>8 DEF Serve
  <2>3. /\ logined[s] \in {0, 1} /\ (only[s] => logined[s] = 1 \/ given[c])
        /\ (logined[s] = 1 => passed[c]) /\ ~First(c)
    BY <1>1, <1>3, <2>2 DEF Slot
  <2>4. /\ m \in Messages /\ Tail(up[c]) \in Seq(Messages)
        /\ AllQuiet(up[c]) => Unheard(m) /\ AllQuiet(Tail(up[c]))
        /\ \A n : EndsWith(up[c], n) => \/ Tail(up[c]) = <<>> /\ m.id = n
                                        \/ Unheard(m) /\ EndsWith(Tail(up[c]), n)
    BY <1>4, <2>2, TailOf
  <2> HIDE DEF m
  <2>5. Proper(t, m, logined[s], only[s])
    BY <1>1, <2>1, <2>3, <2>4, TurnsProper
  <2>6. /\ t.answer \in BOOLEAN /\ t.in \in -1 .. 1 /\ t.only \in BOOLEAN
        /\ t.ran \in SUBSET {"service", "only_do"}
        /\ t.ends \in BOOLEAN /\ t.dies \in BOOLEAN /\ m.id \in Int
    BY <2>4, <2>5 DEF Proper, Results, Messages
  <2>7. /\ "service" \in t.ran => logined[s] = 1
        /\ "only_do" \in t.ran => logined[s] = 1 \/ (kind = "thread" /\ only[s])
        /\ (logined[s] = 1 => t.in = 1) /\ (~t.ends => t.in \in {0, 1})
        /\ (Unheard(m) => ~t.answer)
    BY <2>5 DEF Proper, Unheard
  <2>8. SessionTypeOK' /\ Channels'
    <3>1. socket' \in [Slots -> Clients \cup {NoSocket}] /\ phase' \in [Slots -> {"free", "start", "keys", "loop"}]
      BY <1>1, <2>1 DEF SessionTypeOK
    <3>2. logined' \in [Slots -> -1 .. 1] /\ only' \in [Slots -> BOOLEAN]
      BY <1>1, <2>1, <2>6 DEF SessionTypeOK
    <3>3. zero' \in [Slots -> BOOLEAN]
      BY <1>1, <2>1 DEF SessionTypeOK
    <3>4. /\ passed' \in [Clients -> BOOLEAN] /\ given' \in [Clients -> BOOLEAN]
          /\ ran' \in [Clients -> SUBSET {"service", "only_do"}]
      BY <1>1, <2>1, <2>6 DEF SessionTypeOK
    <3>5. server' \in {"accept", "await", "crashed"} /\ open' \in [Clients -> {"backlog", "open", "closed"}]
      BY <1>1, <2>1 DEF SessionTypeOK
    <3>6. up' \in [Clients -> Seq(Messages)]
      BY <1>1, <2>2, <2>4 DEF Channels
    <3>7. dn' \in [Clients -> Seq(Int)]
      <4>1. Append(dn[c], m.id) \in Seq(Int)
        BY <1>4, <2>6
      <4> QED BY <1>1, <2>1, <4>1 DEF Channels
    <3>8. /\ kind' \in {"thread", "process", "pool"} /\ shared' \in Clients \cup {NoSocket}
          /\ client' \in [Clients -> {"new", "keys", "idle", "waits", "gone"}] /\ asks' \in [Clients -> Nat]
      BY <1>1, <2>2 DEF SessionTypeOK
    <3> QED BY <3>1, <3>2, <3>3, <3>4, <3>5, <3>6, <3>7, <3>8 DEF SessionTypeOK, Channels
  <2>9. /\ up'[c] = Tail(up[c])
        /\ dn'[c] = (IF t.answer /\ ~lost THEN Append(dn[c], m.id) ELSE dn[c])
        /\ open'[c] = IF t.ends \/ t.dies THEN "closed" ELSE open[c]
        /\ \A d \in Clients : d # c => up'[d] = up[d] /\ dn'[d] = dn[d] /\ open'[d] = open[d]
    BY <1>1, <1>3, <2>1, <2>2 DEF Channels, SessionTypeOK
  <2>10. /\ ran'[c] = ran[c] \cup t.ran /\ (passed'[c] <=> passed[c] \/ (logined[s] = 0 /\ t.in = 1))
         /\ (given'[c] <=> given[c] \/ (t.only /\ t.in # 1))
         /\ \A d \in Clients : d # c => passed'[d] = passed[d] /\ ran'[d] = ran[d] /\ given'[d] = given[d]
    BY <1>1, <1>3, <2>1 DEF SessionTypeOK
  <2>11. /\ logined'[s] = t.in /\ only'[s] = t.only
         /\ phase'[s] = IF t.ends \/ t.dies THEN "free" ELSE "loop"
         /\ socket'[s] = IF t.ends \/ t.dies THEN NoSocket ELSE c
         /\ \A u \in Slots : u # s => /\ socket'[u] = socket[u] /\ phase'[u] = phase[u]
                                      /\ logined'[u] = logined[u] /\ only'[u] = only[u]
    BY <1>1, <2>1, <2>2 DEF SessionTypeOK
  <2>12. Talk(c)' /\ ~First(c)'
    <3>1. client'[c] = client[c] /\ asks'[c] = asks[c] /\ asks[c] \in Nat
      BY <1>1, <1>3, <2>2 DEF SessionTypeOK
    <3>2. client[c] \in {"idle", "waits", "gone"}
      BY <1>4, <2>2, <2>3 DEF Talk, Keyed
    <3>3. CASE client[c] = "idle"
      <4>1. dn[c] = <<>> /\ AllQuiet(up[c])
        BY <1>4, <3>3 DEF Talk, First, Keyed
      <4>2. dn'[c] = <<>> /\ AllQuiet(up'[c])
        BY <2>4, <2>7, <2>9, <4>1
      <4> QED BY <3>1, <3>3, <4>2 DEF Talk, First
    <3>4. CASE client[c] = "waits"
      <4>1. asks[c] > 0 /\ dn[c] = <<>> /\ EndsWith(up[c], asks[c] - 1)
        BY <1>4, <2>2, <3>4 DEF Talk, First, Keyed
      <4>2. CASE Tail(up[c]) = <<>> /\ m.id = asks[c] - 1
        <5>1. Append(<<>>, m.id) = <<m.id>>
          OBVIOUS
        <5>2. up'[c] = <<>> /\ dn'[c] \in {<<>>, <<asks[c] - 1>>}
          BY <2>9, <4>1, <4>2, <5>1
        <5> QED BY <3>1, <3>4, <4>1, <5>2 DEF Talk, First
      <4>3. CASE Unheard(m) /\ EndsWith(Tail(up[c]), asks[c] - 1)
        <5>1. dn'[c] = <<>> /\ EndsWith(up'[c], asks[c] - 1)
          BY <2>7, <2>9, <4>1, <4>3
        <5> QED BY <3>1, <3>4, <4>1, <5>1 DEF Talk, First
      <4> QED BY <2>4, <4>1, <4>2, <4>3
    <3>5. CASE client[c] = "gone"
      BY <3>1, <3>5 DEF Talk, First
    <3> QED BY <3>2, <3>3, <3>4, <3>5
  <2>13. Served(c)'
    <3>1. "service" \in ran'[c] => passed'[c]
      BY <1>4, <2>3, <2>7, <2>10 DEF Served
    <3>2. "only_do" \in ran'[c] => passed'[c] \/ (kind = "thread" /\ given'[c])
      BY <1>4, <2>3, <2>7, <2>10 DEF Served
    <3> QED BY <2>2, <3>1, <3>2 DEF Served
  <2>14. /\ server' = server \/ (server' = "crashed" /\ kind = "thread")
         /\ UNCHANGED <<kind, shared, client, asks>>
    BY <2>1, <2>2
  <2>15. \/ phase'[s] = "free" /\ socket'[s] = NoSocket /\ open'[c] = "closed"
         \/ /\ phase'[s] = "loop" /\ socket'[s] = c /\ open'[c] = open[c]
            /\ logined'[s] \in {0, 1} /\ (only'[s] => logined'[s] = 1 \/ given'[c])
            /\ logined'[s] = 1 => passed'[c]
    <3>1. CASE t.ends \/ t.dies
      BY <2>9, <2>11, <3>1
    <3>2. CASE ~(t.ends \/ t.dies)
      BY <2>3, <2>7, <2>9, <2>10, <2>11, <3>2
    <3> QED BY <3>1, <3>2
  <2>16. socket[s] = c /\ c # NoSocket
    BY <1>3
  <2>17. SlotMove(s, c)
    BY <2>9, <2>10, <2>11, <2>12, <2>13, <2>14, <2>15, <2>16 DEF SlotMove
  <2> QED BY <2>8, <2>17
<1> QED BY <1>6, <1>7, <1>8

\* inetd forks, or the pool's main thread takes a free task.
LEMMA AcceptStep ==
  ASSUME SessionInv, NEW s \in Slots, NEW c \in Clients, Accept(s, c)
  PROVE  SessionInv'
<1> USE SessionAssumption
<1>1. /\ SessionTypeOK /\ Channels /\ Clientele /\ HandOver /\ OneSession /\ ServedAfterLogin
      /\ \A t \in Slots : Slot(t)
  BY DEF SessionInv
<1>2. /\ server = "accept" /\ open[c] = "backlog" /\ phase[s] = "free"
      /\ phase' = [phase EXCEPT ![s] = "keys"] /\ socket' = [socket EXCEPT ![s] = c]
      /\ logined' = [logined EXCEPT ![s] = 0] /\ only' = [only EXCEPT ![s] = FALSE]
      /\ zero' = [zero EXCEPT ![s] = TRUE] /\ open' = [open EXCEPT ![c] = "open"]
      /\ UNCHANGED <<kind, server, shared, up, dn, client, asks, passed, ran, given>>
  BY DEF Accept, Begin
<1>3. socket[s] = NoSocket /\ \A t \in Slots : socket[t] # c /\ phase[t] # "start"
  BY <1>1, <1>2 DEF Slot, HandOver
<1>4. SessionTypeOK' /\ Channels'
  BY <1>1, <1>2 DEF SessionTypeOK, Channels
<1>5. Clientele'
  <2> SUFFICES ASSUME NEW d \in Clients
               PROVE  Talk(d)' /\ (Unkeyed(d)' => First(d)' \/ client'[d] = "gone")
    BY DEF Clientele
  <2>1. Talk(d) /\ (Unkeyed(d) => First(d) \/ client[d] = "gone")
    BY <1>1 DEF Clientele
  <2>2. (First(d)' <=> First(d)) /\ (Keyed(d)' <=> Keyed(d))
    BY <1>2 DEF First, Keyed
  <2>3. Unkeyed(d)' => Unkeyed(d)
    BY <1>1, <1>2, <1>3 DEF Unkeyed, SessionTypeOK
  <2>4. open[d] = "closed" => open'[d] = "closed"
    BY <1>1, <1>2 DEF SessionTypeOK
  <2> QED BY <1>2, <2>1, <2>2, <2>3, <2>4 DEF Talk
<1>6. \A t \in Slots : Slot(t)'
  <2> SUFFICES ASSUME NEW t \in Slots PROVE Slot(t)'
    OBVIOUS
  <2>1. CASE t = s
    BY <1>1, <1>2, <2>1 DEF Slot, SessionTypeOK
  <2>2. CASE t # s
    <3>1. Slot(t) /\ socket'[t] = socket[t] /\ phase'[t] = phase[t] /\ logined'[t] = logined[t]
          /\ only'[t] = only[t]
      BY <1>1, <1>2, <2>2 DEF SessionTypeOK
    <3>2. socket[t] # NoSocket => open'[socket[t]] = open[socket[t]] /\ (First(socket[t])' => First(socket[t]))
      BY <1>1, <1>2, <1>3, <2>2 DEF SessionTypeOK, First
    <3> QED BY <1>2, <3>1, <3>2 DEF Slot, First
  <2> QED BY <2>1, <2>2
<1>7. HandOver'
  BY <1>1, <1>2, <1>3 DEF HandOver, SessionTypeOK
<1>8. OneSession'
  BY <1>1, <1>2, <1>3 DEF OneSession, SessionTypeOK
<1>9. ServedAfterLogin'
  BY <1>1, <1>2 DEF ServedAfterLogin
<1> QED BY <1>4, <1>5, <1>6, <1>7, <1>8, <1>9 DEF SessionInv

\* The main thread of TPC starts a thread for the connection, or closes it.
LEMMA AcceptThreadStep ==
  ASSUME SessionInv, NEW c \in Clients, AcceptThread(c)
  PROVE  SessionInv'
<1> USE SessionAssumption
<1>1. /\ SessionTypeOK /\ Channels /\ Clientele /\ HandOver /\ OneSession /\ ServedAfterLogin
      /\ \A t \in Slots : Slot(t)
  BY DEF SessionInv
<1>2. /\ kind = "thread" /\ server = "accept" /\ open[c] = "backlog" /\ shared' = c
      /\ UNCHANGED <<kind, socket, logined, only, zero, up, dn, client, asks, passed, ran, given>>
      /\ \/ \E s \in Slots : /\ phase[s] = "free" /\ phase' = [phase EXCEPT ![s] = "start"]
                             /\ server' = "await" /\ open' = [open EXCEPT ![c] = "open"]
         \/ UNCHANGED <<server, phase>> /\ open' = [open EXCEPT ![c] = "closed"]
  BY DEF AcceptThread
<1>3. \A t \in Slots : socket[t] # c /\ phase[t] # "start"
  BY <1>1, <1>2 DEF Slot, HandOver
<1>4. SessionTypeOK' /\ Channels'
  BY <1>1, <1>2 DEF SessionTypeOK, Channels
<1>5. Clientele'
  <2> SUFFICES ASSUME NEW d \in Clients
               PROVE  Talk(d)' /\ (Unkeyed(d)' => First(d)' \/ client'[d] = "gone")
    BY DEF Clientele
  <2>1. Talk(d) /\ (Unkeyed(d) => First(d) \/ client[d] = "gone")
    BY <1>1 DEF Clientele
  <2>2. (First(d)' <=> First(d)) /\ (Keyed(d)' <=> Keyed(d))
    BY <1>2 DEF First, Keyed
  <2>3. Unkeyed(d)' => Unkeyed(d)
    <3>1. CASE d = c
      BY <1>2, <3>1 DEF Unkeyed
    <3>2. CASE d # c
      BY <1>1, <1>2, <3>2 DEF Unkeyed, SessionTypeOK
    <3> QED BY <3>1, <3>2
  <2>4. open[d] = "closed" => open'[d] = "closed"
    BY <1>1, <1>2 DEF SessionTypeOK
  <2> QED BY <1>2, <2>1, <2>2, <2>3, <2>4 DEF Talk
<1>6. \A t \in Slots : Slot(t)'
  <2> SUFFICES ASSUME NEW t \in Slots PROVE Slot(t)'
    OBVIOUS
  <2>1. Slot(t) /\ socket'[t] = socket[t] /\ logined'[t] = logined[t] /\ only'[t] = only[t]
    BY <1>1, <1>2
  <2>2. socket[t] # NoSocket => open'[socket[t]] = open[socket[t]] /\ (First(socket[t])' => First(socket[t]))
    BY <1>1, <1>2, <1>3 DEF SessionTypeOK, First
  <2>3. phase'[t] = phase[t] \/ (phase[t] = "free" /\ phase'[t] = "start")
    BY <1>1, <1>2 DEF SessionTypeOK
  <2> QED BY <1>2, <2>1, <2>2, <2>3 DEF Slot, First
<1>7. HandOver'
  <2>1. CASE \E s \in Slots : /\ phase[s] = "free" /\ phase' = [phase EXCEPT ![s] = "start"]
                              /\ server' = "await" /\ open' = [open EXCEPT ![c] = "open"]
    BY <1>1, <1>2, <1>3, <2>1 DEF HandOver, SessionTypeOK
  <2>2. CASE UNCHANGED <<server, phase>>
    BY <1>2, <1>3, <2>2 DEF HandOver
  <2> QED BY <1>2, <2>1, <2>2
<1>8. OneSession'
  <2>1. \A d \in Clients : open'[d] = "open" =>
          \/ d # c /\ open[d] = "open"
          \/ d = c /\ \E s \in Slots : phase'[s] = "start"
    BY <1>1, <1>2 DEF SessionTypeOK
  <2>2. \A d \in Clients : open[d] = "open" => \E s \in Slots : socket[s] = d
    BY <1>1, <1>2, <1>3 DEF OneSession
  <2> QED BY <1>1, <1>2, <2>1, <2>2 DEF OneSession
<1>9. ServedAfterLogin'
  BY <1>1, <1>2 DEF ServedAfterLogin
<1> QED BY <1>4, <1>5, <1>6, <1>7, <1>8, <1>9 DEF SessionInv

\* The new thread has its socket; the main thread sees it and accepts again.
LEMMA CopySteps ==
  ASSUME SessionInv, Awaited \/ \E s \in Slots : CopyConn(s)
  PROVE  SessionInv'
<1> USE SessionAssumption
<1>1. /\ SessionTypeOK /\ Channels /\ Clientele /\ HandOver /\ OneSession /\ ServedAfterLogin
      /\ \A t \in Slots : Slot(t)
  BY DEF SessionInv
<1>2. CASE Awaited
  <2>1. /\ shared = NoSocket /\ server = "await" /\ server' = "accept"
        /\ UNCHANGED <<kind, shared, socket, phase, logined, only, zero>>
        /\ UNCHANGED <<up, dn, client, open, asks, passed, ran, given>>
    BY <1>2 DEF Awaited, slotVars, wireVars
  <2>2. \A t \in Slots : phase[t] # "start"
    BY <1>1, <2>1 DEF HandOver
  <2>3. SessionTypeOK' /\ Channels'
    BY <1>1, <2>1 DEF SessionTypeOK, Channels
  <2>4. Clientele'
    BY <1>1, <2>1 DEF Clientele, Talk, First, Keyed, Unkeyed
  <2>5. \A t \in Slots : Slot(t)'
    BY <1>1, <2>1 DEF Slot, First
  <2>6. HandOver' /\ OneSession' /\ ServedAfterLogin'
    BY <1>1, <2>1, <2>2 DEF HandOver, OneSession, ServedAfterLogin
  <2> QED BY <2>3, <2>4, <2>5, <2>6 DEF SessionInv
<1>3. ASSUME NEW s \in Slots, CopyConn(s) PROVE SessionInv'
  <2>1. /\ phase[s] = "start" /\ server # "crashed" /\ shared' = NoSocket
        /\ phase' = [phase EXCEPT ![s] = "keys"] /\ socket' = [socket EXCEPT ![s] = shared]
        /\ logined' = [logined EXCEPT ![s] = 0] /\ only' = [only EXCEPT ![s] = FALSE]
        /\ zero' = [zero EXCEPT ![s] = TRUE]
        /\ UNCHANGED <<kind, server, up, dn, client, open, asks, passed, ran, given>>
    BY <1>3 DEF CopyConn, Begin, wireVars
  <2>2. /\ shared \in Clients /\ shared # NoSocket /\ open[shared] = "open" /\ kind = "thread"
        /\ \A t \in Slots : socket[t] # shared /\ (phase[t] = "start" => t = s)
    BY <1>1, <2>1 DEF HandOver
  <2>3. SessionTypeOK' /\ Channels'
    BY <1>1, <2>1, <2>2 DEF SessionTypeOK, Channels
  <2>4. Clientele'
    <3> SUFFICES ASSUME NEW d \in Clients
                 PROVE  Talk(d)' /\ (Unkeyed(d)' => First(d)' \/ client'[d] = "gone")
      BY DEF Clientele
    <3>1. Talk(d) /\ (Unkeyed(d) => First(d) \/ client[d] = "gone")
      BY <1>1 DEF Clientele
    <3>2. (First(d)' <=> First(d)) /\ (Talk(d)' <=> Talk(d))
      BY <2>1 DEF Talk, First, Keyed
    <3>3. Unkeyed(d)' => Unkeyed(d)
      BY <1>1, <2>1, <2>2 DEF Unkeyed, SessionTypeOK
    <3> QED BY <2>1, <3>1, <3>2, <3>3
  <2>5. \A t \in Slots : Slot(t)'
    <3> SUFFICES ASSUME NEW t \in Slots PROVE Slot(t)'
      OBVIOUS
    <3>1. CASE t = s
      BY <1>1, <2>1, <2>2, <3>1 DEF Slot, SessionTypeOK
    <3>2. CASE t # s
      <4>1. Slot(t) /\ socket'[t] = socket[t] /\ phase'[t] = phase[t] /\ logined'[t] = logined[t]
            /\ only'[t] = only[t]
        BY <1>1, <2>1, <3>2 DEF SessionTypeOK
      <4> QED BY <2>1, <4>1 DEF Slot, First
    <3> QED BY <3>1, <3>2
  <2>6. HandOver'
    BY <1>1, <2>1, <2>2 DEF HandOver, SessionTypeOK
  <2>7. OneSession'
    <3>1. /\ socket[s] = NoSocket /\ socket'[s] = shared
          /\ \A t \in Slots : t # s => socket'[t] = socket[t]
      BY <1>1, <2>1 DEF Slot, SessionTypeOK
    <3>2. \A c \in Clients, t, u \in Slots : socket'[t] = c /\ socket'[u] = c => t = u
      BY <1>1, <2>2, <3>1 DEF OneSession
    <3>3. \A c \in Clients : (\E t \in Slots : socket[t] = c) \/ shared = c => \E t \in Slots : socket'[t] = c
      BY <3>1
    <3> QED BY <1>1, <2>1, <3>2, <3>3 DEF OneSession
  <2>8. ServedAfterLogin'
    BY <1>1, <2>1 DEF ServedAfterLogin
  <2> QED BY <2>3, <2>4, <2>5, <2>6, <2>7, <2>8 DEF SessionInv
<1> QED BY <1>2, <1>3

\* The process is gone, and every connection with it.
LEMMA CollapseStep ==
  ASSUME SessionInv, Collapse
  PROVE  SessionInv'
<1>1. /\ SessionTypeOK /\ Channels /\ Clientele /\ HandOver /\ OneSession /\ ServedAfterLogin
  BY DEF SessionInv
<1>2. /\ server = "crashed" /\ open' = [c \in Clients |-> "closed"]
      /\ socket' = [s \in Slots |-> NoSocket] /\ phase' = [s \in Slots |-> "free"]
      /\ UNCHANGED <<kind, server, shared, logined, only, zero, up, dn, client, asks, passed, ran, given>>
  BY DEF Collapse
<1>3. SessionTypeOK' /\ Channels'
  BY <1>1, <1>2 DEF SessionTypeOK, Channels
<1>4. Clientele'
  BY <1>1, <1>2 DEF Clientele, Talk, First, Keyed, Unkeyed
<1>5. (\A t \in Slots : Slot(t)') /\ HandOver'
  BY <1>1, <1>2 DEF Slot, HandOver
<1>6. OneSession' /\ ServedAfterLogin'
  BY <1>1, <1>2, SessionAssumption DEF OneSession, ServedAfterLogin
<1> QED BY <1>3, <1>4, <1>5, <1>6 DEF SessionInv

LEMMA SessionStep == SessionInv /\ [SessionNext]_sessionVars => SessionInv'
<1> SUFFICES ASSUME SessionInv, [SessionNext]_sessionVars PROVE SessionInv'
  OBVIOUS
<1>1. CASE UNCHANGED sessionVars
  BY <1>1 DEF sessionVars, SessionInv, SessionTypeOK, Channels, Clientele, Talk, First, Keyed,
              Unkeyed, Slot, HandOver, OneSession, ServedAfterLogin
<1>2. ASSUME NEW c \in Clients,
             Net_Connect(c) \/ SendRequest(c) \/ Receive(c) \/ SeeEnd(c) \/ HangUp(c)
      PROVE  SessionInv'
  BY <1>2, ClientSteps, ClientMoves
<1>3. ASSUME NEW s \in Slots, ExchangeKeys(s) \/ Serve(s) \/ LoseClient(s) \/ ExpireTask(s)
      PROVE  SessionInv'
  <2>1. PICK c \in Clients : c = socket[s]
    <3>1. Slot(s) /\ socket[s] \in Clients \cup {NoSocket}
      BY DEF SessionInv, SessionTypeOK
    <3>2. phase[s] \in {"keys", "loop"}
      BY <1>3 DEF ExchangeKeys, Serve, LoseClient, ExpireTask
    <3> QED BY <3>1, <3>2 DEF Slot
  <2>2. SessionTypeOK' /\ Channels' /\ SlotMove(s, c)
    BY <1>3, <2>1, SlotSteps
  <2> QED BY <2>2, SlotMoves
<1>4. ASSUME NEW s \in Slots, NEW c \in Clients, Accept(s, c) PROVE SessionInv'
  BY <1>4, AcceptStep
<1>5. ASSUME NEW c \in Clients, AcceptThread(c) PROVE SessionInv'
  BY <1>5, AcceptThreadStep
<1>6. CASE Awaited \/ \E s \in Slots : CopyConn(s)
  BY <1>6, CopySteps
<1>7. CASE Collapse
  BY <1>7, CollapseStep
<1> QED BY <1>1, <1>2, <1>3, <1>4, <1>5, <1>6, <1>7 DEF SessionNext

-----------------------------------------------------------------------------
\* Sessions do not mix (SessionsApart), with any number of connections, threads,
\* processes or tasks: an accepted connection has one session, whichever thread
\* copies the main thread's Conn and however the next accept overtakes it, and an
\* answer on the way is the answer to the request its client waits for.
THEOREM SessionsApartAlways == SessionSpec => []SessionsApart
<1>1. SessionInv => SessionsApart
  BY OwnAnswers DEF SessionsApart, SessionInv
<1> QED BY SessionStart, SessionStep, <1>1, PTL DEF SessionSpec

\* No service runs for a client the login function has not let in, and only_do
\* before the login only in a thread, for a client it was installed for
\* (ServedAfterLogin), whatever the slot's state was for the client before it, and
\* whatever conn_init, the login, the services and only_do do to only_do.
THEOREM LoginFirst == SessionSpec => []ServedAfterLogin
<1>1. SessionInv => ServedAfterLogin
  BY DEF SessionInv
<1> QED BY SessionStart, SessionStep, <1>1, PTL DEF SessionSpec
=============================================================================

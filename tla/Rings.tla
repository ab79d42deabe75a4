-------------------------------- MODULE Rings --------------------------------
(***************************************************************************)
(* The queues of the two pools as they are stored.  A queue is one         *)
(* reference to its last element, the elements are linked into a ring, so  *)
(* that the first is the successor of the last.  An element that is in no  *)
(* queue has no successor.                                                 *)
(*                                                                         *)
(* scsrv/tpool.c links task blocks into the ready queue and the free list  *)
(* with the same field, scsrv/mod_sc.c into the queue of its pool;         *)
(* sccli/scpool.c links the free connections of a path.                    *)
(***************************************************************************)
EXTENDS Integers, FiniteSets, SequencesExt

CONSTANTS
  Blocks,   \* the task control blocks
  Links,    \* the connections of a path, 0 and up
  Lists,    \* the queues of task blocks
  Path,     \* the queue free_q of the path
  Movers,   \* the threads
  Twice,    \* two threads may link one task at once
  Nil       \* no element

ASSUME RingAssumption ==
  /\ IsFiniteSet(Blocks) /\ Blocks \cap Links = {}
  /\ IsFiniteSet(Links) /\ Links # {} /\ Links = 0..(Cardinality(Links) - 1)
  /\ Path \notin Lists /\ Nil \notin Blocks \cup Links /\ Twice \in BOOLEAN

Heads == Lists \cup {Path}
Nodes == Blocks \cup Links

VARIABLES
  next,     \* next[n]: the successor of n
  tail,     \* tail[q]: *rp, the last element of queue q
  socket,   \* socket[c]: Conn.Socket, the number of a socket or below zero
  moving    \* moving[t]: the task thread t is about to link

ringVars == <<next, tail, socket, moving>>

\* "stale": the number of a socket that Net_Connect closed and left there.
Sockets == {"none", "open", "stale"}

\* The connections are linked by scpool_init in the order of their numbers, the
\* task blocks are handed over one by one (tpool_init).
RingInit ==
  /\ next = [n \in Nodes |-> IF n \in Links THEN (n + 1) % Cardinality(Links) ELSE Nil]
  /\ tail = [q \in Heads |-> IF q = Path THEN Cardinality(Links) - 1 ELSE Nil]
  /\ socket = [c \in Links |-> "none"] /\ moving = [t \in Movers |-> Nil]
-----------------------------------------------------------------------------
\* An element is linked behind the last one of the queue.
Linked(q, n) ==
  IF tail[q] = Nil
  THEN [next EXCEPT ![n] = n]
  ELSE LET behind == [next EXCEPT ![n] = next[tail[q]]]
       IN [behind EXCEPT ![tail[q]] = n]

\* The successor of the last element leaves the ring.
Unlinked(q) ==
  LET n == next[tail[q]] IN [next EXCEPT ![tail[q]] = next[n], ![n] = Nil]

\* TCB_add refuses a task that is in a queue.  It looks without the lock of the
\* queue.
AddLook(t, n) ==
  /\ moving[t] = Nil /\ next[n] = Nil
  /\ Twice \/ \A u \in Movers : moving[u] # n
  /\ moving' = [moving EXCEPT ![t] = n]
  /\ UNCHANGED <<next, tail, socket>>

\* And links it under the lock.
AddLink(t, q) ==
  LET n == moving[t] IN
  /\ n # Nil
  /\ next' = Linked(q, n)
  /\ tail' = [tail EXCEPT ![q] = n]
  /\ moving' = [moving EXCEPT ![t] = Nil]
  /\ UNCHANGED socket

\* TCB_get and rdy_get take the first task.
Get(q) ==
  /\ q \in Lists /\ tail[q] # Nil
  /\ next' = IF next[tail[q]] = tail[q] THEN [next EXCEPT ![tail[q]] = Nil] ELSE Unlinked(q)
  /\ tail' = [tail EXCEPT ![q] = IF next[@] = @ THEN Nil ELSE @]
  /\ UNCHANGED <<socket, moving>>

\* get_lnk_no takes the first connection.
GetLink(n) ==
  /\ tail[Path] # Nil /\ n = next[tail[Path]]
  /\ next' = IF n = tail[Path] THEN [next EXCEPT ![n] = Nil] ELSE Unlinked(Path)
  /\ tail' = [tail EXCEPT ![Path] = IF n = @ THEN Nil ELSE @]
  /\ UNCHANGED <<socket, moving>>

\* Who holds a connection connects it, may fail at any point, or disconnects it.
Hold(n) ==
  /\ next[n] = Nil
  /\ \E s \in Sockets : socket' = [socket EXCEPT ![n] = s]
  /\ UNCHANGED <<next, tail, moving>>

\* scpool_check closes a connection that was not used for long, where it stands.
CheckClose(n) ==
  /\ next[n] # Nil /\ socket[n] # "none"
  /\ socket' = [socket EXCEPT ![n] = "none"]
  /\ UNCHANGED <<next, tail, moving>>

\* Mutant: a connection with a socket becomes the last one.
AddLinkLast(n) ==
  /\ next[n] = Nil
  /\ next' = Linked(Path, n)
  /\ tail' = [tail EXCEPT ![Path] = IF @ = Nil \/ socket[n] # "none" THEN n ELSE @]
  /\ UNCHANGED <<socket, moving>>

\* add_lnk makes a connection the first one, one without a socket the last.
AddConn(n) ==
  /\ next[n] = Nil
  /\ next' = Linked(Path, n)
  /\ tail' = [tail EXCEPT ![Path] = IF @ = Nil \/ socket[n] = "none" THEN n ELSE @]
  /\ UNCHANGED <<socket, moving>>
-----------------------------------------------------------------------------
RingNext ==
  \/ \E t \in Movers : (\E n \in Blocks : AddLook(t, n)) \/ (\E q \in Lists : AddLink(t, q))
  \/ \E q \in Lists : Get(q)
  \/ \E n \in Links : GetLink(n) \/ AddConn(n) \/ Hold(n) \/ CheckClose(n)

RingSpec == RingInit /\ [][RingNext]_ringVars
-----------------------------------------------------------------------------
\* The way along the successors, of Most steps.
Most == Cardinality(Nodes)
Steps == 0..Most
Ends == Nodes \cup {Nil}
Walk(links, first) ==
  LET after == [n \in Ends |-> IF n = Nil THEN Nil ELSE links[n]]
      walk[k \in Steps] == IF k = 0 THEN first ELSE after[walk[k - 1]]
  IN walk

\* The elements met on it from the first to the last one.
WayTo(links, last) ==
  LET walk == Walk(links, links[last])
      end == Min({Most} \cup {k \in Steps : walk[k] = last})
  IN [i \in 1..end + 1 |-> walk[i - 1]]
Order(q) == IF tail[q] = Nil THEN <<>> ELSE WayTo(next, tail[q])

\* The rings as lines.
lines == [q \in Heads |-> Order(q)]

\* Nothing is dropped: what has a successor is met on the way through one
\* queue, and only there (tpool.c:119, 131-133; scpool.c:303-307, 326-329).
RingsWhole ==
  LET line == lines IN
  /\ \A q \in Heads : tail[q] # Nil => Last(line[q]) = tail[q]
  /\ \A n \in Nodes :
       Cardinality({q \in Heads : Contains(line[q], n)}) = IF next[n] = Nil THEN 0 ELSE 1

\* Task blocks queue up, and connections without a socket.
Latecomers == Blocks \cup {c \in Links : socket[c] = "none"}

Promise == INSTANCE Lines WITH Elements <- Nodes, Queues <- Heads, line <- lines, late <- Latecomers

\* Each ring is a line whose first element is the one taken and which no element
\* leaves but so; a connection with the number of a socket joins it at the front, one
\* without at the end, whatever happened to it meanwhile, and one that is closed in
\* the line keeps its place (tpool.c:113-152, scpool.c:295-334, 691-695).
ImplementsLines ==
  []RingsWhole /\ Promise!Init /\ [][ringVars' # ringVars => Promise!Next]_<<lines, Latecomers>>
=============================================================================

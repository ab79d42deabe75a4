------------------------------ MODULE WaitQueue ------------------------------
(***************************************************************************)
(* The wait queue of scsrv/mod_sc.c.  A service of the thread-pool server  *)
(* that needs a pooled connection asks for one without waiting             *)
(* (scpool_MGR).  When none is free its task is parked in the queue of the *)
(* pool, whose thread (wait_sc) waits for a connection, binds it to the    *)
(* task and puts the task into the ready queue, where a worker finds it    *)
(* and calls the callback.                                                 *)
(*                                                                         *)
(* One pool.  Of the server (module TPool) there are the workers, the two  *)
(* queues and the timers; of the connection pool (module ConnPool) the set *)
(* of free connections and whether its server can be reached.  bind_sc and *)
(* unbind_sc belong to the application: they store a connection for the    *)
(* task if the application still waits for one, and remove it.             *)
(***************************************************************************)
EXTENDS Integers, FiniteSets, SequencesExt

CONSTANTS
  Tasks,    \* the task control blocks
  Hands,    \* the worker threads
  Conns,    \* the connections of the pool
  Upsets,   \* what may go wrong, see the actions that name it
  None      \* no task, no connection, no thread

ASSUME WaitAssumption ==
  /\ IsFiniteSet(Tasks) /\ IsFiniteSet(Hands) /\ IsFiniteSet(Conns)
  /\ None \notin Tasks \cup Conns \cup Hands
  /\ "thread" \notin Tasks \cup {None}
  /\ Upsets \subseteq {"badpool", "idle", "expire", "again", "overtake", "down"}

VARIABLES
  parkq,    \* wpool.QP[poolno].queue
  readyq,   \* rpool.queue
  free,     \* the tasks in client_q.free_q
  heard,    \* heard[i]: an event of the client is registered
  callback, \* callback[i]: task->call_back is set
  awaits,   \* awaits[i]: the application waits for a connection
  ctx,      \* ctx[i]: the connection bind_sc stored
  idle,     \* the free connections of the pool
  down,     \* the pool's server cannot be reached
  tid,      \* qp->tid: None, the task whose service claims it, or "thread"
  at,       \* at[w]: where worker w is
  has,      \* has[w]: its task
  using,    \* using[w]: the connection its service works with
  wt,       \* where the thread wait_sc is
  job,      \* TCBno of wait_sc
  conn,     \* conn of wait_sc
  clr_q     \* clr_q of wait_sc

qVars == <<parkq, readyq, free>>
taskVars == <<heard, callback, awaits, ctx>>
poolVars == <<idle, down>>
handVars == <<at, has, using>>
threadVars == <<tid, wt, job, conn, clr_q>>
waitVars == <<qVars, taskVars, poolVars, handVars, threadVars>>

WaitInit ==
  /\ parkq = <<>> /\ readyq = <<>> /\ free = Tasks
  /\ heard = [i \in Tasks |-> FALSE]
  /\ callback = [i \in Tasks |-> FALSE]
  /\ awaits = [i \in Tasks |-> FALSE]
  /\ ctx = [i \in Tasks |-> None]
  /\ idle = Conns /\ down = FALSE
  /\ tid = None /\ wt = "none" /\ job = None /\ conn = None /\ clr_q = FALSE
  /\ at = [w \in Hands |-> "loop"]
  /\ has = [w \in Hands |-> None]
  /\ using = [w \in Hands |-> None]
-----------------------------------------------------------------------------
(* Tasks, their queues and their timers (tpool.c) *)

\* task->next is set.
Queued(i) == i \in free \/ Contains(readyq, i) \/ Contains(parkq, i)

Worked(i) == \E w \in Hands : has[w] = i

\* TCB_add(NULL, i), which leaves a task in a queue alone.
Ready(i) == readyq' = IF Queued(i) THEN readyq ELSE Append(readyq, i)

\* A client is accepted.
Connect(i) ==
  /\ i \in free
  /\ free' = free \ {i}
  /\ heard' = [heard EXCEPT ![i] = TRUE]
  /\ UNCHANGED <<parkq, readyq, callback, awaits, ctx, poolVars, handVars, threadVars>>

\* check_TCB_timeout: the 120 s of a task that waits for its callback are over.
\* A task in a queue is passed over; one in the hands of wait_sc is not, and
\* its time in the queue has counted ("expire").  An event that is registered
\* stays so.
Expire(i) ==
  /\ callback[i] /\ ~Queued(i) /\ ~Worked(i)
  /\ "expire" \in Upsets
  /\ Ready(i)
  /\ UNCHANGED <<parkq, free, taskVars, poolVars, handVars, threadVars>>

Move(w, l) == at' = [at EXCEPT ![w] = l]
Leave(w) == Move(w, "loop") /\ has' = [has EXCEPT ![w] = None]

\* A worker takes the first ready task.  Without a callback it only waits for
\* its client again.
TakeTask(w) ==
  LET i == Head(readyq) IN
  /\ at[w] = "loop" /\ readyq # <<>>
  /\ readyq' = Tail(readyq)
  /\ IF callback[i]
     THEN has' = [has EXCEPT ![w] = i] /\ Move(w, "callback") /\ UNCHANGED heard
     ELSE heard' = [heard EXCEPT ![i] = TRUE] /\ UNCHANGED <<at, has>>
  /\ UNCHANGED <<parkq, free, callback, awaits, ctx, poolVars, using, threadVars>>

\* A worker takes a client's request.  The client may have been told that its
\* wait timed out, while wait_sc still has its task in hands ("again").
TakeEvent(w, i) ==
  /\ at[w] = "loop" /\ heard[i]
  /\ "again" \in Upsets \/ (job # i /\ ~Worked(i))
  /\ heard' = [heard EXCEPT ![i] = FALSE]
  /\ has' = [has EXCEPT ![w] = i]
  /\ Move(w, IF callback[i] THEN "callback" ELSE "service")
  /\ UNCHANGED <<qVars, callback, awaits, ctx, poolVars, using, threadVars>>

\* do_work ends: the client is waited for again, unless the task is in a queue.
Answered(w) ==
  /\ at[w] = "answer" /\ ~Queued(has[w])
  /\ heard' = [heard EXCEPT ![has[w]] = TRUE]
  /\ Leave(w)
  /\ UNCHANGED <<qVars, callback, awaits, ctx, poolVars, using, threadVars>>

\* Or the service or an error ends the session: client_del.
Closed(w) ==
  LET i == has[w] IN
  /\ at[w] = "answer"
  /\ heard' = [heard EXCEPT ![i] = FALSE]
  /\ free' = IF Queued(i) THEN free ELSE free \cup {i}
  /\ Leave(w)
  /\ UNCHANGED <<parkq, readyq, callback, awaits, ctx, poolVars, using, threadVars>>
-----------------------------------------------------------------------------
(* scpool_MGR, called by a service, and its callback *)

\* get_SC_connect(poolno, 0) finds a connection.
Lent(w) ==
  /\ at[w] = "service" /\ ~down
  /\ \E c \in idle : idle' = idle \ {c} /\ using' = [using EXCEPT ![w] = c]
  /\ Move(w, "use")
  /\ UNCHANGED <<qVars, taskVars, down, has, threadVars>>

\* The number of the pool is refused when the callback is set already ("badpool").
BadPool(w) ==
  /\ at[w] = "service" /\ "badpool" \in Upsets
  /\ callback' = [callback EXCEPT ![has[w]] = TRUE]
  /\ Move(w, "answer")
  /\ UNCHANGED <<qVars, heard, awaits, ctx, poolVars, has, using, threadVars>>

\* It finds none, or none that works: the application is to be called back.
Busy(w) ==
  LET i == has[w] IN
  /\ at[w] = "service" /\ (idle = {} \/ down)
  /\ callback' = [callback EXCEPT ![i] = TRUE]
  /\ awaits' = [awaits EXCEPT ![i] = TRUE]
  /\ Move(w, "park")
  /\ UNCHANGED <<qVars, heard, ctx, poolVars, has, using, threadVars>>

\* Mutant: tid is claimed by everybody.
ParkClaim(w) ==
  LET i == has[w] IN
  /\ at[w] = "park"
  /\ parkq' = IF Queued(i) THEN parkq ELSE Append(parkq, i)
  /\ tid' = i
  /\ Move(w, "wake")
  /\ UNCHANGED <<readyq, free, taskVars, poolVars, has, using, wt, job, conn, clr_q>>

\* Under qp->mut the task is parked, and the first to do so claims tid.
Park(w) ==
  LET i == has[w] IN
  /\ at[w] = "park"
  /\ parkq' = IF Queued(i) THEN parkq ELSE Append(parkq, i)
  /\ tid' = IF tid = None THEN i ELSE tid
  /\ Move(w, "wake")
  /\ UNCHANGED <<readyq, free, taskVars, poolVars, has, using, wt, job, conn, clr_q>>

\* Without qp->mut: whoever claimed tid creates the thread, the others signal
\* it.  The service ends with THREAD_ESCAPE.
Wake(w) ==
  /\ at[w] = "wake"
  /\ IF tid = has[w]
     THEN tid' = "thread" /\ wt' = "look" /\ clr_q' = FALSE
     ELSE wt' = (IF wt = "wait" THEN "look" ELSE wt) /\ UNCHANGED <<tid, clr_q>>
  /\ Leave(w)
  /\ UNCHANGED <<qVars, taskVars, poolVars, using, job, conn>>

\* The callback takes the connection that was bound, or learns there is none.
\* It may be faster than wait_sc between bind_sc and TCB_add ("overtake").
Called(w) ==
  LET i == has[w] IN
  /\ at[w] = "callback"
  /\ "overtake" \in Upsets \/ job # i \/ wt \notin {"add", "undo"}
  /\ callback' = [callback EXCEPT ![i] = FALSE]
  /\ awaits' = [awaits EXCEPT ![i] = FALSE]
  /\ using' = [using EXCEPT ![w] = ctx[i]]
  /\ ctx' = [ctx EXCEPT ![i] = None]
  /\ Move(w, IF ctx[i] = None THEN "answer" ELSE "use")
  /\ UNCHANGED <<qVars, heard, poolVars, has, threadVars>>

\* release_SC_connect, by the application.
Done(w) ==
  /\ at[w] = "use"
  /\ idle' = idle \cup {using[w]}
  /\ using' = [using EXCEPT ![w] = None]
  /\ Move(w, "answer")
  /\ UNCHANGED <<qVars, taskVars, down, has, threadVars>>
-----------------------------------------------------------------------------
(* The thread wait_sc *)

\* Under qp->mut: the first task, or the thread waits and forgets clr_q.
Look ==
  /\ wt = "look"
  /\ IF parkq = <<>>
     THEN wt' = "wait" /\ clr_q' = FALSE /\ UNCHANGED <<parkq, job>>
     ELSE /\ wt' = "ask" /\ job' = Head(parkq) /\ parkq' = Tail(parkq)
          /\ UNCHANGED clr_q
  /\ UNCHANGED <<readyq, free, taskVars, poolVars, handVars, tid, conn>>

\* Five minutes without a signal: the thread ends and does not look into the
\* queue again.  A task may have been parked since the time ran out ("idle").
Retire ==
  /\ wt = "wait"
  /\ "idle" \in Upsets \/ (parkq = <<>> /\ \A w \in Hands : at[w] # "wake")
  /\ wt' = "none" /\ tid' = None
  /\ UNCHANGED <<qVars, taskVars, poolVars, handVars, job, conn, clr_q>>

\* Mutant: a pool out of order is not reported to the task.
AskDrop ==
  /\ wt = "ask"
  /\ \/ ~down /\ wt' = "bind" /\ UNCHANGED job
        /\ \/ \E c \in idle : conn' = c /\ idle' = idle \ {c}
           \/ idle = {} /\ UNCHANGED <<conn, idle>>
     \/ down /\ wt' = "look" /\ job' = None /\ UNCHANGED <<conn, idle>>
  /\ UNCHANGED <<qVars, taskVars, down, handVars, tid, clr_q>>

\* get_SC_connect(poolno, 5), unless the pool was found out of order since the
\* queue was empty last: a connection, none after 30 s, or -1.
Ask ==
  /\ wt = "ask"
  /\ wt' = "bind"
  /\ \/ clr_q /\ UNCHANGED <<clr_q, conn, idle>>
     \/ ~clr_q /\ ~down /\ UNCHANGED clr_q
        /\ \/ \E c \in idle : conn' = c /\ idle' = idle \ {c}
           \/ idle = {} /\ UNCHANGED <<conn, idle>>
     \/ ~clr_q /\ down /\ clr_q' = TRUE /\ UNCHANGED <<conn, idle>>
  /\ UNCHANGED <<qVars, taskVars, down, handVars, tid, job>>

\* bind_sc, or the connection is returned.
Bind ==
  /\ wt = "bind"
  /\ wt' = "add"
  /\ awaits' = [awaits EXCEPT ![job] = FALSE]
  /\ \/ awaits[job] /\ ctx' = [ctx EXCEPT ![job] = conn] /\ UNCHANGED <<conn, idle>>
     \/ ~awaits[job] /\ idle' = idle \cup ({conn} \ {None}) /\ conn' = None /\ UNCHANGED ctx
  /\ UNCHANGED <<qVars, heard, callback, down, handVars, tid, job, clr_q>>

\* TCB_add(NULL, TCBno).
Hand ==
  /\ wt = "add"
  /\ Ready(job)
  /\ wt' = IF Queued(job) THEN "undo" ELSE "look"
  /\ IF Queued(job) THEN UNCHANGED <<job, conn>> ELSE job' = None /\ conn' = None
  /\ UNCHANGED <<parkq, free, taskVars, poolVars, handVars, tid, clr_q>>

\* Mutant: a connection whose task is ready already is only unbound.
UndoUnbind ==
  /\ wt = "undo"
  /\ ctx' = [ctx EXCEPT ![job] = None]
  /\ wt' = "look" /\ job' = None /\ conn' = None
  /\ UNCHANGED <<qVars, heard, callback, awaits, poolVars, handVars, tid, clr_q>>

\* The task is in a queue already: unbind_sc and release_SC_connect.
Undo ==
  /\ wt = "undo"
  /\ ctx' = [ctx EXCEPT ![job] = None]
  /\ idle' = idle \cup ({conn} \ {None})
  /\ wt' = "look" /\ job' = None /\ conn' = None
  /\ UNCHANGED <<qVars, heard, callback, awaits, down, handVars, tid, clr_q>>

\* The server of the pool goes away and comes back.
Reach == "down" \in Upsets /\ down' = ~down
         /\ UNCHANGED <<qVars, taskVars, idle, handVars, threadVars>>
-----------------------------------------------------------------------------
Waiter == Look \/ Ask \/ Bind \/ Hand \/ Undo

Handed(w) ==
  \/ TakeTask(w) \/ Answered(w) \/ Closed(w) \/ Lent(w) \/ Busy(w) \/ Park(w)
  \/ Wake(w) \/ Called(w) \/ Done(w)

WaitNext ==
  \/ \E i \in Tasks : Connect(i) \/ Expire(i)
  \/ \E w \in Hands : Handed(w) \/ BadPool(w)
  \/ \E w \in Hands, i \in Tasks : TakeEvent(w, i)
  \/ Waiter \/ Retire \/ Reach

\* Threads that can go on do so, services return, and ready tasks are taken
\* (ReadyServed of TPool).  Clients and timers owe nothing.
WaitFairness ==
  /\ WF_waitVars(Waiter) /\ \A w \in Hands : WF_waitVars(Handed(w))
  /\ SF_waitVars(\E w \in Hands : TakeTask(w))

WaitSpec == WaitInit /\ [][WaitNext]_waitVars /\ WaitFairness
-----------------------------------------------------------------------------
WaitTypeOK ==
  /\ parkq \in Seq(Tasks) /\ readyq \in Seq(Tasks) /\ free \subseteq Tasks
  /\ heard \in [Tasks -> BOOLEAN] /\ callback \in [Tasks -> BOOLEAN]
  /\ awaits \in [Tasks -> BOOLEAN] /\ ctx \in [Tasks -> Conns \cup {None}]
  /\ idle \subseteq Conns /\ down \in BOOLEAN
  /\ tid \in Tasks \cup {None, "thread"}
  /\ at \in [Hands -> {"loop", "service", "park", "wake", "callback", "use", "answer"}]
  /\ has \in [Hands -> Tasks \cup {None}] /\ using \in [Hands -> Conns \cup {None}]
  /\ wt \in {"none", "look", "wait", "ask", "bind", "add", "undo"}
  /\ job \in Tasks \cup {None} /\ conn \in Conns \cup {None} /\ clr_q \in BOOLEAN

\* A connection is free, with the thread, bound to one task or used by one
\* service, whatever the timers do meanwhile (mod_sc.c:123-133).
LentOnce ==
  \A c \in Conns :
    LET holders == {i \in Tasks : ctx[i] = c} \cup {w \in Hands : using[w] = c}
                   \cup {h \in {None} : wt = "bind" /\ conn = c}
    IN IF c \in idle THEN holders = {} ELSE Cardinality(holders) = 1

\* The task a connection is bound to will be called back: it is ready, on its
\* way into the ready queue, or in the hands of a worker.
BoundIsCalled ==
  \A i \in Tasks : ctx[i] # None =>
    /\ callback[i]
    /\ Contains(readyq, i) \/ Worked(i) \/ (job = i /\ wt \in {"add", "undo"})

\* Somebody will look at a queue that holds a task: the thread, or a service
\* that is about to create or to wake it (mod_sc.c:180-185).
NoneStranded ==
  parkq # <<>> =>
    \/ wt \notin {"none", "wait"}
    \/ \E w \in Hands : at[w] = "wake" /\ (wt = "wait" \/ tid = has[w])

\* The wait queue as a whole: what it lends it takes back, whom it parks it looks
\* at again, whichever of timers, workers and thread comes first.
WaitSafe == WaitTypeOK /\ LentOnce /\ BoundIsCalled /\ NoneStranded

\* There is one such thread at most: it is created when there is none.
OneThread == [][tid' = "thread" /\ tid # "thread" => wt = "none"]_waitVars

\* A client whose request was parked is called back, with a connection or not,
\* though the pool's server stays out of reach (mod_sc.c:117).
ParkedServed == \A i \in Tasks : Contains(parkq, i) ~> ~callback[i] \/ i \in free
=============================================================================

------------------------------ MODULE ServerProofs ------------------------------
(***************************************************************************)
(* The wait queue for any number of workers, tasks and connections.  As    *)
(* long as the thread looks into the queue before it ends (LooksBeforeEnd) *)
(* there is one thread at most and nobody is parked while neither it nor a *)
(* service is about to look.  If also the callback does not overtake the   *)
(* thread and clients do not ask again too early (Orderly), a connection   *)
(* is free or lent once and a task it is bound to is called back, whatever *)
(* the timers do and however often the pool's server goes away.            *)
(*                                                                         *)
(* The dynamic modules are safe for any number of threads and modules, as  *)
(* long as nobody loads or searches while another thread puts a module     *)
(* into the tree (OneLoader).                                              *)
(***************************************************************************)
EXTENDS WaitQueue, DmApp, SequenceTheorems, FiniteSetTheorems, TLAPS

-----------------------------------------------------------------------------
(* The wait queue. *)

\* A task that is parked while the thread's waiting time runs out is not
\* overlooked (mod_sc.c:101-108).
LooksBeforeEnd == "idle" \notin Upsets

Working == {"ask", "bind", "add", "undo"}

\* A worker has a task or none, a connection or none; so has the thread.
Placed ==
  /\ \A w \in Hands : at[w] = "loop" <=> has[w] = None
  /\ \A w \in Hands : at[w] = "use" <=> using[w] # None
  /\ wt \in Working => job \in Tasks

\* tid tells of a thread that runs, or of the service that is to create it.
Claimed ==
  /\ tid = "thread" <=> wt # "none"
  /\ tid \in Tasks => \E w \in Hands : at[w] = "wake" /\ has[w] = tid

TypedInv == WaitTypeOK /\ Placed
QueueInv == TypedInv /\ Claimed /\ NoneStranded
-----------------------------------------------------------------------------
(* Types. *)

USE DEF Working

LEMMA TypedInit == WaitInit => TypedInv
<1> SUFFICES ASSUME WaitInit PROVE TypedInv
  OBVIOUS
<1>1. <<>> \in Seq(Tasks)
  OBVIOUS
<1> QED BY <1>1, WaitAssumption DEF WaitInit, TypedInv, WaitTypeOK, Placed

\* What TCB_add makes of the ready queue.
LEMMA ReadyTyped ==
  ASSUME WaitTypeOK, NEW i \in Tasks, Ready(i)
  PROVE  readyq' \in Seq(Tasks)
BY DEF WaitTypeOK, Ready

LEMMA TypedTimers ==
  ASSUME TypedInv, NEW i \in Tasks, Connect(i) \/ Expire(i)
  PROVE  TypedInv'
<1> USE DEF TypedInv, WaitTypeOK, Placed, taskVars, poolVars, handVars, threadVars
<1>1. CASE Connect(i)
  BY <1>1 DEF Connect
<1>2. CASE Expire(i)
  BY <1>2, ReadyTyped DEF Expire
<1> QED BY <1>1, <1>2

LEMMA TypedTake ==
  ASSUME TypedInv, NEW w \in Hands, TakeTask(w) \/ \E i \in Tasks : TakeEvent(w, i)
  PROVE  TypedInv'
<1> USE WaitAssumption
        DEF TypedInv, WaitTypeOK, Placed, Move, qVars, taskVars, poolVars, handVars, threadVars
<1>1. CASE TakeTask(w)
  <2>1. Head(readyq) \in Tasks /\ Tail(readyq) \in Seq(Tasks) /\ at[w] = "loop"
    BY <1>1 DEF TakeTask
  <2>2. /\ readyq' = Tail(readyq)
        /\ UNCHANGED <<parkq, free, callback, awaits, ctx, idle, down, using, tid, wt, job, conn, clr_q>>
    BY <1>1 DEF TakeTask
  <2>3. CASE callback[Head(readyq)]
    <3>1. /\ at' = [at EXCEPT ![w] = "callback"] /\ has' = [has EXCEPT ![w] = Head(readyq)]
          /\ heard' = heard
      BY <1>1, <2>3 DEF TakeTask
    <3> QED BY <2>1, <2>2, <3>1
  <2>4. CASE ~callback[Head(readyq)]
    <3>1. heard' = [heard EXCEPT ![Head(readyq)] = TRUE] /\ at' = at /\ has' = has
      BY <1>1, <2>4 DEF TakeTask
    <3> QED BY <2>1, <2>2, <3>1
  <2> QED BY <2>3, <2>4
<1>2. CASE \E i \in Tasks : TakeEvent(w, i)
  <2>1. PICK i \in Tasks : TakeEvent(w, i)
    BY <1>2
  <2>2. WaitTypeOK'
    BY <2>1 DEF TakeEvent
  <2> QED BY <2>1, <2>2 DEF TakeEvent
<1> QED BY <1>1, <1>2

LEMMA TypedServe ==
  ASSUME TypedInv, NEW w \in Hands,
         Answered(w) \/ Closed(w) \/ Lent(w) \/ BadPool(w) \/ Busy(w)
  PROVE  TypedInv'
<1> USE WaitAssumption
        DEF TypedInv, WaitTypeOK, Placed, Move, Leave, qVars, taskVars, poolVars, handVars, threadVars
<1>a. at[w] # "loop" => has[w] \in Tasks
  OBVIOUS
<1>1. CASE Answered(w)
  BY <1>1, <1>a DEF Answered
<1>2. CASE Closed(w)
  BY <1>2, <1>a DEF Closed
<1>3. CASE Lent(w)
  BY <1>3, <1>a DEF Lent
<1>4. CASE BadPool(w)
  BY <1>4, <1>a DEF BadPool
<1>5. CASE Busy(w)
  BY <1>5, <1>a DEF Busy
<1> QED BY <1>1, <1>2, <1>3, <1>4, <1>5

LEMMA TypedWait ==
  ASSUME TypedInv, NEW w \in Hands, Park(w) \/ Wake(w) \/ Called(w) \/ Done(w)
  PROVE  TypedInv'
<1> USE WaitAssumption
        DEF TypedInv, WaitTypeOK, Placed, Move, Leave, qVars, taskVars, poolVars, handVars, threadVars
<1>a. at[w] # "loop" => has[w] \in Tasks
  OBVIOUS
<1>1. CASE Park(w)
  BY <1>1, <1>a DEF Park
<1>2. CASE Wake(w)
  BY <1>2, <1>a DEF Wake
<1>3. CASE Called(w)
  BY <1>3, <1>a DEF Called
<1>4. CASE Done(w)
  BY <1>4, <1>a DEF Done
<1> QED BY <1>1, <1>2, <1>3, <1>4

LEMMA TypedThread ==
  ASSUME TypedInv, Waiter \/ Retire \/ Reach
  PROVE  TypedInv'
<1> USE WaitAssumption
        DEF TypedInv, WaitTypeOK, Placed, qVars, taskVars, poolVars, handVars, threadVars
<1>1. CASE Look
  <2>1. parkq # <<>> => Head(parkq) \in Tasks /\ Tail(parkq) \in Seq(Tasks)
    OBVIOUS
  <2> QED BY <1>1, <2>1 DEF Look
<1>2. CASE Ask
  BY <1>2 DEF Ask
<1>3. CASE Bind
  BY <1>3 DEF Bind
<1>4. CASE Hand
  <2>1. job \in Tasks /\ readyq' \in Seq(Tasks)
    BY <1>4, ReadyTyped DEF Hand
  <2> QED BY <1>4, <2>1 DEF Hand
<1>5. CASE Undo
  BY <1>5 DEF Undo
<1>6. CASE Retire
  BY <1>6 DEF Retire
<1>7. CASE Reach
  BY <1>7 DEF Reach
<1> QED BY <1>1, <1>2, <1>3, <1>4, <1>5, <1>6, <1>7 DEF Waiter

\* TypedInv is kept by every step.
LEMMA TypedStep == TypedInv /\ [WaitNext]_waitVars => TypedInv'
<1> SUFFICES ASSUME TypedInv, [WaitNext]_waitVars PROVE TypedInv'
  OBVIOUS
<1>1. CASE UNCHANGED waitVars
  BY <1>1 DEF waitVars, qVars, taskVars, poolVars, handVars, threadVars,
              TypedInv, WaitTypeOK, Placed
<1>2. CASE WaitNext
  <2>1. ASSUME NEW w \in Hands, Handed(w) PROVE TypedInv'
    BY <2>1, TypedTake, TypedServe, TypedWait DEF Handed
  <2> QED BY <1>2, <2>1, TypedTimers, TypedTake, TypedServe, TypedThread DEF WaitNext
<1> QED BY <1>1, <1>2
-----------------------------------------------------------------------------
(* The thread and its queue. *)

\* Steps of timers and workers that are at neither end of the waking.
LEMMA Quiet ==
  ASSUME QueueInv, UNCHANGED <<parkq, tid, wt>>,
         \A w \in Hands : at[w] = "wake" => at'[w] = "wake" /\ has'[w] = has[w]
  PROVE  (Claimed /\ NoneStranded)'
BY DEF QueueInv, Claimed, NoneStranded

LEMMA QuietHands ==
  ASSUME QueueInv, NEW w \in Hands,
         \/ TakeTask(w) \/ Answered(w) \/ Closed(w) \/ Lent(w) \/ BadPool(w) \/ Busy(w)
         \/ Called(w) \/ Done(w) \/ \E i \in Tasks : TakeEvent(w, i)
  PROVE  (Claimed /\ NoneStranded)'
<1>1. UNCHANGED <<parkq, tid, wt>>
  BY DEF TakeTask, Answered, Closed, Lent, BadPool, Busy, Called, Done, TakeEvent,
         qVars, threadVars
<1>2. at[w] # "wake"
  BY DEF TakeTask, Answered, Closed, Lent, BadPool, Busy, Called, Done, TakeEvent
<1>3. \A v \in Hands : v # w => at'[v] = at[v] /\ has'[v] = has[v]
  BY DEF TakeTask, Answered, Closed, Lent, BadPool, Busy, Called, Done, TakeEvent,
         Move, Leave, QueueInv, TypedInv, WaitTypeOK
<1> QED BY <1>1, <1>2, <1>3, Quiet

\* The service that parks will wake the thread, or has claimed to create it.
LEMMA ParkKeeps ==
  ASSUME QueueInv, NEW w \in Hands, Park(w)
  PROVE  (Claimed /\ NoneStranded)'
<1> USE WaitAssumption DEF QueueInv, TypedInv, WaitTypeOK, Placed, Park, Move
<1>1. at' = [at EXCEPT ![w] = "wake"] /\ UNCHANGED <<has, wt>> /\ has[w] \in Tasks
  BY DEF handVars
<1>2. Claimed'
  BY <1>1 DEF Claimed
<1>3. wt = "none" => \E v \in Hands : at'[v] = "wake" /\ tid' = has'[v]
  BY <1>1, <1>2 DEF Claimed
<1> QED BY <1>1, <1>2, <1>3 DEF NoneStranded

\* The thread is created or woken, or somebody else will create it.
LEMMA WakeKeeps ==
  ASSUME QueueInv, NEW w \in Hands, Wake(w)
  PROVE  (Claimed /\ NoneStranded)'
<1> USE WaitAssumption DEF QueueInv, TypedInv, WaitTypeOK, Placed, Wake, Move, Leave
<1>1. \A v \in Hands : v # w => at'[v] = at[v] /\ has'[v] = has[v]
  OBVIOUS
<1>2. CASE tid = has[w]
  BY <1>1, <1>2 DEF Claimed, NoneStranded
<1>3. CASE tid # has[w]
  <2>1. Claimed'
    BY <1>1, <1>3 DEF Claimed
  <2>2. parkq' = parkq /\ tid' = tid /\ wt' # "wait"
    BY <1>3 DEF qVars
  <2>3. parkq # <<>> /\ wt = "none" => \E v \in Hands : at'[v] = "wake" /\ tid = has'[v]
    BY <1>1, <1>3 DEF NoneStranded
  <2> QED BY <1>3, <2>1, <2>2, <2>3 DEF NoneStranded
<1> QED BY <1>2, <1>3

\* The thread waits when the queue is empty, and ends when it still is.
LEMMA ThreadKeeps ==
  ASSUME LooksBeforeEnd, QueueInv, Waiter \/ Retire \/ Reach
  PROVE  (Claimed /\ NoneStranded)'
<1> USE WaitAssumption
        DEF QueueInv, TypedInv, WaitTypeOK, qVars, handVars, threadVars, Claimed, NoneStranded
<1>1. CASE Look
  BY <1>1 DEF Look
<1>2. CASE Ask
  BY <1>2 DEF Ask
<1>3. CASE Bind
  BY <1>3 DEF Bind
<1>4. CASE Hand
  BY <1>4 DEF Hand
<1>5. CASE Undo
  BY <1>5 DEF Undo
<1>6. CASE Retire
  BY <1>6 DEF Retire, LooksBeforeEnd
<1>7. CASE Reach
  BY <1>7 DEF Reach
<1> QED BY <1>1, <1>2, <1>3, <1>4, <1>5, <1>6, <1>7 DEF Waiter

\* QueueInv is inductive.
LEMMA QueueInductive ==
  ASSUME LooksBeforeEnd
  PROVE  /\ WaitInit => QueueInv
         /\ QueueInv /\ [WaitNext]_waitVars => QueueInv'
<1>1. WaitInit => QueueInv
  BY TypedInit, WaitAssumption DEF WaitInit, QueueInv, Claimed, NoneStranded
<1>2. ASSUME QueueInv, UNCHANGED waitVars PROVE (Claimed /\ NoneStranded)'
  BY <1>2, Quiet DEF waitVars, qVars, handVars, threadVars
<1>3. ASSUME QueueInv, NEW i \in Tasks, Connect(i) \/ Expire(i) PROVE (Claimed /\ NoneStranded)'
  BY <1>3, Quiet DEF Connect, Expire, handVars, threadVars
<1>4. ASSUME QueueInv, NEW w \in Hands,
             Handed(w) \/ BadPool(w) \/ \E i \in Tasks : TakeEvent(w, i)
      PROVE  (Claimed /\ NoneStranded)'
  BY <1>4, QuietHands, ParkKeeps, WakeKeeps DEF Handed
<1>5. ASSUME QueueInv, WaitNext PROVE (Claimed /\ NoneStranded)'
  BY <1>5, <1>3, <1>4, ThreadKeeps DEF WaitNext
<1> QED BY <1>1, <1>2, <1>5, TypedStep DEF QueueInv
-----------------------------------------------------------------------------
\* The variables of the wait queue keep their ranges.
THEOREM WaitTyped == WaitSpec => []WaitTypeOK
<1>1. TypedInv => WaitTypeOK
  BY DEF TypedInv
<1> QED BY <1>1, TypedInit, TypedStep, PTL DEF WaitSpec

\* Whenever a task is parked, the thread or a service is about to look at the
\* queue (mod_sc.c:76-108, 180-190).
THEOREM QueueWatched == LooksBeforeEnd /\ WaitSpec => []NoneStranded
<1> SUFFICES ASSUME LooksBeforeEnd PROVE WaitSpec => []NoneStranded
  OBVIOUS
<1>1. WaitInit => QueueInv
  BY QueueInductive
<1>2. QueueInv /\ [WaitNext]_waitVars => QueueInv'
  BY QueueInductive
<1>3. QueueInv => NoneStranded
  BY DEF QueueInv
<1> QED BY <1>1, <1>2, <1>3, PTL DEF WaitSpec

\* A pool never has two waiting threads (mod_sc.c:180-186).
THEOREM ThreadAlone == LooksBeforeEnd /\ WaitSpec => OneThread
<1> SUFFICES ASSUME LooksBeforeEnd PROVE WaitSpec => OneThread
  OBVIOUS
<1>1. WaitInit => QueueInv
  BY QueueInductive
<1>2. QueueInv /\ [WaitNext]_waitVars => QueueInv'
  BY QueueInductive
<1>3. QueueInv /\ [WaitNext]_waitVars
        => [tid' = "thread" /\ tid # "thread" => wt = "none"]_waitVars
  BY DEF QueueInv, Claimed
<1> QED BY <1>1, <1>2, <1>3, PTL DEF WaitSpec, OneThread
-----------------------------------------------------------------------------
(* Tasks and the connections that are lent to them. *)

\* The application's callback waits until wait_sc has put the task into the
\* ready queue, and no client asks again while its wait is not over.
Orderly == "overtake" \notin Upsets /\ "again" \notin Upsets

Once(q) == \A m, n \in 1 .. Len(q) : q[m] = q[n] => m = n
Returning(i) == job = i /\ wt \in {"add", "undo"}

\* A task is in one queue, once.
QueuesApart ==
  /\ Once(parkq) /\ Once(readyq)
  /\ \A i \in Tasks : Contains(parkq, i) => ~Contains(readyq, i) /\ i \notin free
  /\ \A i \in Tasks : Contains(readyq, i) => i \notin free

\* A task has one service at a time, until the service has woken the thread.
Does(i, l) == \E w \in Hands : has[w] = i /\ at[w] = l
ServesAlone ==
  \A v, w \in Hands : v # w /\ has[v] = has[w] =>
    /\ at[v] # "service"
    /\ at[v] \in {"park", "wake"} => at[w] \notin {"park", "wake"}

\* The application waits for a connection or has one, and then it is to be
\* called back, and none of its services works or answers.
Marked(i) ==
  /\ awaits[i] => callback[i] /\ ctx[i] = None
  /\ ctx[i] # None => callback[i]
  /\ Does(i, "service") => ~callback[i]
  /\ awaits[i] \/ ctx[i] # None => ~Does(i, "use") /\ ~Does(i, "answer")

\* A bound task is on its way to the callback.  While the thread has it in
\* hands again, it is nowhere else, so that it is not taken for one that the
\* thread has just bound.
Taken(i) == ~Queued(i) /\ Does(i, "callback") /\ ~Does(i, "park")
Bound(i) ==
  /\ ctx[i] # None /\ ~Returning(i) =>
       /\ Contains(readyq, i) \/ Does(i, "callback")
       /\ Contains(parkq, i) => ~Does(i, "park")
  /\ job = i =>
       /\ wt \in {"ask", "bind"} /\ ctx[i] # None => Taken(i)
       /\ wt = "add" => ctx[i] = conn \/ (conn = None /\ Taken(i))
       /\ wt = "undo" => ctx[i] = conn

\* Connections that are lent are not free and lent once.
Apart ==
  /\ \A i \in Tasks : ctx[i] \notin idle /\ \A w \in Hands : ctx[i] # None => ctx[i] # using[w]
  /\ \A w \in Hands : using[w] \notin idle
  /\ \A i, j \in Tasks : i # j /\ ctx[i] # None => ctx[i] # ctx[j]
  /\ \A v, w \in Hands : v # w /\ using[v] # None => using[v] # using[w]
  /\ wt = "bind" /\ conn # None =>
       conn \notin idle /\ (\A i \in Tasks : ctx[i] # conn) /\ \A w \in Hands : using[w] # conn
  /\ wt \notin {"bind", "add", "undo"} => conn = None
Accounted(c) ==
  \/ c \in idle \/ (wt = "bind" /\ conn = c)
  \/ (\E i \in Tasks : ctx[i] = c) \/ \E w \in Hands : using[w] = c

TasksInv == TypedInv /\ QueuesApart /\ ServesAlone /\ \A i \in Tasks : Marked(i) /\ Bound(i)
LendingInv == TasksInv /\ Apart /\ \A c \in Conns : Accounted(c)
-----------------------------------------------------------------------------
(* Queues. *)

\* What a queue holds after Append, and that it holds it once.
LEMMA Appended ==
  ASSUME NEW q \in Seq(Tasks), NEW i \in Tasks
  PROVE  /\ \A j : Contains(Append(q, i), j) <=> Contains(q, j) \/ j = i
         /\ Once(q) /\ ~Contains(q, i) => Once(Append(q, i))
<1>1. /\ Len(q) \in Nat /\ Len(Append(q, i)) = Len(q) + 1
      /\ \A k \in 1 .. Len(q) : Append(q, i)[k] = q[k]
      /\ Append(q, i)[Len(q) + 1] = i
  BY AppendProperties, LenProperties
<1>2. \A j : Contains(Append(q, i), j) <=> Contains(q, j) \/ j = i
  BY <1>1 DEF Contains
<1>3. Once(q) /\ ~Contains(q, i) => Once(Append(q, i))
  BY <1>1 DEF Contains, Once
<1> QED BY <1>2, <1>3

\* What it holds after its head was taken.
LEMMA Beheaded ==
  ASSUME NEW q \in Seq(Tasks), q # <<>>, Once(q)
  PROVE  /\ Head(q) \in Tasks /\ Contains(q, Head(q))
         /\ \A j : Contains(Tail(q), j) <=> Contains(q, j) /\ j # Head(q)
         /\ Once(Tail(q))
<1>1. /\ Head(q) \in Tasks /\ Head(q) = q[1]
      /\ Len(q) \in Nat \ {0} /\ Len(Tail(q)) = Len(q) - 1
      /\ \A k \in 1 .. Len(q) - 1 : Tail(q)[k] = q[k + 1]
  BY HeadTailProperties, EmptySeq, LenProperties
<1>2. Contains(q, Head(q))
  BY <1>1 DEF Contains
<1>3. Once(Tail(q))
  BY <1>1 DEF Once
<1>4. ASSUME NEW j PROVE Contains(Tail(q), j) <=> Contains(q, j) /\ j # Head(q)
  <2>1. ASSUME Contains(Tail(q), j) PROVE Contains(q, j) /\ j # Head(q)
    BY <1>1, <2>1 DEF Contains, Once
  <2>2. ASSUME Contains(q, j), j # Head(q) PROVE Contains(Tail(q), j)
    <3>1. PICK k \in 1 .. Len(q) : q[k] = j
      BY <2>2 DEF Contains
    <3>2. k - 1 \in 1 .. Len(q) - 1 /\ Tail(q)[k - 1] = j
      BY <3>1, <2>2, <1>1
    <3> QED BY <3>2, <1>1 DEF Contains
  <2> QED BY <2>1, <2>2
<1> QED BY <1>1, <1>2, <1>3, <1>4

\* A task that TCB_add makes ready is in the ready queue once.
LEMMA MadeReady ==
  ASSUME TasksInv, NEW i \in Tasks, Ready(i), UNCHANGED <<parkq, free>>
  PROVE  /\ QueuesApart'
         /\ \A j \in Tasks : Contains(readyq, j)' <=> Contains(readyq, j) \/ (j = i /\ ~Queued(i))
<1>1. CASE Queued(i)
  BY <1>1 DEF Ready, TasksInv, QueuesApart, Contains
<1>2. CASE ~Queued(i)
  <2>1. readyq' = Append(readyq, i) /\ readyq \in Seq(Tasks)
    BY <1>2 DEF Ready, TasksInv, TypedInv, WaitTypeOK
  <2>2. \A j : Contains(readyq', j) <=> Contains(readyq, j) \/ j = i
    BY <2>1, Appended
  <2>3. Once(readyq')
    BY <2>1, <1>2, Appended DEF TasksInv, QueuesApart, Queued
  <2>4. \A j : Contains(readyq, j)' <=> Contains(readyq', j)
    BY DEF Contains
  <2>5. \A j : Contains(parkq, j)' <=> Contains(parkq, j)
    BY DEF Contains
  <2>6. QueuesApart'
    BY <2>2, <2>3, <2>4, <2>5, <1>2 DEF TasksInv, QueuesApart, Queued, Once
  <2> QED BY <2>2, <2>4, <2>6, <1>2
<1> QED BY <1>1, <1>2
-----------------------------------------------------------------------------
(* A step is about one task; nothing changes for the others. *)

SameQueues(j) ==
  /\ Contains(parkq, j)' <=> Contains(parkq, j)
  /\ Contains(readyq, j)' <=> Contains(readyq, j)
  /\ j \in free' <=> j \in free
SameMarks(j) == ctx'[j] = ctx[j] /\ callback'[j] = callback[j] /\ awaits'[j] = awaits[j]
SameJob(j) ==
  /\ Returning(j)' <=> Returning(j)
  /\ job' = j /\ wt' \in Working => job = j /\ wt' = wt /\ conn' = conn
OnlyMoves(w) == \A v \in Hands : v # w => at'[v] = at[v] /\ has'[v] = has[v]

LEMMA Untouched ==
  ASSUME NEW j \in Tasks, Marked(j), Bound(j), SameQueues(j), SameMarks(j), SameJob(j),
         \A w \in Hands : (has'[w] = j <=> has[w] = j) /\ (has[w] = j => at'[w] = at[w])
  PROVE  (Marked(j) /\ Bound(j))'
<1>1. \A l : Does(j, l)' <=> Does(j, l)
  BY DEF Does
<1>2. Queued(j)' <=> Queued(j)
  BY DEF SameQueues, Queued
<1>3. Marked(j)'
  BY <1>1 DEF Marked, SameMarks
<1>4. Taken(j)' <=> Taken(j)
  BY <1>1, <1>2 DEF Taken
<1>5. (ctx[j] # None /\ ~Returning(j) =>
         /\ Contains(readyq, j) \/ Does(j, "callback")
         /\ Contains(parkq, j) => ~Does(j, "park"))'
  BY <1>1 DEF Bound, SameQueues, SameMarks, SameJob
<1>6. ASSUME job' = j
      PROVE  /\ wt' \in {"ask", "bind"} /\ ctx'[j] # None => Taken(j)'
             /\ wt' = "add" => ctx'[j] = conn' \/ (conn' = None /\ Taken(j)')
             /\ wt' = "undo" => ctx'[j] = conn'
  <2>1. CASE wt' \in Working
    BY <1>4, <1>6, <2>1 DEF Bound, SameMarks, SameJob
  <2>2. CASE wt' \notin Working
    BY <2>2 DEF Working
  <2> QED BY <2>1, <2>2
<1> QED BY <1>3, <1>5, <1>6 DEF Bound

\* A worker begins, goes on or ends to work for task i.
LEMMA OthersRest ==
  ASSUME TasksInv, NEW w \in Hands, NEW i, OnlyMoves(w),
         has[w] \in {None, i}, has'[w] \in {None, i},
         \A j \in Tasks : j # i => SameQueues(j) /\ SameMarks(j),
         \A j \in Tasks : SameJob(j)
  PROVE  \A j \in Tasks : j # i => (Marked(j) /\ Bound(j))'
<1> SUFFICES ASSUME NEW j \in Tasks, j # i PROVE (Marked(j) /\ Bound(j))'
  OBVIOUS
<1>1. \A v \in Hands : (has'[v] = j <=> has[v] = j) /\ (has[v] = j => at'[v] = at[v])
  BY WaitAssumption DEF OnlyMoves
<1> QED BY <1>1, Untouched DEF TasksInv

\* The queues stay as they are.
LEMMA QueuesRest ==
  ASSUME UNCHANGED qVars
  PROVE  /\ \A j : SameQueues(j) /\ (Queued(j)' <=> Queued(j))
         /\ QueuesApart => QueuesApart'
BY DEF qVars, SameQueues, Queued, Contains, QueuesApart, Once
-----------------------------------------------------------------------------
(* Workers. *)

TasksKept == QueuesApart' /\ ServesAlone' /\ \A i \in Tasks : (Marked(i) /\ Bound(i))'
\* A worker whose task has no other service goes on, or leaves it.
LEMMA ServesOn ==
  ASSUME TasksInv, NEW w \in Hands, OnlyMoves(w), TypedInv', has'[w] \in {None, has[w]},
         at'[w] # "service", at'[w] \in {"park", "wake"} => at[w] \in {"service", "park"}
  PROVE  ServesAlone'
BY DEF TasksInv, TypedInv, Placed, ServesAlone, OnlyMoves

\* A task without a connection, none bound and none waited for, is at rest.
LEMMA Unbound ==
  ASSUME NEW i \in Tasks, Bound(i), ctx[i] = None, ctx'[i] = None, UNCHANGED conn, SameJob(i)
  PROVE  Bound(i)'
BY DEF Bound, SameJob, Working

LEMMA InService ==
  ASSUME TasksInv, NEW w \in Hands, NEW i \in Tasks, has[w] = i, at[w] = "service"
  PROVE  /\ ~callback[i] /\ ~awaits[i] /\ ctx[i] = None
         /\ \A v \in Hands : v # w => has[v] # i
BY DEF TasksInv, Marked, Does, ServesAlone

\* One that leaves the queues and the thread alone.
LEMMA AtWork ==
  ASSUME TasksInv, NEW w \in Hands, NEW i \in Tasks, has[w] = i,
         Answered(w) \/ Lent(w) \/ BadPool(w) \/ Busy(w) \/ Done(w)
  PROVE  TasksKept
<1>1. /\ i \in Tasks /\ has \in [Hands -> Tasks \cup {None}]
      /\ at \in [Hands -> {"loop", "service", "park", "wake", "callback", "use", "answer"}]
  BY WaitAssumption DEF TasksInv, TypedInv, WaitTypeOK, Placed, Answered, Lent, BadPool, Busy, Done
<1>2. /\ callback \in [Tasks -> BOOLEAN] /\ awaits \in [Tasks -> BOOLEAN]
      /\ ctx \in [Tasks -> Conns \cup {None}]
  BY DEF TasksInv, TypedInv, WaitTypeOK
<1>3. OnlyMoves(w) /\ has'[w] \in {None, i} /\ UNCHANGED <<parkq, readyq, free, job, wt, conn, ctx>>
  BY <1>1 DEF OnlyMoves, Answered, Lent, BadPool, Busy, Done, Move, Leave, qVars, threadVars,
     taskVars
<1>4. \A j \in Tasks : SameQueues(j) /\ SameJob(j) /\ (Queued(j)' <=> Queued(j))
  BY <1>3, QueuesRest DEF SameJob, qVars, Returning
<1>5. \A j \in Tasks : j # i => SameMarks(j)
  BY <1>1, <1>2, <1>3 DEF SameMarks, Answered, Lent, BadPool, Busy, Done, taskVars
<1>6. \A j \in Tasks : j # i => (Marked(j) /\ Bound(j))'
  BY <1>1, <1>3, <1>4, <1>5, OthersRest
<1>7. (Marked(i) /\ Bound(i))'
  <2> USE <1>1, <1>2, <1>3, <1>4 DEF TasksInv, Marked, Bound, Taken, SameQueues, SameJob, ServesAlone, TypedInv
  <2>1. CASE Answered(w)
    <3>1. awaits[i] \/ ctx[i] # None => FALSE
      BY <2>1 DEF Answered, Does
    <3>2. callback'[i] = callback[i] /\ awaits'[i] = awaits[i]
      BY <2>1 DEF Answered
    <3>3. Does(i, "service")' => Does(i, "service")
      BY <2>1 DEF Answered, Does, Leave, Move
    <3> QED BY <3>1, <3>2, <3>3
  <2>2. CASE Done(w)
    <3>1. awaits[i] \/ ctx[i] # None => FALSE
      BY <2>2 DEF Done, Does
    <3>2. callback'[i] = callback[i] /\ awaits'[i] = awaits[i]
      BY <2>2 DEF Done, taskVars
    <3>3. Does(i, "service")' => Does(i, "service")
      BY <2>2 DEF Done, Does, Move
    <3> QED BY <3>1, <3>2, <3>3
  <2>3. CASE at[w] = "service"
    <3>1. /\ ~callback[i] /\ ~awaits[i] /\ ctx[i] = None
          /\ \A v \in Hands : v # w => has[v] # i
      BY <2>3, InService
    <3>2. Bound(i)'
      BY <3>1, Unbound
    <3>3. Marked(i)'
      BY <2>3, <3>1 DEF Marked, Does, OnlyMoves, Answered, Lent, BadPool, Busy, Done, Move, taskVars
    <3> QED BY <3>2, <3>3
  <2> QED BY <2>1, <2>2, <2>3 DEF Lent, BadPool, Busy
<1>8. ServesAlone'
  <2>1. TypedInv'
    BY TypedServe, TypedWait DEF TasksInv
  <2>2. at'[w] # "service" /\ (at'[w] \in {"park", "wake"} => at[w] \in {"service", "park"})
    BY <1>1 DEF Answered, Lent, BadPool, Busy, Done, Move, Leave
  <2> QED BY <1>1, <1>3, <2>1, <2>2, ServesOn
<1> QED BY <1>3, <1>6, <1>7, <1>8, QueuesRest DEF TasksKept, TasksInv, qVars

\* One whose session ends.
LEMMA AtClose ==
  ASSUME TasksInv, NEW w \in Hands, NEW i \in Tasks, has[w] = i, Closed(w)
  PROVE  TasksKept
<1>1. /\ has \in [Hands -> Tasks \cup {None}] /\ at[w] = "answer"
      /\ at \in [Hands -> {"loop", "service", "park", "wake", "callback", "use", "answer"}]
  BY DEF TasksInv, TypedInv, WaitTypeOK, Closed
<1>2. /\ OnlyMoves(w) /\ has'[w] = None /\ at'[w] = "loop"
      /\ UNCHANGED <<parkq, readyq, job, wt, conn, ctx, callback, awaits>>
      /\ free' = IF Queued(i) THEN free ELSE free \cup {i}
  BY <1>1 DEF OnlyMoves, Closed, Move, Leave, threadVars
<1>3. \A j : /\ Contains(parkq, j)' <=> Contains(parkq, j)
            /\ Contains(readyq, j)' <=> Contains(readyq, j)
  BY <1>2 DEF Contains
<1>4. \A j \in Tasks : SameJob(j) /\ SameMarks(j) /\ (j # i => SameQueues(j))
  BY <1>2, <1>3 DEF SameJob, SameMarks, SameQueues, Returning
<1>5. \A j \in Tasks : j # i => (Marked(j) /\ Bound(j))'
  BY <1>1, <1>2, <1>4, OthersRest
<1>6. ~awaits[i] /\ ctx[i] = None
  BY <1>1 DEF TasksInv, Marked, Does
<1>7. Bound(i)'
  BY <1>2, <1>4, <1>6, Unbound DEF TasksInv
<1>8. Marked(i)'
  BY <1>2, <1>6 DEF Marked, Does, OnlyMoves, TasksInv
<1>9. QueuesApart'
  BY <1>2, <1>3 DEF TasksInv, QueuesApart, Queued, Once
<1>10. ServesAlone'
  <2>1. TypedInv'
    BY TypedServe DEF TasksInv
  <2> QED BY <1>1, <1>2, <2>1, ServesOn
<1> QED BY <1>5, <1>7, <1>8, <1>9, <1>10 DEF TasksKept

\* A client's request is taken.
LEMMA AtEvent ==
  ASSUME Orderly, TasksInv, NEW w \in Hands, NEW i \in Tasks, TakeEvent(w, i)
  PROVE  TasksKept
<1>1. /\ has \in [Hands -> Tasks \cup {None}] /\ has[w] = None
      /\ at \in [Hands -> {"loop", "service", "park", "wake", "callback", "use", "answer"}]
  BY DEF TasksInv, TypedInv, WaitTypeOK, TakeEvent, Placed
<1>2. /\ OnlyMoves(w) /\ has'[w] = i /\ at'[w] = (IF callback[i] THEN "callback" ELSE "service")
      /\ UNCHANGED <<parkq, readyq, free, job, wt, conn, ctx, callback, awaits>>
      /\ \A v \in Hands : has[v] # i
  BY <1>1 DEF OnlyMoves, TakeEvent, Move, threadVars, qVars, Orderly, Worked
<1>3. \A j \in Tasks : SameQueues(j) /\ SameJob(j) /\ SameMarks(j) /\ (Queued(j)' <=> Queued(j))
  BY <1>2, QueuesRest DEF SameJob, SameMarks, qVars, Returning
<1>4. \A j \in Tasks : j # i => (Marked(j) /\ Bound(j))'
  BY <1>1, <1>2, <1>3, OthersRest
<1>5. Marked(i)'
  BY <1>2 DEF TasksInv, Marked, Does, OnlyMoves
<1>6. Bound(i)'
  <2>1. CASE ctx[i] = None
    BY <1>2, <1>3, <2>1, Unbound DEF TasksInv
  <2>2. CASE ctx[i] # None
    <3>1. callback[i] /\ ~Does(i, "callback")
      BY <1>2, <2>2 DEF TasksInv, Marked, Does
    <3>2. ~Does(i, "park")'
      BY <1>2, <3>1 DEF Does, OnlyMoves
    <3> QED BY <1>2, <1>3, <2>2, <3>1, <3>2 DEF TasksInv, Bound, Taken, SameQueues, SameJob
  <2> QED BY <2>1, <2>2
<1>7. ServesAlone'
  BY <1>2 DEF TasksInv, ServesAlone, OnlyMoves
<1> QED BY <1>2, <1>4, <1>5, <1>6, <1>7, QueuesRest DEF TasksKept, TasksInv, qVars

\* The first ready task is taken.
LEMMA AtTake ==
  ASSUME TasksInv, NEW w \in Hands, TakeTask(w)
  PROVE  TasksKept
<1>0. PICK i \in Tasks : i = Head(readyq)
  BY Beheaded DEF TakeTask, TasksInv, TypedInv, WaitTypeOK, QueuesApart
<1>1. /\ has \in [Hands -> Tasks \cup {None}] /\ has[w] = None /\ at[w] = "loop"
      /\ at \in [Hands -> {"loop", "service", "park", "wake", "callback", "use", "answer"}]
      /\ readyq \in Seq(Tasks) /\ Once(readyq) /\ readyq # <<>>
  BY DEF TasksInv, TypedInv, WaitTypeOK, TakeTask, Placed, QueuesApart
<1>2. /\ OnlyMoves(w)
      /\ UNCHANGED <<parkq, free, job, wt, conn, ctx, callback, awaits>>
      /\ readyq' = Tail(readyq)
      /\ \/ callback[i] /\ has'[w] = i /\ at'[w] = "callback"
         \/ ~callback[i] /\ has' = has /\ at' = at
  BY <1>0, <1>1 DEF OnlyMoves, TakeTask, Move, threadVars
<1>3. /\ \A j : Contains(parkq, j)' <=> Contains(parkq, j)
      /\ \A j : Contains(readyq, j)' <=> Contains(readyq, j) /\ j # i
      /\ Once(readyq)' /\ Contains(readyq, i)
  <2>1. \A j : Contains(Tail(readyq), j) <=> Contains(readyq, j) /\ j # i
    BY <1>0, <1>1, Beheaded
  <2>2. Once(Tail(readyq)) /\ Contains(readyq, i)
    BY <1>0, <1>1, Beheaded
  <2> QED BY <1>2, <2>1, <2>2 DEF Contains, Once
<1>4. \A j \in Tasks : SameJob(j) /\ SameMarks(j) /\ (j # i => SameQueues(j))
  BY <1>2, <1>3 DEF SameJob, SameMarks, SameQueues, Returning
<1>5. \A j \in Tasks : j # i => (Marked(j) /\ Bound(j))'
  <2>1. has'[w] \in {None, i}
    BY <1>1, <1>2
  <2> QED BY <1>1, <1>2, <1>4, <2>1, OthersRest
<1>6. Marked(i)'
  BY <1>1, <1>2 DEF TasksInv, Marked, Does, OnlyMoves
<1>7. Bound(i)'
  <2>1. CASE ctx[i] = None
    BY <1>2, <1>4, <2>1, Unbound DEF TasksInv
  <2>2. CASE ctx[i] # None
    <3>1. callback[i] /\ Queued(i)
      BY <1>3, <2>2 DEF TasksInv, Marked, Queued
    <3>2. Does(i, "callback")'
      BY <1>2, <3>1 DEF Does
    <3>3. ~Contains(parkq, i)'
      BY <1>3 DEF TasksInv, QueuesApart
    <3> QED BY <1>2, <1>4, <2>2, <3>1, <3>2, <3>3 DEF TasksInv, Bound, Taken, SameJob
  <2> QED BY <2>1, <2>2
<1>8. ServesAlone'
  <2>1. TypedInv'
    BY TypedTake DEF TasksInv
  <2>2. \A v \in Hands : has[v] = i /\ callback[i] => at[v] # "service"
    BY DEF TasksInv, Marked, Does
  <2> QED BY <1>1, <1>2, <2>1, <2>2 DEF TasksInv, ServesAlone, OnlyMoves
<1>9. QueuesApart'
  BY <1>2, <1>3 DEF TasksInv, QueuesApart, Once
<1> QED BY <1>5, <1>6, <1>7, <1>8, <1>9 DEF TasksKept

\* A service parks its task.
LEMMA AtPark ==
  ASSUME TasksInv, NEW w \in Hands, NEW i \in Tasks, has[w] = i, Park(w)
  PROVE  TasksKept
<1>1. /\ at \in [Hands -> {"loop", "service", "park", "wake", "callback", "use", "answer"}]
      /\ parkq \in Seq(Tasks) /\ Once(parkq) /\ at[w] = "park"
  BY DEF TasksInv, TypedInv, WaitTypeOK, Park, QueuesApart
<1>2. /\ OnlyMoves(w) /\ has' = has /\ at'[w] = "wake"
      /\ UNCHANGED <<readyq, free, job, wt, conn, ctx, callback, awaits>>
      /\ parkq' = IF Queued(i) THEN parkq ELSE Append(parkq, i)
  BY <1>1 DEF OnlyMoves, Park, Move, taskVars
<1>3. /\ \A j : Contains(readyq, j)' <=> Contains(readyq, j)
      /\ \A j : Contains(parkq, j)' <=> Contains(parkq, j) \/ (j = i /\ ~Queued(i))
      /\ Once(parkq)'
  <2>1. CASE Queued(i)
    BY <1>1, <1>2, <2>1 DEF Contains, Once
  <2>2. CASE ~Queued(i)
    <3>1. ~Contains(parkq, i) /\ parkq' = Append(parkq, i)
      BY <1>2, <2>2 DEF Queued
    <3>2. \A j : Contains(Append(parkq, i), j) <=> Contains(parkq, j) \/ j = i
      BY <1>1, Appended
    <3>3. Once(Append(parkq, i))
      BY <1>1, <3>1, Appended
    <3> QED BY <1>2, <2>2, <3>1, <3>2, <3>3 DEF Contains, Once
  <2> QED BY <2>1, <2>2
<1>4. \A j \in Tasks : SameJob(j) /\ SameMarks(j) /\ (j # i => SameQueues(j))
  BY <1>2, <1>3 DEF SameJob, SameMarks, SameQueues, Returning
<1>5. \A j \in Tasks : j # i => (Marked(j) /\ Bound(j))'
  BY <1>2, <1>4, OthersRest
<1>6. Marked(i)'
  BY <1>2 DEF TasksInv, Marked, Does, OnlyMoves
<1>7. Bound(i)'
  <2>1. CASE ctx[i] = None
    BY <1>2, <1>4, <2>1, Unbound DEF TasksInv
  <2>2. CASE ctx[i] # None
    <3>1. Does(i, "park") /\ ~Does(i, "park")'
      BY <1>1, <1>2 DEF Does, OnlyMoves, TasksInv, ServesAlone
    <3>2. Does(i, "callback")' <=> Does(i, "callback")
      BY <1>1, <1>2 DEF Does, OnlyMoves
    <3> QED BY <1>2, <1>3, <1>4, <2>2, <3>1, <3>2 DEF TasksInv, Bound, Taken, SameJob
  <2> QED BY <2>1, <2>2
<1>8. ServesAlone'
  <2>1. TypedInv'
    BY TypedWait DEF TasksInv
  <2> QED BY <1>1, <1>2, <2>1, ServesOn
<1>9. QueuesApart'
  BY <1>2, <1>3 DEF TasksInv, QueuesApart, Once, Queued
<1> QED BY <1>5, <1>6, <1>7, <1>8, <1>9 DEF TasksKept

\* It wakes or creates the thread, and ends.
LEMMA AtWake ==
  ASSUME TasksInv, NEW w \in Hands, NEW i \in Tasks, has[w] = i, Wake(w), Claimed
  PROVE  TasksKept
<1>1. /\ at \in [Hands -> {"loop", "service", "park", "wake", "callback", "use", "answer"}]
      /\ has \in [Hands -> Tasks \cup {None}] /\ at[w] = "wake"
  BY DEF TasksInv, TypedInv, WaitTypeOK, Wake
<1>2. /\ OnlyMoves(w) /\ has'[w] = None /\ at'[w] = "loop"
      /\ UNCHANGED <<parkq, readyq, free, job, conn, ctx, callback, awaits>>
      /\ wt' = wt \/ (wt \in {"none", "wait"} /\ wt' = "look")
  BY <1>1, WaitAssumption DEF OnlyMoves, Wake, Leave, Move, taskVars, qVars, Claimed
<1>3. \A j \in Tasks : SameQueues(j) /\ SameJob(j) /\ SameMarks(j) /\ (Queued(j)' <=> Queued(j))
  BY <1>2, QueuesRest DEF SameJob, SameMarks, qVars, Returning, Working
<1>4. \A j \in Tasks : j # i => (Marked(j) /\ Bound(j))'
  BY <1>2, <1>3, OthersRest
<1>5. \A l : l # "wake" => (Does(i, l)' <=> Does(i, l))
  BY <1>1, <1>2, WaitAssumption DEF Does, OnlyMoves
<1>6. Marked(i)'
  BY <1>2, <1>5 DEF TasksInv, Marked
<1>7. Bound(i)'
  BY <1>2, <1>3, <1>5 DEF TasksInv, Bound, Taken, SameJob, SameQueues, Working
<1>8. ServesAlone'
  <2>1. TypedInv'
    BY TypedWait DEF TasksInv
  <2> QED BY <1>1, <1>2, <2>1, ServesOn
<1> QED BY <1>2, <1>4, <1>6, <1>7, <1>8, QueuesRest DEF TasksKept, TasksInv, qVars

\* The application is called back.
LEMMA AtCallback ==
  ASSUME Orderly, TasksInv, NEW w \in Hands, NEW i \in Tasks, has[w] = i, Called(w)
  PROVE  TasksKept
<1>1. /\ at \in [Hands -> {"loop", "service", "park", "wake", "callback", "use", "answer"}]
      /\ callback \in [Tasks -> BOOLEAN] /\ awaits \in [Tasks -> BOOLEAN]
      /\ ctx \in [Tasks -> Conns \cup {None}] /\ at[w] = "callback"
  BY DEF TasksInv, TypedInv, WaitTypeOK, Called
<1>2. /\ OnlyMoves(w) /\ has' = has /\ at'[w] \in {"answer", "use"}
      /\ UNCHANGED <<parkq, readyq, free, job, wt, conn>>
      /\ ctx'[i] = None /\ ~callback'[i] /\ ~awaits'[i] /\ ~Returning(i)
      /\ \A j \in Tasks : j # i => SameMarks(j)
  BY <1>1 DEF OnlyMoves, Called, Move, qVars, threadVars, Orderly, SameMarks, Returning
<1>3. \A j \in Tasks : SameQueues(j) /\ SameJob(j) /\ (Queued(j)' <=> Queued(j))
  BY <1>2, QueuesRest DEF SameJob, qVars, Returning
<1>4. \A j \in Tasks : j # i => (Marked(j) /\ Bound(j))'
  BY <1>2, <1>3, OthersRest
<1>5. Marked(i)'
  BY <1>2 DEF Marked
<1>6. Bound(i)'
  BY <1>2 DEF Bound, Returning
<1>7. ServesAlone'
  <2>1. TypedInv'
    BY TypedWait DEF TasksInv
  <2> QED BY <1>1, <1>2, <2>1, ServesOn
<1> QED BY <1>2, <1>4, <1>5, <1>6, <1>7, QueuesRest DEF TasksKept, TasksInv, qVars
-----------------------------------------------------------------------------
(* Clients and timers. *)

LEMMA AtConnect ==
  ASSUME TasksInv, NEW i \in Tasks, Connect(i)
  PROVE  TasksKept
<1>1. /\ UNCHANGED <<parkq, readyq, has, at, job, wt, conn, ctx, callback, awaits>>
      /\ i \in free /\ free' = free \ {i}
  BY DEF Connect, handVars, threadVars
<1>2. \A j : /\ Contains(parkq, j)' <=> Contains(parkq, j)
            /\ Contains(readyq, j)' <=> Contains(readyq, j)
  BY <1>1 DEF Contains
<1>3. \A j \in Tasks : SameJob(j) /\ SameMarks(j) /\ (j # i => SameQueues(j))
  BY <1>1, <1>2 DEF SameJob, SameMarks, SameQueues, Returning
<1>4. \A j \in Tasks : j # i => (Marked(j) /\ Bound(j))'
  BY <1>1, <1>3, Untouched DEF TasksInv
<1>5. \A l : Does(i, l)' <=> Does(i, l)
  BY <1>1 DEF Does
<1>6. Marked(i)' /\ Bound(i)'
  BY <1>1, <1>2, <1>3, <1>5 DEF TasksInv, Marked, Bound, Taken, SameJob, Queued
<1>7. QueuesApart' /\ ServesAlone'
  BY <1>1, <1>2 DEF TasksInv, QueuesApart, ServesAlone, Once
<1> QED BY <1>4, <1>6, <1>7 DEF TasksKept

LEMMA AtExpire ==
  ASSUME TasksInv, NEW i \in Tasks, Expire(i)
  PROVE  TasksKept
<1>1. /\ UNCHANGED <<parkq, free, has, at, job, wt, conn, ctx, callback, awaits>>
      /\ Ready(i) /\ ~Queued(i) /\ ~Worked(i)
  BY DEF Expire, taskVars, handVars, threadVars
<1>2. /\ QueuesApart'
      /\ \A j \in Tasks : Contains(readyq, j)' <=> Contains(readyq, j) \/ j = i
      /\ \A j : Contains(parkq, j)' <=> Contains(parkq, j)
  BY <1>1, MadeReady DEF Contains
<1>3. \A j \in Tasks : SameJob(j) /\ SameMarks(j) /\ (j # i => SameQueues(j))
  BY <1>1, <1>2 DEF SameJob, SameMarks, SameQueues, Returning
<1>4. \A j \in Tasks : j # i => (Marked(j) /\ Bound(j))'
  BY <1>1, <1>3, Untouched DEF TasksInv
<1>5. \A l : ~Does(i, l) /\ ~Does(i, l)'
  BY <1>1 DEF Does, Worked
<1>6. Marked(i)' /\ Bound(i)'
  BY <1>1, <1>2, <1>3, <1>5 DEF TasksInv, Marked, Bound, Taken, SameJob
<1>7. ServesAlone'
  BY <1>1 DEF TasksInv, ServesAlone
<1> QED BY <1>2, <1>4, <1>6, <1>7 DEF TasksKept
-----------------------------------------------------------------------------
(* The thread. *)

\* Workers rest and the thread is about task i.
LEMMA ThreadRests ==
  ASSUME TasksInv, UNCHANGED handVars, NEW i,
         \A j \in Tasks : j # i => SameQueues(j) /\ SameMarks(j) /\ SameJob(j)
  PROVE  /\ ServesAlone' /\ \A j \in Tasks : j # i => (Marked(j) /\ Bound(j))'
         /\ \A j, l : Does(j, l)' <=> Does(j, l)
<1>1. has' = has /\ at' = at
  BY DEF handVars
<1>2. ServesAlone'
  BY <1>1 DEF TasksInv, ServesAlone
<1>3. ASSUME NEW j \in Tasks, j # i PROVE (Marked(j) /\ Bound(j))'
  BY <1>1, <1>3, Untouched DEF TasksInv
<1> QED BY <1>1, <1>2, <1>3 DEF Does

LEMMA AtLook ==
  ASSUME TasksInv, Look
  PROVE  TasksKept
<1>1. /\ UNCHANGED <<handVars, readyq, free, conn, ctx, callback, awaits>> /\ wt = "look"
      /\ parkq \in Seq(Tasks) /\ Once(parkq)
  BY DEF Look, taskVars, TasksInv, TypedInv, WaitTypeOK, QueuesApart
<1>2. CASE parkq = <<>>
  <2>1. UNCHANGED <<parkq, job>> /\ wt' = "wait"
    BY <1>2 DEF Look
  <2>2. \A j \in Tasks : SameQueues(j) /\ SameMarks(j) /\ SameJob(j)
    BY <1>1, <2>1, QueuesRest DEF SameMarks, SameJob, Working, qVars, Returning
  <2> QED BY <1>1, <2>1, <2>2, ThreadRests, QueuesRest, WaitAssumption DEF TasksKept, TasksInv,
             qVars
<1>3. CASE parkq # <<>>
  <2>0. PICK i \in Tasks : i = Head(parkq)
    BY <1>1, <1>3, Beheaded
  <2>1. job' = i /\ wt' = "ask" /\ parkq' = Tail(parkq)
    BY <1>3, <2>0 DEF Look
  <2>2. /\ \A j : Contains(readyq, j)' <=> Contains(readyq, j)
        /\ \A j : Contains(parkq, j)' <=> Contains(parkq, j) /\ j # i
        /\ Once(parkq)' /\ Contains(parkq, i)
    <3>1. \A j : Contains(Tail(parkq), j) <=> Contains(parkq, j) /\ j # i
      BY <1>1, <1>3, <2>0, Beheaded
    <3>2. Once(Tail(parkq)) /\ Contains(parkq, i)
      BY <1>1, <1>3, <2>0, Beheaded
    <3> QED BY <1>1, <2>1, <3>1, <3>2 DEF Contains, Once
  <2>3. \A j \in Tasks : j # i => SameQueues(j) /\ SameMarks(j) /\ SameJob(j)
    BY <1>1, <2>1, <2>2 DEF SameQueues, SameMarks, SameJob, Working, Returning
  <2>4. /\ ServesAlone' /\ \A j \in Tasks : j # i => (Marked(j) /\ Bound(j))'
        /\ \A j, l : Does(j, l)' <=> Does(j, l)
    BY <1>1, <2>3, ThreadRests
  <2>5. ~Queued(i)'
    BY <1>1, <2>2 DEF Queued, TasksInv, QueuesApart
  <2>6. ctx[i] # None => Does(i, "callback") /\ ~Does(i, "park")
    BY <1>1, <2>2 DEF TasksInv, Bound, Returning, QueuesApart
  <2>7. Marked(i)' /\ Bound(i)'
    BY <1>1, <2>1, <2>2, <2>4, <2>5, <2>6 DEF TasksInv, Marked, Bound, Taken, Queued
  <2>8. QueuesApart'
    BY <1>1, <2>2 DEF TasksInv, QueuesApart, Once
  <2> QED BY <2>4, <2>7, <2>8 DEF TasksKept
<1> QED BY <1>2, <1>3

LEMMA AtAsk ==
  ASSUME TasksInv, Ask, Apart
  PROVE  TasksKept
<1>0. PICK i \in Tasks : i = job
  BY DEF Ask, TasksInv, TypedInv, Placed, Working
<1>1. UNCHANGED <<handVars, qVars, job, ctx, callback, awaits>> /\ wt = "ask" /\ wt' = "bind"
  BY DEF Ask, taskVars
<1>2. \A j \in Tasks : SameQueues(j) /\ SameMarks(j) /\ (Queued(j)' <=> Queued(j))
                        /\ (j # i => SameJob(j))
  BY <1>0, <1>1, QueuesRest DEF SameMarks, SameJob, Returning
<1>3. /\ ServesAlone' /\ \A j \in Tasks : j # i => (Marked(j) /\ Bound(j))'
      /\ \A j, l : Does(j, l)' <=> Does(j, l)
  BY <1>1, <1>2, ThreadRests
<1>4. Marked(i)' /\ Bound(i)'
  BY <1>0, <1>1, <1>2, <1>3 DEF TasksInv, Marked, Bound, Taken, SameQueues, Returning
<1> QED BY <1>1, <1>3, <1>4, QueuesRest DEF TasksKept, TasksInv

LEMMA AtBind ==
  ASSUME TasksInv, Bind
  PROVE  TasksKept
<1>0. PICK i \in Tasks : i = job
  BY DEF Bind, TasksInv, TypedInv, Placed, Working
<1>1. /\ UNCHANGED <<handVars, qVars, job, callback>> /\ wt = "bind" /\ wt' = "add"
      /\ awaits' = [awaits EXCEPT ![i] = FALSE]
      /\ \/ awaits[i] /\ ctx' = [ctx EXCEPT ![i] = conn] /\ conn' = conn
         \/ ~awaits[i] /\ ctx' = ctx /\ conn' = None
      /\ awaits \in [Tasks -> BOOLEAN] /\ ctx \in [Tasks -> Conns \cup {None}]
  BY <1>0 DEF Bind, TasksInv, TypedInv, WaitTypeOK
<1>2. \A j \in Tasks : SameQueues(j) /\ (Queued(j)' <=> Queued(j))
                        /\ (j # i => SameJob(j) /\ SameMarks(j))
  BY <1>0, <1>1, QueuesRest DEF SameMarks, SameJob, Returning
<1>3. /\ ServesAlone' /\ \A j \in Tasks : j # i => (Marked(j) /\ Bound(j))'
      /\ \A j, l : Does(j, l)' <=> Does(j, l)
  BY <1>1, <1>2, ThreadRests
<1>4. CASE awaits[i]
  <2>1. ctx'[i] = conn /\ conn' = conn /\ ~awaits'[i]
    BY <1>1, <1>4
  <2> QED BY <1>0, <1>1, <1>2, <1>3, <1>4, <2>1, QueuesRest DEF TasksKept, TasksInv, Marked, Bound,
             Returning
<1>5. CASE ~awaits[i]
  <2>1. ctx'[i] = ctx[i] /\ conn' = None /\ ~awaits'[i]
    BY <1>1, <1>5
  <2>2. Marked(i)'
    BY <1>1, <1>3, <2>1 DEF TasksInv, Marked
  <2>3. Bound(i)'
    BY <1>0, <1>1, <1>2, <1>3, <2>1 DEF TasksInv, Bound, Taken, Returning
  <2> QED BY <1>1, <1>3, <2>2, <2>3, QueuesRest DEF TasksKept, TasksInv
<1> QED BY <1>4, <1>5

LEMMA AtHand ==
  ASSUME TasksInv, Hand
  PROVE  TasksKept
<1>0. PICK i \in Tasks : i = job
  BY DEF Hand, TasksInv, TypedInv, Placed, Working
<1>1. /\ UNCHANGED <<handVars, parkq, free, ctx, callback, awaits>> /\ wt = "add" /\ Ready(i)
      /\ \/ Queued(i) /\ wt' = "undo" /\ job' = job /\ conn' = conn
         \/ ~Queued(i) /\ wt' = "look" /\ job' = None /\ conn' = None
  BY <1>0 DEF Hand, taskVars
<1>2. /\ QueuesApart'
      /\ \A j \in Tasks : Contains(readyq, j)' <=> Contains(readyq, j) \/ (j = i /\ ~Queued(i))
      /\ \A j : Contains(parkq, j)' <=> Contains(parkq, j)
  BY <1>1, MadeReady DEF Contains
<1>3. \A j \in Tasks : SameMarks(j) /\ (j # i => SameJob(j) /\ SameQueues(j))
  BY <1>0, <1>1, <1>2, WaitAssumption DEF SameMarks, SameJob, SameQueues, Returning, Working
<1>4. /\ ServesAlone' /\ \A j \in Tasks : j # i => (Marked(j) /\ Bound(j))'
      /\ \A j, l : Does(j, l)' <=> Does(j, l)
  BY <1>1, <1>3, ThreadRests
<1>5. Marked(i)'
  BY <1>1, <1>4 DEF TasksInv, Marked
<1>6. Bound(i)'
  BY <1>0, <1>1, <1>2, <1>4 DEF TasksInv, Bound, Taken, Queued, Returning
<1> QED BY <1>2, <1>4, <1>5, <1>6 DEF TasksKept

LEMMA AtUndo ==
  ASSUME TasksInv, Undo
  PROVE  TasksKept
<1>0. PICK i \in Tasks : i = job
  BY DEF Undo, TasksInv, TypedInv, Placed, Working
<1>1. /\ UNCHANGED <<handVars, qVars, callback, awaits>> /\ wt' = "look" /\ job' = None
      /\ ctx' = [ctx EXCEPT ![i] = None] /\ ctx \in [Tasks -> Conns \cup {None}]
  BY <1>0 DEF Undo, TasksInv, TypedInv, WaitTypeOK
<1>2. \A j \in Tasks : SameQueues(j) /\ (j # i => SameJob(j) /\ SameMarks(j))
  BY <1>0, <1>1, QueuesRest, WaitAssumption DEF SameMarks, SameJob, Returning, Working
<1>3. /\ ServesAlone' /\ \A j \in Tasks : j # i => (Marked(j) /\ Bound(j))'
      /\ \A j, l : Does(j, l)' <=> Does(j, l)
  BY <1>1, <1>2, ThreadRests
<1>4. Marked(i)' /\ Bound(i)'
  BY <1>1, <1>3 DEF TasksInv, Marked, Bound
<1> QED BY <1>1, <1>3, <1>4, QueuesRest DEF TasksKept, TasksInv

\* The thread ends, or the pool's server comes or goes, or nothing happens.
LEMMA AtRest ==
  ASSUME TasksInv, Retire \/ Reach \/ UNCHANGED waitVars
  PROVE  TasksKept
<1>1. /\ UNCHANGED <<handVars, qVars, job, conn, ctx, callback, awaits>>
      /\ wt' = wt \/ (wt = "wait" /\ wt' = "none")
  BY DEF Retire, Reach, taskVars, threadVars, waitVars
<1>2. \A j \in Tasks : SameQueues(j) /\ SameJob(j) /\ SameMarks(j)
  BY <1>1, QueuesRest DEF SameMarks, SameJob, Returning, Working
<1> QED BY <1>1, <1>2, ThreadRests, QueuesRest, WaitAssumption DEF TasksKept, TasksInv
-----------------------------------------------------------------------------
(* The connections. *)

LendingKept == Apart' /\ \A c \in Conns : Accounted(c)'

\* Most steps hand nothing on.
LEMMA NothingLent ==
  ASSUME LendingInv, UNCHANGED <<idle, ctx, using, conn>>,
         wt' = wt \/ (wt \notin {"bind", "add", "undo"} /\ wt' \notin {"bind", "add", "undo"})
  PROVE  LendingKept
BY DEF LendingInv, LendingKept, Apart, Accounted

LEMMA WorkerLends ==
  ASSUME LendingInv, Claimed, NEW w \in Hands,
         Handed(w) \/ BadPool(w) \/ \E i \in Tasks : TakeEvent(w, i)
  PROVE  LendingKept
<1>0. /\ using \in [Hands -> Conns \cup {None}] /\ ctx \in [Tasks -> Conns \cup {None}]
      /\ idle \subseteq Conns /\ conn \in Conns \cup {None} /\ None \notin Conns
  BY WaitAssumption DEF LendingInv, TasksInv, TypedInv, WaitTypeOK
<1>1. CASE \/ TakeTask(w) \/ Answered(w) \/ Closed(w) \/ Busy(w) \/ BadPool(w) \/ Park(w)
           \/ \E i \in Tasks : TakeEvent(w, i)
  BY <1>1, NothingLent DEF TakeTask, Answered, Closed, Busy, BadPool, Park, TakeEvent, poolVars,
     threadVars, taskVars
<1>2. CASE Wake(w)
  <2>1. has[w] \in Tasks /\ "thread" \notin Tasks
    BY <1>2, WaitAssumption DEF Wake, LendingInv, TasksInv, TypedInv, WaitTypeOK, Placed
  <2> QED BY <1>2, <2>1, NothingLent DEF Wake, poolVars, taskVars, Claimed
<1>3. CASE Lent(w)
  <2>1. PICK c \in idle : idle' = idle \ {c} /\ using' = [using EXCEPT ![w] = c]
    BY <1>3 DEF Lent
  <2>2. using[w] = None /\ UNCHANGED <<ctx, conn, wt>>
    BY <1>3 DEF Lent, LendingInv, TasksInv, TypedInv, Placed, taskVars, threadVars
  <2>3. \A v \in Hands : using'[v] = IF v = w THEN c ELSE using[v]
    BY <1>0, <2>1
  <2>4. Apart'
    BY <1>0, <2>1, <2>2, <2>3 DEF LendingInv, Apart
  <2>5. \A d \in Conns : Accounted(d)'
    BY <1>0, <2>1, <2>2, <2>3 DEF LendingInv, Accounted
  <2> QED BY <2>4, <2>5 DEF LendingKept
<1>4. CASE Called(w)
  <2>0. PICK i \in Tasks : has[w] = i
    BY <1>4 DEF Called, LendingInv, TasksInv, TypedInv, WaitTypeOK, Placed
  <2>1. /\ using' = [using EXCEPT ![w] = ctx[i]] /\ ctx' = [ctx EXCEPT ![i] = None]
        /\ UNCHANGED <<idle, conn, wt>>
    BY <1>4, <2>0 DEF Called, poolVars, threadVars
  <2>2. using[w] = None
    BY <1>4 DEF Called, LendingInv, TasksInv, TypedInv, Placed
  <2>3. /\ \A v \in Hands : using'[v] = IF v = w THEN ctx[i] ELSE using[v]
        /\ \A j \in Tasks : ctx'[j] = IF j = i THEN None ELSE ctx[j]
    BY <1>0, <2>1
  <2>4. Apart'
    BY <1>0, <2>1, <2>2, <2>3 DEF LendingInv, Apart
  <2>5. \A d \in Conns : Accounted(d)'
    BY <1>0, <2>1, <2>2, <2>3 DEF LendingInv, Accounted
  <2> QED BY <2>4, <2>5 DEF LendingKept
<1>5. CASE Done(w)
  <2>1. idle' = idle \cup {using[w]} /\ using' = [using EXCEPT ![w] = None] /\ UNCHANGED <<ctx, conn, wt>>
    BY <1>5 DEF Done, taskVars, threadVars
  <2>2. using[w] # None
    BY <1>5 DEF Done, LendingInv, TasksInv, TypedInv, Placed
  <2>3. \A v \in Hands : using'[v] = IF v = w THEN None ELSE using[v]
    BY <1>0, <2>1
  <2>4. Apart'
    BY <1>0, <2>1, <2>2, <2>3 DEF LendingInv, Apart
  <2>5. \A d \in Conns : Accounted(d)'
    BY <1>0, <2>1, <2>2, <2>3 DEF LendingInv, Accounted
  <2> QED BY <2>4, <2>5 DEF LendingKept
<1> QED BY <1>1, <1>2, <1>3, <1>4, <1>5 DEF Handed

LEMMA ThreadLends ==
  ASSUME LendingInv, Waiter \/ Retire \/ Reach
  PROVE  LendingKept
<1>0. /\ using \in [Hands -> Conns \cup {None}] /\ ctx \in [Tasks -> Conns \cup {None}]
      /\ idle \subseteq Conns /\ conn \in Conns \cup {None} /\ None \notin Conns
      /\ wt \in Working => job \in Tasks /\ Bound(job) /\ Marked(job)
  BY WaitAssumption DEF LendingInv, TasksInv, TypedInv, WaitTypeOK, Placed
<1>1. CASE Look \/ Retire \/ Reach
  BY <1>1, NothingLent DEF Look, Retire, Reach, poolVars, handVars, taskVars, threadVars
<1>2. CASE Ask
  <2>1. wt = "ask" /\ wt' = "bind" /\ conn = None /\ UNCHANGED <<ctx, using>>
    BY <1>2 DEF Ask, LendingInv, Apart, taskVars, handVars
  <2>2. (\E c \in idle : conn' = c /\ idle' = idle \ {c}) \/ UNCHANGED <<conn, idle>>
    BY <1>2 DEF Ask
  <2>3. Apart'
    BY <1>0, <2>1, <2>2 DEF LendingInv, Apart
  <2>4. \A d \in Conns : Accounted(d)'
    BY <1>0, <2>1, <2>2 DEF LendingInv, Accounted
  <2> QED BY <2>3, <2>4 DEF LendingKept
<1>3. CASE Bind
  <2>1. wt = "bind" /\ wt' = "add" /\ UNCHANGED using /\ job \in Tasks
    BY <1>0, <1>3 DEF Bind, handVars, Working
  <2>2. CASE awaits[job]
    <3>1. ctx' = [ctx EXCEPT ![job] = conn] /\ UNCHANGED <<conn, idle>> /\ ctx[job] = None
      BY <1>0, <1>3, <2>1, <2>2 DEF Bind, Marked, Working
    <3>2. \A j \in Tasks : ctx'[j] = IF j = job THEN conn ELSE ctx[j]
      BY <1>0, <3>1
    <3>3. Apart'
      BY <1>0, <2>1, <3>1, <3>2 DEF LendingInv, Apart
    <3>4. \A d \in Conns : Accounted(d)'
      BY <1>0, <2>1, <3>1, <3>2 DEF LendingInv, Accounted
    <3> QED BY <3>3, <3>4 DEF LendingKept
  <2>3. CASE ~awaits[job]
    <3>1. idle' = idle \cup ({conn} \ {None}) /\ conn' = None /\ ctx' = ctx
      BY <1>3, <2>3 DEF Bind
    <3>2. Apart'
      BY <1>0, <2>1, <3>1 DEF LendingInv, Apart
    <3>3. \A d \in Conns : Accounted(d)'
      BY <1>0, <2>1, <3>1 DEF LendingInv, Accounted
    <3> QED BY <3>2, <3>3 DEF LendingKept
  <2> QED BY <2>2, <2>3
<1>4. CASE Hand
  <2>1. wt = "add" /\ UNCHANGED <<idle, ctx, using>> /\ (wt' = "undo" \/ (wt' = "look" /\ conn' = None))
    BY <1>4 DEF Hand, poolVars, handVars, taskVars
  <2> QED BY <2>1 DEF LendingInv, LendingKept, Apart, Accounted
<1>5. CASE Undo
  <2>1. /\ ctx' = [ctx EXCEPT ![job] = None] /\ idle' = idle \cup ({conn} \ {None})
        /\ wt = "undo" /\ wt' = "look" /\ conn' = None /\ UNCHANGED using
        /\ job \in Tasks /\ ctx[job] = conn
    BY <1>0, <1>5 DEF Undo, handVars, Bound, Working
  <2>2. \A j \in Tasks : ctx'[j] = IF j = job THEN None ELSE ctx[j]
    BY <1>0, <2>1
  <2>3. Apart'
    BY <1>0, <2>1, <2>2 DEF LendingInv, Apart
  <2>4. \A d \in Conns : Accounted(d)'
    BY <1>0, <2>1, <2>2 DEF LendingInv, Accounted
  <2> QED BY <2>3, <2>4 DEF LendingKept
<1> QED BY <1>1, <1>2, <1>3, <1>4, <1>5 DEF Waiter
-----------------------------------------------------------------------------
(* Together. *)

LEMMA LendingInit == WaitInit => LendingInv
<1> SUFFICES ASSUME WaitInit PROVE LendingInv
  OBVIOUS
<1>1. TypedInv
  BY TypedInit
<1>2. QueuesApart
  BY DEF WaitInit, QueuesApart, Once, Contains
<1>3. ServesAlone /\ \A i \in Tasks : Marked(i) /\ Bound(i)
  BY DEF WaitInit, ServesAlone, Marked, Bound, Does
<1>4. Apart /\ \A c \in Conns : Accounted(c)
  BY WaitAssumption DEF WaitInit, Apart, Accounted
<1> QED BY <1>1, <1>2, <1>3, <1>4 DEF LendingInv, TasksInv

\* LendingInv and Claimed are inductive together.
LEMMA LendingStep ==
  ASSUME Orderly, LendingInv, Claimed, [WaitNext]_waitVars
  PROVE  LendingInv'
<1>1. TypedInv'
  BY TypedStep DEF LendingInv, TasksInv
<1>2. ASSUME NEW w \in Hands, Handed(w) \/ BadPool(w) PROVE TasksKept /\ LendingKept
  <2>1. TasksInv /\ LendingKept
    BY <1>2, WorkerLends DEF LendingInv
  <2>2. CASE TakeTask(w)
    BY <2>1, <2>2, AtTake
  <2>3. CASE ~TakeTask(w)
    <3>1. PICK i \in Tasks : has[w] = i
      BY <1>2, <2>1, <2>3 DEF Handed, TasksInv, TypedInv, WaitTypeOK, Placed, Answered, Closed,
         Lent, BadPool,
           Busy, Park, Wake, Called, Done
    <3> QED BY <1>2, <2>1, <2>3, <3>1, AtWork, AtClose, AtPark, AtWake, AtCallback DEF Handed
  <2> QED BY <2>2, <2>3
<1>3. ASSUME NEW w \in Hands, NEW i \in Tasks, TakeEvent(w, i) PROVE TasksKept /\ LendingKept
  BY <1>3, AtEvent, WorkerLends DEF LendingInv
<1>4. ASSUME NEW i \in Tasks, Connect(i) \/ Expire(i) PROVE TasksKept /\ LendingKept
  BY <1>4, AtConnect, AtExpire, NothingLent
     DEF LendingInv, Connect, Expire, poolVars, handVars, threadVars, taskVars
<1>5. ASSUME Waiter \/ Retire \/ Reach PROVE TasksKept /\ LendingKept
  BY <1>5, AtLook, AtAsk, AtBind, AtHand, AtUndo, AtRest, ThreadLends DEF LendingInv, Waiter
<1>6. ASSUME UNCHANGED waitVars PROVE TasksKept /\ LendingKept
  BY <1>6, AtRest, NothingLent
     DEF LendingInv, waitVars, qVars, taskVars, poolVars, handVars, threadVars
<1>7. TasksKept /\ LendingKept
  BY <1>2, <1>3, <1>4, <1>5, <1>6 DEF WaitNext
<1> QED BY <1>1, <1>7 DEF LendingInv, TasksInv, TasksKept, LendingKept

\* What the invariant says of one connection.
LEMMA OneHolder == LendingInv => LentOnce
<1> SUFFICES ASSUME LendingInv, NEW c \in Conns
             PROVE  LET holders == {i \in Tasks : ctx[i] = c} \cup {w \in Hands : using[w] = c}
                                   \cup {h \in {None} : wt = "bind" /\ conn = c}
                    IN IF c \in idle THEN holders = {} ELSE Cardinality(holders) = 1
  BY DEF LentOnce
<1> DEFINE bound == {i \in Tasks : ctx[i] = c}
           used == {w \in Hands : using[w] = c}
           asked == {h \in {None} : wt = "bind" /\ conn = c}
<1>0. c # None
  BY WaitAssumption
<1>1. CASE c \in idle
  BY <1>1, <1>0 DEF LendingInv, Apart
<1>2. CASE c \notin idle
  <2>1. \E x : bound \cup used \cup asked = {x}
    <3>1. CASE wt = "bind" /\ conn = c
      BY <1>0, <3>1 DEF LendingInv, Apart
    <3>2. CASE ~(wt = "bind" /\ conn = c) /\ \E i \in Tasks : ctx[i] = c
      <4>1. PICK i \in Tasks : ctx[i] = c
        BY <3>2
      <4>2. bound = {i} /\ used = {} /\ asked = {}
        BY <1>0, <3>2, <4>1 DEF LendingInv, Apart
      <4> QED BY <4>2
    <3>3. CASE ~(wt = "bind" /\ conn = c) /\ ~(\E i \in Tasks : ctx[i] = c)
      <4>1. PICK w \in Hands : using[w] = c
        BY <1>2, <3>3 DEF LendingInv, Accounted
      <4>2. used = {w} /\ bound = {} /\ asked = {}
        BY <1>0, <3>3, <4>1 DEF LendingInv, Apart
      <4> QED BY <4>2
    <3> QED BY <3>1, <3>2, <3>3
  <2>2. Cardinality(bound \cup used \cup asked) = 1
    BY <2>1, FS_Singleton
  <2> QED BY <1>2, <2>2
<1> QED BY <1>1, <1>2

LEMMA BoundCalled == LendingInv => BoundIsCalled
BY DEF LendingInv, TasksInv, BoundIsCalled, Marked, Bound, Returning, Does, Worked

\* The wait queue as a whole: connections are lent once and come back, bound
\* tasks are called back, parked ones are looked at (mod_sc.c:70-145).
THEOREM WaitSafeAlways == Orderly /\ LooksBeforeEnd /\ WaitSpec => []WaitSafe
<1> SUFFICES ASSUME Orderly, LooksBeforeEnd PROVE WaitSpec => []WaitSafe
  OBVIOUS
<1>1. WaitInit => QueueInv /\ LendingInv
  BY QueueInductive, LendingInit
<1>2. QueueInv /\ LendingInv /\ [WaitNext]_waitVars => (QueueInv /\ LendingInv)'
  <2>1. QueueInv => Claimed
    BY DEF QueueInv
  <2> QED BY <2>1, QueueInductive, LendingStep
<1>3. QueueInv /\ LendingInv => WaitSafe
  BY OneHolder, BoundCalled DEF WaitSafe, QueueInv, TypedInv
<1> QED BY <1>1, <1>2, <1>3, PTL DEF WaitSpec

-----------------------------------------------------------------------------
(* The dynamic modules. *)

\* A thread that loads or searches while another one puts a module into the
\* tree under the same read lock (dm_app.c:51, 52, 71) is excluded.
OneLoader == "loaders" \notin Windows

Reading == {"find", "failed", "add", "unlock"}
Managing == {"await", "asleep", "unload"}
Inside(m) == {u \in Users : model[u] = m /\ step[u] \in {"unlock", "run"}}
Loading(m) == {u \in Users : model[u] = m /\ step[u] = "add"}

\* Who holds dmlock, and for which module.
Locked ==
  /\ \A u \in Users : u \in readers <=> step[u] \in Reading
  /\ \A u \in Users : writer = u <=> step[u] \in Managing
  /\ writer # NoUser => readers = {}

\* What a thread knows of its module.
Known == \A u \in Users :
  /\ model[u] \in Modules <=> step[u] # "out"
  /\ step[u] \in Managing \cup {"unlock", "run"} => model[u] \in cmd_tree
  /\ step[u] = "run" => model[u] \notin Unfit
  /\ step[u] = "unload" => uses[model[u]] = 0

\* One thread loads, a module that is not there; those that are there are open once.
LoadedOnce ==
  /\ \A u, v \in Users : step[u] = "add" /\ step[v] = "add" => u = v
  /\ \A u \in Users : step[u] = "add" => model[u] \notin cmd_tree
  /\ \A m \in cmd_tree : handles[m] = 1

DmInv == DmTypeOK /\ CallsCounted /\ GoneIsClosed /\ Locked /\ Known /\ LoadedOnce
-----------------------------------------------------------------------------
(* The sets that are counted. *)

\* Inside(m) and Loading(m) are finite, and one thread more or less counts one.
LEMMA Counting ==
  ASSUME NEW S \in SUBSET Users, NEW u
  PROVE  /\ Cardinality(S) \in Nat
         /\ u \notin S => Cardinality(S \cup {u}) = Cardinality(S) + 1
         /\ u \in S => Cardinality(S \ {u}) = Cardinality(S) - 1 /\ Cardinality(S) > 0
         /\ Cardinality({}) = 0 /\ Cardinality({u}) = 1
<1>1. IsFiniteSet(S)
  BY DmAssumption, FS_Subset
<1>2. /\ Cardinality(S) \in Nat
      /\ u \notin S => Cardinality(S \cup {u}) = Cardinality(S) + 1
      /\ u \in S => Cardinality(S \ {u}) = Cardinality(S) - 1
  BY <1>1, FS_CardinalityType, FS_AddElement, FS_RemoveElement
<1>3. u \in S => Cardinality(S) > 0
  <2>1. Cardinality(S) = 0 => S = {}
    BY <1>1, FS_EmptySet
  <2> QED BY <1>2, <2>1
<1> QED BY <1>2, <1>3, FS_EmptySet, FS_Singleton

\* CallsCounted and GoneIsClosed over the named sets.
LEMMA Named ==
  /\ CallsCounted <=> \A m \in cmd_tree \ Unfit : uses[m] = Cardinality(Inside(m))
  /\ GoneIsClosed <=> \A m \in Modules \ cmd_tree : handles[m] = Cardinality(Loading(m))
BY DEF CallsCounted, GoneIsClosed, Inside, Loading

\* A step that neither loads nor counts keeps both counts.
LEMMA Uncounted ==
  ASSUME DmInv, UNCHANGED <<cmd_tree, uses, handles>>,
         \A m \in Modules : Inside(m)' = Inside(m) /\ Loading(m)' = Loading(m)
  PROVE  (CallsCounted /\ GoneIsClosed)'
<1>1. cmd_tree \subseteq Modules
  BY DEF DmInv, DmTypeOK
<1>2. CallsCounted'
  BY <1>1, Named DEF DmInv, CallsCounted, Inside
<1>3. GoneIsClosed'
  BY Named DEF DmInv, GoneIsClosed, Loading
<1> QED BY <1>2, <1>3
-----------------------------------------------------------------------------
(* One lemma per action. *)

USE DEF Reading, Managing

LEMMA CallStep ==
  ASSUME DmInv, NEW u \in Users, NEW m \in Modules, Call(u, m)
  PROVE  DmInv'
<1> USE DmAssumption DEF DmInv, Call, Goto
<1>1. (DmTypeOK /\ Locked /\ Known /\ LoadedOnce)'
  BY DEF DmTypeOK, Locked, Known, LoadedOnce
<1>2. \A n \in Modules : Inside(n)' = Inside(n) /\ Loading(n)' = Loading(n)
  BY DEF DmTypeOK, Inside, Loading
<1> QED BY <1>1, <1>2, Uncounted

LEMMA FindStep ==
  ASSUME OneLoader, DmInv, NEW u \in Users, Find(u)
  PROVE  DmInv'
<1> DEFINE m == model[u]
<1>a. m \in Modules /\ step[u] = "find"
  BY DEF DmInv, Find, Known
<1>1. CASE m \in cmd_tree /\ uses' = [uses EXCEPT ![m] = @ + 1] /\ UNCHANGED handles /\ Goto(u, "unlock")
  <2>1. (DmTypeOK /\ Locked /\ Known /\ LoadedOnce)'
    BY <1>a, <1>1, DmAssumption DEF Find, Goto, DmInv, DmTypeOK, Locked, Known, LoadedOnce
  <2>2. \A n \in Modules : Inside(n)' = IF n = m THEN Inside(n) \cup {u} ELSE Inside(n)
    BY <1>a, <1>1 DEF Find, Goto, DmInv, DmTypeOK, Inside
  <2>3. \A n \in Modules : Loading(n)' = Loading(n)
    BY <1>a, <1>1 DEF Find, Goto, DmInv, DmTypeOK, Loading
  <2>4. u \notin Inside(m) /\ Inside(m) \in SUBSET Users
    BY <1>a DEF Inside
  <2>5. \A n \in cmd_tree' \ Unfit : uses'[n] = Cardinality(Inside(n)')
    <3>1. Cardinality(Inside(m) \cup {u}) = Cardinality(Inside(m)) + 1
      BY <2>4, Counting
    <3>2. \A n \in cmd_tree \ Unfit : uses[n] = Cardinality(Inside(n))
      BY Named DEF DmInv
    <3> QED BY <1>a, <1>1, <2>2, <3>1, <3>2 DEF Find, DmInv, DmTypeOK
  <2>6. \A n \in Modules \ cmd_tree' : handles'[n] = Cardinality(Loading(n)')
    BY <1>1, <2>3, Named DEF Find, DmInv
  <2> QED BY <2>1, <2>5, <2>6 DEF DmInv, CallsCounted, GoneIsClosed, Inside, Loading
<1>2. CASE m \notin cmd_tree /\ UNCHANGED <<uses, handles>> /\ Goto(u, "failed")
  <2>1. (DmTypeOK /\ Locked /\ Known /\ LoadedOnce)'
    BY <1>a, <1>2, DmAssumption DEF Find, Goto, DmInv, DmTypeOK, Locked, Known, LoadedOnce
  <2>2. \A n \in Modules : Inside(n)' = Inside(n) /\ Loading(n)' = Loading(n)
    BY <1>a, <1>2 DEF Find, Goto, DmInv, DmTypeOK, Inside, Loading
  <2> QED BY <1>2, <2>1, <2>2, Uncounted DEF DmInv, Find
<1>3. CASE /\ m \notin cmd_tree /\ \A v \in Users : step[v] # "add"
           /\ handles' = [handles EXCEPT ![m] = @ + 1] /\ UNCHANGED uses /\ Goto(u, "add")
  <2>1. (DmTypeOK /\ Locked /\ Known /\ LoadedOnce)'
    BY <1>a, <1>3, DmAssumption DEF Find, Goto, DmInv, DmTypeOK, Locked, Known, LoadedOnce
  <2>2. \A n \in Modules : Inside(n)' = Inside(n)
    BY <1>a, <1>3 DEF Find, Goto, DmInv, DmTypeOK, Inside
  <2>3. \A n \in Modules : Loading(n)' = IF n = m THEN Loading(n) \cup {u} ELSE Loading(n)
    BY <1>a, <1>3 DEF Find, Goto, DmInv, DmTypeOK, Loading
  <2>4. u \notin Loading(m) /\ Loading(m) \in SUBSET Users
    BY <1>3 DEF Loading
  <2>5. \A n \in cmd_tree' \ Unfit : uses'[n] = Cardinality(Inside(n)')
    BY <1>3, <2>2, Named DEF Find, DmInv, DmTypeOK
  <2>6. \A n \in Modules \ cmd_tree' : handles'[n] = Cardinality(Loading(n)')
    <3>1. Cardinality(Loading(m) \cup {u}) = Cardinality(Loading(m)) + 1
      BY <2>4, Counting
    <3>2. \A n \in Modules \ cmd_tree : handles[n] = Cardinality(Loading(n))
      BY Named DEF DmInv
    <3> QED BY <1>a, <1>3, <2>3, <3>1, <3>2 DEF Find, DmInv, DmTypeOK
  <2> QED BY <2>1, <2>5, <2>6 DEF DmInv, CallsCounted, GoneIsClosed, Inside, Loading
<1> QED BY <1>1, <1>2, <1>3 DEF Find, Missed, OneLoader

LEMMA AddStep ==
  ASSUME DmInv, NEW u \in Users, Add(u)
  PROVE  DmInv'
<1> DEFINE m == model[u]
<1>a. m \in Modules /\ m \notin cmd_tree /\ step[u] = "add"
  BY DEF DmInv, Add, Known, LoadedOnce
<1>1. Loading(m) = {u} /\ \A n \in Modules : n # m => Loading(n) = {}
  BY <1>a DEF DmInv, LoadedOnce, Loading
<1>2. handles[m] = 1
  BY <1>a, <1>1, Named, Counting DEF DmInv
<1>3. (DmTypeOK /\ Locked /\ Known /\ LoadedOnce)'
  BY <1>a, <1>2, DmAssumption DEF Add, Goto, DmInv, DmTypeOK, Locked, Known, LoadedOnce
<1>4. Inside(m)' = {u} /\ \A n \in cmd_tree : Inside(n)' = Inside(n)
  BY <1>a DEF Add, Goto, DmInv, DmTypeOK, Known, Inside
<1>5. \A n \in Modules : n # m => Loading(n)' = Loading(n)
  BY <1>a DEF Add, Goto, DmInv, DmTypeOK, Loading
<1>6. \A n \in cmd_tree' \ Unfit : uses'[n] = Cardinality(Inside(n)')
  <2> SUFFICES ASSUME NEW n \in cmd_tree' \ Unfit PROVE uses'[n] = Cardinality(Inside(n)')
    OBVIOUS
  <2>1. CASE n = m
    BY <2>1, <1>a, <1>4, Counting DEF Add, DmInv, DmTypeOK
  <2>2. CASE n # m
    BY <2>2, <1>a, <1>4, Named DEF Add, DmInv, DmTypeOK
  <2> QED BY <2>1, <2>2
<1>7. \A n \in Modules \ cmd_tree' : handles'[n] = Cardinality(Loading(n)')
  BY <1>5, Named DEF Add, DmInv
<1> QED BY <1>3, <1>6, <1>7 DEF DmInv, CallsCounted, GoneIsClosed, Inside, Loading

LEMMA UnlockStep ==
  ASSUME DmInv, NEW u \in Users, Unlock(u)
  PROVE  DmInv'
<1>1. (DmTypeOK /\ Locked /\ Known /\ LoadedOnce)'
  BY DmAssumption DEF Unlock, Goto, Leaves, DmInv, DmTypeOK, Locked, Known, LoadedOnce
<1>2. \A n \in Modules : n \notin Unfit => Inside(n)' = Inside(n)
  BY DmAssumption DEF Unlock, Goto, Leaves, DmInv, DmTypeOK, Inside
<1>3. \A n \in Modules : Loading(n)' = Loading(n)
  BY DmAssumption DEF Unlock, Goto, Leaves, DmInv, DmTypeOK, Loading
<1>4. \A n \in cmd_tree' \ Unfit : uses'[n] = Cardinality(Inside(n)')
  BY <1>2, Named DEF Unlock, DmInv, DmTypeOK
<1>5. \A n \in Modules \ cmd_tree' : handles'[n] = Cardinality(Loading(n)')
  BY <1>3, Named DEF Unlock, DmInv
<1> QED BY <1>1, <1>4, <1>5 DEF DmInv, CallsCounted, GoneIsClosed, Inside, Loading

LEMMA RunStep ==
  ASSUME DmInv, NEW u \in Users, Run(u)
  PROVE  DmInv'
<1> DEFINE m == model[u]
<1>a. m \in cmd_tree \ Unfit /\ m \in Modules /\ step[u] = "run"
  BY DEF DmInv, Run, Known
<1>1. u \in Inside(m) /\ Inside(m) \in SUBSET Users
  BY <1>a DEF Inside
<1>2. uses[m] \in Nat /\ uses[m] > 0
  BY <1>a, <1>1, Counting, Named DEF DmInv
<1>3. (DmTypeOK /\ Locked /\ Known /\ LoadedOnce)'
  BY <1>a, <1>2, DmAssumption DEF Run, Goto, DmInv, DmTypeOK, Locked, Known, LoadedOnce
<1>4. \A n \in Modules : Inside(n)' = IF n = m THEN Inside(n) \ {u} ELSE Inside(n)
  BY <1>a DEF Run, Goto, DmInv, DmTypeOK, Inside
<1>5. \A n \in Modules : Loading(n)' = Loading(n)
  BY <1>a DEF Run, Goto, DmInv, DmTypeOK, Loading
<1>6. \A n \in cmd_tree' \ Unfit : uses'[n] = Cardinality(Inside(n)')
  <2>1. Cardinality(Inside(m) \ {u}) = Cardinality(Inside(m)) - 1
    BY <1>1, Counting
  <2>2. \A n \in cmd_tree \ Unfit : uses[n] = Cardinality(Inside(n))
    BY Named DEF DmInv
  <2> QED BY <1>a, <1>4, <2>1, <2>2 DEF Run, DmInv, DmTypeOK
<1>7. \A n \in Modules \ cmd_tree' : handles'[n] = Cardinality(Loading(n)')
  BY <1>5, Named DEF Run, DmInv
<1> QED BY <1>3, <1>6, <1>7 DEF DmInv, CallsCounted, GoneIsClosed, Inside, Loading

LEMMA SignalStep ==
  ASSUME DmInv, NEW u \in Users, Signal(u)
  PROVE  DmInv'
<1>1. /\ step[u] = "signal" /\ step'[u] = "out" /\ model' = [model EXCEPT ![u] = NoUser]
      /\ step' \in [Users -> {"out", "find", "failed", "add", "unlock", "run", "signal",
                              "await", "asleep", "unload"}]
      /\ UNCHANGED <<cmd_tree, uses, handles, readers, writer>>
      /\ \A v \in Users \ {u} :
           step'[v] = step[v] \/ (step[v] = "asleep" /\ step'[v] = "await")
  BY DEF Signal, Leaves, DmInv, DmTypeOK
<1>2. (DmTypeOK /\ LoadedOnce)'
  BY <1>1 DEF DmInv, DmTypeOK, LoadedOnce
<1>3. (Locked /\ Known)'
  BY <1>1, DmAssumption DEF DmInv, DmTypeOK, Locked, Known
<1>4. \A n \in Modules : Inside(n)' = Inside(n) /\ Loading(n)' = Loading(n)
  BY <1>1, DmAssumption DEF DmInv, DmTypeOK, Inside, Loading
<1> QED BY <1>1, <1>2, <1>3, <1>4, Uncounted DEF DmInv

LEMMA ReplaceStep ==
  ASSUME DmInv, NEW u \in Users, NEW m \in Modules, Replace(u, m)
  PROVE  DmInv'
<1>1. (DmTypeOK /\ Locked /\ Known /\ LoadedOnce)'
  BY DmAssumption DEF Replace, Goto, DmInv, DmTypeOK, Locked, Known, LoadedOnce
<1>2. \A n \in Modules : Inside(n)' = Inside(n) /\ Loading(n)' = Loading(n)
  BY DEF Replace, Goto, DmInv, DmTypeOK, Inside, Loading
<1> QED BY <1>1, <1>2, Uncounted DEF DmInv, Replace

LEMMA AwaitStep ==
  ASSUME DmInv, NEW u \in Users, Await(u)
  PROVE  DmInv'
<1>1. (DmTypeOK /\ Locked /\ Known /\ LoadedOnce)'
  BY DmAssumption DEF Await, Goto, DmInv, DmTypeOK, Locked, Known, LoadedOnce
<1>2. \A n \in Modules : Inside(n)' = Inside(n) /\ Loading(n)' = Loading(n)
  BY DEF Await, Goto, DmInv, DmTypeOK, Inside, Loading
<1> QED BY <1>1, <1>2, Uncounted DEF DmInv, Await

\* Nobody is in the module, nobody finds it and nobody loads it.
LEMMA UnloadStep ==
  ASSUME DmInv, NEW u \in Users, Unload(u)
  PROVE  DmInv'
<1> DEFINE m == model[u]
<1>a. m \in Modules /\ m \in cmd_tree /\ uses[m] = 0 /\ writer = u /\ readers = {}
  BY DmAssumption DEF DmInv, Unload, Known, Locked
<1>b. \A v \in Users : step[v] \notin Reading
  BY <1>a DEF DmInv, Locked
<1>1. \A v \in Users : step[v] = "run" => model[v] # m
  <2> SUFFICES ASSUME NEW v \in Users, step[v] = "run", model[v] = m PROVE FALSE
    OBVIOUS
  <2>1. v \in Inside(m) /\ Inside(m) \in SUBSET Users /\ m \notin Unfit
    BY DEF Inside, DmInv, Known
  <2>2. Cardinality(Inside(m)) > 0
    BY <2>1, Counting
  <2>3. uses[m] = Cardinality(Inside(m))
    BY <2>1, <1>a, Named DEF DmInv
  <2> QED BY <2>2, <2>3, <1>a
<1>2. handles[m] = 1 /\ Loading(m) = {}
  BY <1>a DEF DmInv, LoadedOnce, Loading
<1>3. \A v \in Users : v # u => step[v] \notin Managing
  BY <1>a DEF DmInv, Locked
<1>4. (DmTypeOK /\ Locked /\ Known /\ LoadedOnce)'
  BY <1>a, <1>b, <1>1, <1>2, <1>3, DmAssumption
     DEF Unload, Goto, Leaves, DmInv, DmTypeOK, Locked, Known, LoadedOnce
<1>5. \A n \in Modules : Inside(n)' = Inside(n) /\ Loading(n)' = Loading(n)
  BY DmAssumption DEF Unload, Goto, Leaves, DmInv, DmTypeOK, Inside, Loading
<1>6. \A n \in cmd_tree' \ Unfit : uses'[n] = Cardinality(Inside(n)')
  BY <1>5, Named DEF Unload, DmInv, DmTypeOK
<1>7. \A n \in Modules \ cmd_tree' : handles'[n] = Cardinality(Loading(n)')
  <2> SUFFICES ASSUME NEW n \in Modules \ cmd_tree' PROVE handles'[n] = Cardinality(Loading(n)')
    OBVIOUS
  <2>1. CASE n = m
    <3>1. Loading(n)' = {}
      BY <2>1, <1>a, <1>2, <1>5
    <3>2. handles'[n] = 0
      BY <2>1, <1>a, <1>2 DEF Unload, DmInv, DmTypeOK
    <3>3. Cardinality(Loading(n)') = 0
      <4>1. Cardinality({}) = 0
        BY FS_EmptySet
      <4> QED BY <3>1, <4>1
    <3> QED BY <3>2, <3>3
  <2>2. CASE n # m
    BY <2>2, <1>5, Named DEF Unload, DmInv, DmTypeOK
  <2> QED BY <2>1, <2>2
<1> QED BY <1>4, <1>6, <1>7 DEF DmInv, CallsCounted, GoneIsClosed, Inside, Loading
-----------------------------------------------------------------------------
\* DmInv is inductive.
LEMMA DmInductive ==
  ASSUME OneLoader
  PROVE  /\ DmInit => DmInv
         /\ DmInv /\ [DmNext]_dmVars => DmInv'
<1>1. ASSUME DmInit PROVE DmInv
  <2>1. DmTypeOK /\ Locked /\ Known /\ LoadedOnce
    BY <1>1, DmAssumption DEF DmInit, DmTypeOK, Locked, Known, LoadedOnce
  <2>2. CallsCounted /\ GoneIsClosed
    <3>1. \A m \in Modules : Loading(m) = {}
      BY <1>1 DEF DmInit, Loading
    <3> QED BY <1>1, <3>1, Counting, Named DEF DmInit
  <2> QED BY <2>1, <2>2 DEF DmInv
<1>2. ASSUME DmInv, UNCHANGED dmVars PROVE DmInv'
  BY <1>2 DEF dmVars, DmInv, DmTypeOK, CallsCounted, GoneIsClosed, Locked, Known, LoadedOnce
<1>3. ASSUME DmInv, NEW u \in Users, Goes(u) PROVE DmInv'
  BY <1>3, FindStep, AddStep, UnlockStep, RunStep, SignalStep, AwaitStep, UnloadStep DEF Goes
<1> QED BY <1>1, <1>2, <1>3, CallStep, ReplaceStep DEF DmNext

\* A module that runs is in the tree, and what is in the tree is open once.
LEMMA InvImpliesSafe == DmInv => DmSafe
BY DEF DmInv, DmSafe, LoadedWhileRun, Known, LoadedOnce

\* No command runs in an unloaded module, the counters cover the calls and what
\* left the tree is closed (dm_app.c:40-96, 150-165).
THEOREM DmSafety == OneLoader /\ DmSpec => []DmSafe
<1> SUFFICES ASSUME OneLoader PROVE DmSpec => []DmSafe
  OBVIOUS
<1>1. DmInit => DmInv
  BY DmInductive
<1>2. DmInv /\ [DmNext]_dmVars => DmInv'
  BY DmInductive
<1> QED BY <1>1, <1>2, InvImpliesSafe, PTL DEF DmSpec
=============================================================================

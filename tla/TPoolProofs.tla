------------------------------ MODULE TPoolProofs ------------------------------
(***************************************************************************)
(* The thread-pool server keeps its tasks and fibers apart for any number  *)
(* of workers and tasks, as long as the two narrow races do not happen and *)
(* thread_work finds its task in memory (Quiet).                           *)
(***************************************************************************)
EXTENDS TPool, FiniteSetTheorems, SequenceTheorems, TLAPS

\* A timer does not run out for a task in a worker's hands, no worker that ends
\* a client is overtaken, and the variable task of thread_work is not cached.
Quiet == Races = {} /\ InMemory

\* A worker that is the only one to decide what becomes of its task.
Owns(w, i) ==
  /\ task[w] = i
  /\ \/ pc[w] \in {"picked", "dispatch", "lock", "work", "run", "yield", "enqueue"}
     \/ At(w, "finish") /\ ret[w] # "escape"
     \/ At(w, "status") /\ status[i] = -2

Listens(i) == armed[i] /\ events[i] = "none"

\* A task is in exactly one place: with its owner, in a queue, or in epoll.
InOnePlace(i) ==
  /\ \A v, w \in Workers : Owns(v, i) /\ Owns(w, i) => v = w
  /\ \A w \in Workers : Owns(w, i) => ~InQueue(i) /\ ~Listens(i)
  /\ ~(Listens(i) /\ InQueue(i))
  /\ Listens(i) \/ InQueue(i) \/ \E w \in Workers : Owns(w, i)

\* Its end: nobody else has a task that is deleted or free.
Alone(w, i) == \A v \in Workers : v \in Holders(i) <=> v = w
EndsAlone(i) ==
  /\ status[i] = -2 => \E w \in Workers : Alone(w, i) /\ At(w, "status")
  /\ \A w \in Workers : task[w] = i /\ At(w, "enqueue") =>
       Alone(w, i) /\ ~open[i] /\ ~armed[i] /\ ~AIO_flg[i] /\ status[i] = -1
  /\ In(freeq, i) =>
       /\ ~open[i] /\ ~armed[i] /\ ~AIO_flg[i] /\ status[i] = -1
       /\ \A w \in Holders(i) : pc[w] = "end"
  /\ ~open[i] => In(freeq, i) \/ \E w \in Workers : task[w] = i /\ At(w, "enqueue")

\* The fiber of a task that yields: its lock, its stack and the way back.
FiberKept(i) ==
  /\ lock[i] # Nobody => lock[i] \in Workers /\ task[lock[i]] = i /\ At(lock[i], "swap")
  /\ \A w \in Workers : task[w] = i =>
       /\ At(w, "swap") =>
            /\ lock[i] = w /\ AIO_flg[i]
            /\ \/ link[i] = w
               \/ link[i] \in Workers /\ task[link[i]] = i /\ At(link[i], "lock")
            /\ \A v \in Workers : task[v] = i => ~At(v, "yield")
       /\ Owns(w, i) /\ AIO_flg[i] => pc[w] \in {"picked", "dispatch", "lock", "yield"}
       /\ pc[w] \in {"lock", "yield"} => AIO_flg[i]
       /\ At(w, "lock") \/ (pc[w] \in {"work", "run", "yield"} /\ ~sync[w]) => link[i] = w
       /\ At(w, "yield") => ~sync[w]
  /\ AIO_flg[i] =>
       saved[i] \/ lock[i] # Nobody \/ \E w \in Workers : task[w] = i /\ At(w, "yield")

Kept(i) == InOnePlace(i) /\ EndsAlone(i) /\ FiberKept(i)

\* A task is in one queue, once.
Once(q) == \A m, n \in DOMAIN q : q[m] = q[n] => m = n
QueuesApart ==
  /\ Once(freeq) /\ Once(ready)
  /\ \A i \in TCBs : ~(In(freeq, i) /\ In(ready, i))
  /\ \A i \in parked : ~In(freeq, i) /\ ~In(ready, i)

\* Not everyone waits for an event.
Awake ==
  /\ \E w \in Workers : pc[w] # "epoll"
  /\ ready # <<>> => \E w \in Workers : pc[w] \notin {"condwait", "epoll"}

TasksInHand == \A w \in Workers : pc[w] \in HasTask => task[w] \in TCBs

Labels == HasTask \cup {"loop", "woken", "condwait", "epoll"}

TPoolInv == TypeOK /\ TasksInHand /\ QueuesApart /\ Awake /\ \A i \in TCBs : Kept(i)
-----------------------------------------------------------------------------
(* Queues. *)

\* What is in a queue after Append; one that was not in it is in it once.
LEMMA Appended ==
  ASSUME NEW S, NEW q \in Seq(S), NEW i \in S
  PROVE  /\ Append(q, i) \in Seq(S) /\ Append(q, i) # <<>>
         /\ \A j : In(Append(q, i), j) <=> In(q, j) \/ j = i
         /\ Once(q) /\ ~In(q, i) => Once(Append(q, i))
<1>1. /\ Append(q, i) \in Seq(S)
      /\ Len(q) \in Nat /\ DOMAIN q = 1 .. Len(q)
      /\ DOMAIN Append(q, i) = 1 .. Len(q) + 1
      /\ \A k \in 1 .. Len(q) : Append(q, i)[k] = q[k]
      /\ Append(q, i)[Len(q) + 1] = i
  BY AppendProperties, LenProperties
<1>2. \A j : In(Append(q, i), j) <=> In(q, j) \/ j = i
  BY <1>1 DEF In
<1>3. Once(q) /\ ~In(q, i) => Once(Append(q, i))
  BY <1>1 DEF In, Once
<1>4. Append(q, i) # <<>>
  BY <1>1
<1> QED BY <1>1, <1>2, <1>3, <1>4

\* What is in a queue after its head was taken.
LEMMA Taken ==
  ASSUME NEW S, NEW q \in Seq(S), q # <<>>, Once(q)
  PROVE  /\ Head(q) \in S /\ Tail(q) \in Seq(S) /\ In(q, Head(q))
         /\ \A j : In(Tail(q), j) <=> In(q, j) /\ j # Head(q)
         /\ Once(Tail(q))
<1>1. /\ Head(q) \in S /\ Tail(q) \in Seq(S) /\ Head(q) = q[1]
      /\ Len(q) \in Nat \ {0} /\ DOMAIN q = 1 .. Len(q)
      /\ DOMAIN Tail(q) = 1 .. Len(q) - 1
      /\ \A k \in 1 .. Len(q) - 1 : Tail(q)[k] = q[k + 1]
  <2>1. Len(Tail(q)) = Len(q) - 1 /\ Len(q) # 0
    BY HeadTailProperties, EmptySeq, LenProperties
  <2> QED BY <2>1, HeadTailProperties, LenProperties
<1>2. In(q, Head(q))
  BY <1>1 DEF In
<1>3. Once(Tail(q))
  BY <1>1 DEF Once
<1>4. ASSUME NEW j PROVE In(Tail(q), j) <=> In(q, j) /\ j # Head(q)
  <2>1. ASSUME In(Tail(q), j) PROVE In(q, j) /\ j # Head(q)
    BY <1>1, <2>1 DEF In, Once
  <2>2. ASSUME In(q, j), j # Head(q) PROVE In(Tail(q), j)
    <3>1. PICK k \in DOMAIN q : q[k] = j
      BY <2>2 DEF In
    <3>2. k - 1 \in 1 .. Len(q) - 1 /\ Tail(q)[k - 1] = j
      BY <3>1, <2>2, <1>1
    <3> QED BY <3>2, <1>1 DEF In
  <2> QED BY <2>1, <2>2
<1> QED BY <1>1, <1>2, <1>3, <1>4

-----------------------------------------------------------------------------
(* The types, group by group. *)

QueueTypes == freeq \in Seq(TCBs) /\ ready \in Seq(TCBs) /\ parked \subseteq TCBs
ConnTypes ==
  /\ open \in [TCBs -> BOOLEAN] /\ status \in [TCBs -> {-2, -1, 0}]
  /\ call_back \in [TCBs -> BOOLEAN]
EventTypes ==
  /\ fd \in [TCBs -> BOOLEAN] /\ armed \in [TCBs -> BOOLEAN]
  /\ events \in [TCBs -> {"none", "io", "timeout"}] /\ timeout \in [TCBs -> BOOLEAN]
FiberTypes ==
  /\ AIO_flg \in [TCBs -> BOOLEAN] /\ lock \in [TCBs -> Workers \cup {Nobody}]
  /\ fiber \in [TCBs -> BOOLEAN] /\ saved \in [TCBs -> BOOLEAN]
  /\ link \in [TCBs -> Workers \cup {Nobody}]
WorkTypes ==
  /\ pc \in [Workers -> Labels]
  /\ task \in [Workers -> TCBs \cup {Nobody}]
  /\ sync \in [Workers -> BOOLEAN] /\ started \in [Workers -> TCBs \cup {Nobody}]
  /\ ret \in [Workers -> {"again", "close", "escape"}]

\* The type invariant is the conjunction of the types of the groups, which the
\* actions leave unchanged as groups.
LEMMA Types ==
  /\ TypeOK <=> QueueTypes /\ ConnTypes /\ EventTypes /\ FiberTypes /\ WorkTypes
  /\ TypeOK' <=> (QueueTypes /\ ConnTypes /\ EventTypes /\ FiberTypes /\ WorkTypes)'
BY DEF TypeOK, Labels, QueueTypes, ConnTypes, EventTypes, FiberTypes, WorkTypes

\* AddReady: the task is the last of the queue, unless it is in one, and somebody
\* will look at it.
LEMMA MadeReady ==
  ASSUME TypeOK, NEW i \in TCBs, NEW pcs \in [Workers -> Labels], AddReady(i, pcs)
  PROVE  /\ ready' \in Seq(TCBs) /\ pc' \in [Workers -> Labels]
         /\ \A w \in Workers : pc'[w] = pcs[w] \/ (pc[w] = "condwait" /\ pc'[w] = "woken")
         /\ InQueue(i) => ready' = ready
         /\ ~InQueue(i) => /\ \A j : In(ready, j)' <=> In(ready, j) \/ j = i
                           /\ Once(ready) => Once(ready')
<1>1. CASE InQueue(i)
  BY <1>1 DEF AddReady, TypeOK
<1>2. CASE ~InQueue(i) /\ Waiting = {} /\ pc' = pcs
  <2>1. ready' = Append(ready, i)
    BY <1>2 DEF AddReady
  <2>3. ready' \in Seq(TCBs) /\ (\A j : In(ready', j) <=> In(ready, j) \/ j = i)
    BY <2>1, Appended DEF TypeOK
  <2>4. Once(ready) => Once(ready')
    BY <1>2, <2>1, Appended DEF TypeOK, InQueue
  <2>5. \A j : In(ready, j)' <=> In(ready', j)
    BY DEF In
  <2> QED BY <1>2, <2>3, <2>4, <2>5
<1>3. CASE ~InQueue(i) /\ \E w \in Waiting : pc' = [pcs EXCEPT ![w] = "woken"]
  <2>1. ready' = Append(ready, i)
    BY <1>3 DEF AddReady
  <2>2. PICK w \in Waiting : pc' = [pcs EXCEPT ![w] = "woken"]
    BY <1>3
  <2>4. pc' \in [Workers -> Labels]
    BY <2>2 DEF Waiting, Labels
  <2>5. \A v \in Workers : pc'[v] = pcs[v] \/ (pc[v] = "condwait" /\ pc'[v] = "woken")
    BY <2>2 DEF Waiting
  <2>6. ready' \in Seq(TCBs) /\ (\A j : In(ready', j) <=> In(ready, j) \/ j = i)
    BY <2>1, Appended DEF TypeOK
  <2>7. Once(ready) => Once(ready')
    BY <1>3, <2>1, Appended DEF TypeOK, InQueue
  <2>8. \A j : In(ready, j)' <=> In(ready', j)
    BY DEF In
  <2> QED BY <1>3, <2>4, <2>5, <2>6, <2>7, <2>8
<1> QED BY <1>1, <1>2, <1>3 DEF AddReady

\* Whoever makes a task ready leaves somebody awake to look at the queue.
LEMMA ReadyIsSeen ==
  ASSUME Awake, NEW i \in TCBs, NEW pcs \in [Workers -> Labels], AddReady(i, pcs),
         \A w \in Workers : pcs[w] = pc[w] \/ pcs[w] \notin {"condwait", "epoll"}
  PROVE  Awake'
BY DEF AddReady, Waiting, Awake

-----------------------------------------------------------------------------
(* Types: one lemma per part of the program. *)

TypesKept == (TypeOK /\ TasksInHand)'

\* The main thread and the threads of the application keep the types.
LEMMA MainTypes ==
  ASSUME TypeOK, TasksInHand, NEW i \in TCBs,
         \/ Accept \/ AcceptFails
         \/ ExpireCallback(i) \/ ExpireFiber(i) \/ ExpireClient(i) \/ Unpark(i)
  PROVE  TypesKept
<1> USE Types DEF Set
<1>1. CASE Accept
  <2>1. QueueTypes'
    BY <1>1, HeadTailProperties DEF Accept, QueueTypes
  <2>2. ConnTypes'
    BY <1>1, HeadTailProperties DEF Accept, QueueTypes, ConnTypes
  <2>3. EventTypes'
    BY <1>1, HeadTailProperties DEF Accept, QueueTypes, EventTypes, Register
  <2>4. (FiberTypes /\ WorkTypes /\ TasksInHand)'
    BY <1>1 DEF Accept, fiberVars, workVars, FiberTypes, WorkTypes, TasksInHand
  <2> QED BY <2>1, <2>2, <2>3, <2>4 DEF TypesKept
<1>2. CASE AcceptFails
  <2>1. QueueTypes'
    BY <1>2, HeadTailProperties, Appended DEF AcceptFails, QueueTypes
  <2>2. ConnTypes'
    BY <1>2, HeadTailProperties DEF AcceptFails, CloseClient, QueueTypes, ConnTypes
  <2>3. EventTypes'
    BY <1>2, HeadTailProperties DEF AcceptFails, CloseClient, QueueTypes, EventTypes
  <2>4. (FiberTypes /\ WorkTypes /\ TasksInHand)'
    BY <1>2 DEF AcceptFails, CloseClient, workVars, FiberTypes, WorkTypes, TasksInHand
  <2> QED BY <2>1, <2>2, <2>3, <2>4 DEF TypesKept
<1>3. CASE ExpireCallback(i) \/ ExpireFiber(i)
  <2>1. /\ AddReady(i, pc)
        /\ UNCHANGED <<freeq, parked, connVars, timeout, fiberVars, task, sync, started, ret>>
    BY <1>3 DEF ExpireCallback, ExpireFiber, eventVars
  <2>2. QueueTypes' /\ pc' \in [Workers -> Labels]
    BY <2>1, MadeReady DEF QueueTypes, WorkTypes
  <2>3. EventTypes'
    <3>1. CASE ExpireCallback(i)
      BY <3>1 DEF ExpireCallback, EventTypes
    <3>2. CASE ExpireFiber(i)
      BY <3>2 DEF ExpireFiber, EventTypes
    <3> QED BY <1>3, <3>1, <3>2
  <2>4. (ConnTypes /\ FiberTypes /\ WorkTypes)'
    BY <2>1, <2>2 DEF connVars, fiberVars, ConnTypes, FiberTypes, WorkTypes
  <2>5. TasksInHand'
    BY <2>1, MadeReady DEF TasksInHand, WorkTypes, HasTask
  <2> QED BY <2>2, <2>3, <2>4, <2>5 DEF TypesKept
<1>4. CASE ExpireClient(i)
  <2>1. QueueTypes'
    BY <1>4, Appended DEF ExpireClient, AddFree, QueueTypes
  <2>2. ConnTypes'
    BY <1>4 DEF ExpireClient, CloseClient, ConnTypes
  <2>3. EventTypes'
    BY <1>4 DEF ExpireClient, CloseClient, EventTypes
  <2>4. (FiberTypes /\ WorkTypes /\ TasksInHand)'
    BY <1>4 DEF ExpireClient, CloseClient, workVars, FiberTypes, WorkTypes, TasksInHand
  <2> QED BY <2>1, <2>2, <2>3, <2>4 DEF TypesKept
<1>5. CASE Unpark(i)
  <2>1. QueueTypes'
    BY <1>5, Appended DEF Unpark, QueueTypes
  <2>2. \/ pc' = pc
        \/ \E w \in Waiting : pc' = Set(pc, w, "woken")
    BY <1>5 DEF Unpark, Goto, Set
  <2>3. pc' \in [Workers -> Labels]
    BY <2>2 DEF WorkTypes, Labels, Waiting, Set
  <2>4. (ConnTypes /\ EventTypes /\ FiberTypes /\ WorkTypes)'
    BY <1>5, <2>3 DEF Unpark, connVars, eventVars, fiberVars, ConnTypes, EventTypes, FiberTypes,
       WorkTypes
  <2>5. TasksInHand'
    BY <1>5, <2>2 DEF Unpark, Set, TasksInHand, WorkTypes, HasTask, Waiting
  <2> QED BY <2>1, <2>4, <2>5 DEF TypesKept
<1> QED BY <1>1, <1>2, <1>3, <1>4, <1>5

\* The loop of thread_work keeps the types, and a worker behind it has a task.
LEMMA LoopTypes ==
  ASSUME TypeOK, TasksInHand, NEW w \in Workers,
         TakeReady(w) \/ Sleep(w) \/ Picked(w) \/ Dispatch(w) \/ Resume(w)
  PROVE  TypesKept
<1> USE Types DEF Set
<1>1. CASE TakeReady(w)
  <2>1. QueueTypes'
    BY <1>1, HeadTailProperties DEF TakeReady, QueueTypes
  <2>2. WorkTypes'
    BY <1>1, HeadTailProperties DEF TakeReady, WorkTypes, Goto, Labels, HasTask, QueueTypes
  <2>3. TasksInHand'
    BY <1>1 DEF TakeReady, TasksInHand, WorkTypes, QueueTypes, Goto, HasTask
  <2>4. (ConnTypes /\ EventTypes /\ FiberTypes)'
    BY <1>1 DEF TakeReady, ConnTypes, connVars, EventTypes, eventVars, FiberTypes, fiberVars
  <2> QED BY <2>1, <2>2, <2>3, <2>4 DEF TypesKept
<1>2. CASE Sleep(w)
  <2>1. WorkTypes'
    BY <1>2 DEF Sleep, WorkTypes, Goto, Labels, HasTask
  <2>2. TasksInHand'
    BY <1>2 DEF Sleep, TasksInHand, WorkTypes, Goto, HasTask
  <2>3. (QueueTypes /\ ConnTypes /\ EventTypes /\ FiberTypes)'
    BY <1>2 DEF Sleep, QueueTypes, queueVars, ConnTypes, connVars, EventTypes, eventVars,
       FiberTypes, fiberVars
  <2> QED BY <2>1, <2>2, <2>3 DEF TypesKept
<1>3. CASE Picked(w)
  <2>0. task[w] \in TCBs
    BY <1>3 DEF Picked, At, TasksInHand, HasTask
  <2>1. EventTypes'
    BY <2>0, <1>3 DEF Picked, Register, EventTypes, ConnTypes
  <2>2. WorkTypes'
    BY <2>0, <1>3 DEF Picked, Register, WorkTypes, Goto, Labels, HasTask
  <2>3. TasksInHand'
    BY <2>0, <1>3 DEF Picked, Register, TasksInHand, WorkTypes, Goto, HasTask
  <2>4. (QueueTypes /\ ConnTypes /\ FiberTypes)'
    BY <1>3 DEF Picked, Register, QueueTypes, queueVars, ConnTypes, connVars, FiberTypes, fiberVars
  <2> QED BY <2>1, <2>2, <2>3, <2>4 DEF TypesKept
<1>4. CASE Dispatch(w)
  <2>0. task[w] \in TCBs
    BY <1>4 DEF Dispatch, At, TasksInHand, HasTask
  <2>1. FiberTypes'
    <3>1. fiber' \in [TCBs -> BOOLEAN]
      BY <2>0, <1>4 DEF Dispatch, FiberTypes
    <3>2. link' \in [TCBs -> Workers \cup {Nobody}]
      BY <2>0, <1>4 DEF Dispatch, FiberTypes
    <3> QED BY <1>4, <3>1, <3>2 DEF Dispatch, FiberTypes
  <2>2. WorkTypes'
    BY <2>0, <1>4 DEF Dispatch, WorkTypes, Goto, Labels, HasTask
  <2>3. TasksInHand'
    BY <2>0, <1>4 DEF Dispatch, TasksInHand, WorkTypes, Goto, HasTask
  <2>4. (QueueTypes /\ ConnTypes /\ EventTypes)'
    BY <1>4 DEF Dispatch, QueueTypes, queueVars, ConnTypes, connVars, EventTypes, eventVars
  <2> QED BY <2>1, <2>2, <2>3, <2>4 DEF TypesKept
<1>5. CASE Resume(w)
  <2>0. task[w] \in TCBs
    BY <1>5 DEF Resume, At, TasksInHand, HasTask
  <2>1. EventTypes'
    BY <2>0, <1>5 DEF Resume, EventTypes, ConnTypes
  <2>2. FiberTypes'
    BY <2>0, <1>5 DEF Resume, FiberTypes
  <2>3. WorkTypes'
    BY <2>0, <1>5 DEF Resume, WorkTypes, Goto, Labels, HasTask
  <2>4. TasksInHand'
    BY <2>0, <1>5 DEF Resume, TasksInHand, WorkTypes, Goto, HasTask
  <2>5. (QueueTypes /\ ConnTypes)'
    BY <1>5 DEF Resume, QueueTypes, queueVars, ConnTypes, connVars
  <2> QED BY <2>1, <2>2, <2>3, <2>4, <2>5 DEF TypesKept
<1> QED BY <1>1, <1>2, <1>3, <1>4, <1>5

\* epoll_wait keeps the types: a worker gets the task of the event.
LEMMA EventTypesKept ==
  ASSUME TypeOK, TasksInHand, NEW w \in Workers, NEW i \in TCBs, Event(w, i)
  PROVE  TypesKept
<1> USE Types DEF Set
<1>1. EventTypes'
  <2>1. events' \in [TCBs -> {"none", "io", "timeout"}]
    BY DEF Event, EventTypes
  <2> QED BY <2>1 DEF Event, EventTypes
<1>2. WorkTypes'
  <2>1. task' \in [Workers -> TCBs \cup {Nobody}]
    BY DEF Event, WorkTypes
  <2> QED BY <2>1 DEF Event, Goto, WorkTypes, Labels, HasTask
<1>3. TasksInHand'
  BY DEF Event, At, Goto, WorkTypes, TasksInHand, HasTask
<1>4. (QueueTypes /\ ConnTypes /\ FiberTypes)'
  BY DEF Event, QueueTypes, queueVars, ConnTypes, connVars, FiberTypes, fiberVars
<1> QED BY <1>1, <1>2, <1>3, <1>4 DEF TypesKept

\* do_work and the functions a service may call keep the types.
LEMMA ServiceTypes ==
  ASSUME TypeOK, TasksInHand, NEW w \in Workers,
         \/ Work(w) \/ Yield(w) \/ YieldLock(w) \/ Swap(w) \/ SetCallback(w)
         \/ ClearCallback(w) \/ Reply(w) \/ Fail(w) \/ SetEvent(w) \/ Park(w) \/ MakeReady(w)
  PROVE  TypesKept
<1> USE Types DEF Set
<1>1. CASE Work(w)
  <2>0. task[w] \in TCBs
    BY <1>1 DEF Work, At, TasksInHand, HasTask
  <2>1. EventTypes'
    BY <2>0, <1>1 DEF Work, EventTypes
  <2>2. WorkTypes'
    BY <2>0, <1>1 DEF Work, WorkTypes, Goto, Labels, HasTask
  <2>3. TasksInHand'
    BY <2>0, <1>1 DEF Work, TasksInHand, WorkTypes, Goto, HasTask
  <2>4. (QueueTypes /\ ConnTypes /\ FiberTypes)'
    BY <1>1 DEF Work, QueueTypes, queueVars, ConnTypes, connVars, FiberTypes, fiberVars
  <2> QED BY <2>1, <2>2, <2>3, <2>4 DEF TypesKept
<1>2. CASE Yield(w)
  <2>0. task[w] \in TCBs
    BY <1>2 DEF Yield, At, TasksInHand, HasTask
  <2>1. EventTypes'
    <3>1. PICK limited \in {TRUE, timeout[task[w]]} : timeout' = Set(timeout, task[w], limited)
      BY <1>2 DEF Yield
    <3>2. limited \in BOOLEAN
      BY <2>0, <3>1 DEF EventTypes
    <3> QED BY <1>2, <3>1, <3>2 DEF Yield, EventTypes
  <2>2. FiberTypes'
    BY <2>0, <1>2 DEF Yield, FiberTypes
  <2>3. WorkTypes'
    BY <2>0, <1>2 DEF Yield, WorkTypes, Goto, Labels, HasTask
  <2>4. TasksInHand'
    BY <2>0, <1>2 DEF Yield, TasksInHand, WorkTypes, Goto, HasTask
  <2>5. (QueueTypes /\ ConnTypes)'
    BY <1>2 DEF Yield, QueueTypes, queueVars, ConnTypes, connVars
  <2> QED BY <2>1, <2>2, <2>3, <2>4, <2>5 DEF TypesKept
<1>3. CASE YieldLock(w)
  <2>0. task[w] \in TCBs
    BY <1>3 DEF YieldLock, At, TasksInHand, HasTask
  <2>1. EventTypes'
    <3>1. CASE Goto(w, "swap")
      BY <2>0, <1>3, <3>1 DEF YieldLock, Register, Goto, WorkTypes, EventTypes
    <3>2. CASE Goto(w, "run")
      BY <2>0, <1>3, <3>2 DEF YieldLock, Goto, WorkTypes, EventTypes
    <3> QED BY <1>3, <3>1, <3>2 DEF YieldLock
  <2>2. FiberTypes'
    <3>1. CASE Goto(w, "swap")
      BY <2>0, <1>3, <3>1 DEF YieldLock, Register, Goto, WorkTypes, FiberTypes
    <3>2. CASE Goto(w, "run")
      BY <2>0, <1>3, <3>2 DEF YieldLock, Goto, WorkTypes, FiberTypes
    <3> QED BY <1>3, <3>1, <3>2 DEF YieldLock
  <2>3. WorkTypes'
    BY <2>0, <1>3 DEF YieldLock, Register, WorkTypes, Goto, Labels, HasTask
  <2>4. TasksInHand'
    BY <2>0, <1>3 DEF YieldLock, Register, TasksInHand, WorkTypes, Goto, HasTask
  <2>5. (QueueTypes /\ ConnTypes)'
    BY <1>3 DEF YieldLock, Register, QueueTypes, queueVars, ConnTypes, connVars
  <2> QED BY <2>1, <2>2, <2>3, <2>4, <2>5 DEF TypesKept
<1>4. CASE Swap(w)
  <2>0. task[w] \in TCBs
    BY <1>4 DEF Swap, At, TasksInHand, HasTask
  <2>1. FiberTypes'
    BY <2>0, <1>4 DEF Swap, Return, Found, FiberTypes
  <2>2. WorkTypes'
    BY <2>0, <1>4 DEF Swap, Return, Found, WorkTypes, Goto, Labels, HasTask
  <2>3. TasksInHand'
    BY <2>0, <1>4 DEF Swap, Return, Found, TasksInHand, WorkTypes, Goto, HasTask
  <2>4. (QueueTypes /\ ConnTypes /\ EventTypes)'
    BY <1>4 DEF Swap, Return, Found, QueueTypes, queueVars, ConnTypes, connVars, EventTypes,
       eventVars
  <2> QED BY <2>1, <2>2, <2>3, <2>4 DEF TypesKept
<1>5. CASE SetCallback(w)
  <2>0. task[w] \in TCBs
    BY <1>5 DEF SetCallback, At, TasksInHand, HasTask
  <2>1. ConnTypes'
    BY <2>0, <1>5 DEF SetCallback, ConnTypes
  <2>2. EventTypes'
    BY <2>0, <1>5 DEF SetCallback, EventTypes
  <2>3. TasksInHand'
    BY <2>0, <1>5 DEF SetCallback, workVars, TasksInHand, HasTask
  <2>4. (QueueTypes /\ FiberTypes /\ WorkTypes)'
    BY <1>5 DEF SetCallback, QueueTypes, queueVars, FiberTypes, fiberVars, WorkTypes, workVars
  <2> QED BY <2>1, <2>2, <2>3, <2>4 DEF TypesKept
<1>6. CASE ClearCallback(w)
  <2>0. task[w] \in TCBs
    BY <1>6 DEF ClearCallback, At, TasksInHand, HasTask
  <2>1. ConnTypes'
    BY <2>0, <1>6 DEF ClearCallback, ConnTypes, eventVars
  <2>2. EventTypes'
    <3>1. open[task[w]] \in BOOLEAN
      BY <2>0 DEF ConnTypes
    <3>2. timeout' \in [TCBs -> BOOLEAN]
      BY <1>6 DEF ClearCallback, EventTypes, eventVars
    <3>3. fd' \in [TCBs -> BOOLEAN] /\ armed' \in [TCBs -> BOOLEAN]
          /\ events' \in [TCBs -> {"none", "io", "timeout"}]
      BY <1>6, <3>1 DEF ClearCallback, EventTypes, eventVars
    <3> QED BY <3>2, <3>3 DEF EventTypes
  <2>3. TasksInHand'
    BY <2>0, <1>6 DEF ClearCallback, workVars, TasksInHand, HasTask
  <2>4. (QueueTypes /\ FiberTypes /\ WorkTypes)'
    BY <1>6 DEF ClearCallback, QueueTypes, queueVars, FiberTypes, fiberVars, WorkTypes, workVars
  <2> QED BY <2>1, <2>2, <2>3, <2>4 DEF TypesKept
<1>7. CASE Reply(w)
  <2>0. task[w] \in TCBs
    BY <1>7 DEF Reply, At, TasksInHand, HasTask
  <2>1. ConnTypes'
    <3>1. PICK asked \in BOOLEAN :
            call_back' = Set(call_back, task[w], call_back[task[w]] \/ (status[task[w]] = -1 /\ asked))
      BY <1>7 DEF Reply
    <3>2. call_back' \in [TCBs -> BOOLEAN]
      BY <3>1 DEF ConnTypes
    <3>3. (IF call_back[task[w]] THEN status[task[w]] ELSE 0) \in {-2, -1, 0}
      BY <2>0 DEF ConnTypes
    <3>4. status' \in [TCBs -> {-2, -1, 0}]
      BY <1>7, <3>3 DEF Reply, ConnTypes
    <3> QED BY <1>7, <3>2, <3>4 DEF Reply, ConnTypes
  <2>2. WorkTypes'
    BY <2>0, <1>7 DEF Reply, Answer, WorkTypes, Goto, Labels, HasTask
  <2>3. TasksInHand'
    BY <2>0, <1>7 DEF Reply, Answer, TasksInHand, WorkTypes, Goto, HasTask
  <2>4. (QueueTypes /\ EventTypes /\ FiberTypes)'
    BY <1>7 DEF Reply, Answer, QueueTypes, queueVars, EventTypes, eventVars, FiberTypes, fiberVars
  <2> QED BY <2>1, <2>2, <2>3, <2>4 DEF TypesKept
<1>8. CASE Fail(w)
  <2>0. task[w] \in TCBs
    BY <1>8 DEF Fail, At, TasksInHand, HasTask
  <2>1. WorkTypes'
    BY <2>0, <1>8 DEF Fail, Answer, WorkTypes, Goto, Labels, HasTask
  <2>2. TasksInHand'
    BY <2>0, <1>8 DEF Fail, Answer, TasksInHand, WorkTypes, Goto, HasTask
  <2>3. (QueueTypes /\ ConnTypes /\ EventTypes /\ FiberTypes)'
    BY <1>8 DEF Fail, Answer, QueueTypes, queueVars, ConnTypes, connVars, EventTypes, eventVars,
       FiberTypes, fiberVars
  <2> QED BY <2>1, <2>2, <2>3 DEF TypesKept
<1>9. CASE SetEvent(w)
  <2>0. task[w] \in TCBs
    BY <1>9 DEF SetEvent, At, TasksInHand, HasTask
  <2>1. ConnTypes'
    BY <2>0, <1>9 DEF SetEvent, Register, Answer, ConnTypes
  <2>2. EventTypes'
    BY <2>0, <1>9 DEF SetEvent, Register, Answer, EventTypes
  <2>3. WorkTypes'
    BY <2>0, <1>9 DEF SetEvent, Register, Answer, WorkTypes, Goto, Labels, HasTask
  <2>4. TasksInHand'
    BY <2>0, <1>9 DEF SetEvent, Register, Answer, TasksInHand, WorkTypes, Goto, HasTask
  <2>5. (QueueTypes /\ FiberTypes)'
    BY <1>9 DEF SetEvent, Register, Answer, QueueTypes, queueVars, FiberTypes, fiberVars
  <2> QED BY <2>1, <2>2, <2>3, <2>4, <2>5 DEF TypesKept
<1>10. CASE Park(w)
  <2>0. task[w] \in TCBs
    BY <1>10 DEF Park, At, TasksInHand, HasTask
  <2>1. QueueTypes'
    BY <2>0, <1>10 DEF Park, Answer, QueueTypes
  <2>2. ConnTypes'
    BY <2>0, <1>10 DEF Park, Answer, ConnTypes
  <2>3. EventTypes'
    BY <2>0, <1>10 DEF Park, Answer, EventTypes
  <2>4. WorkTypes'
    BY <2>0, <1>10 DEF Park, Answer, WorkTypes, Goto, Labels, HasTask
  <2>5. TasksInHand'
    BY <2>0, <1>10 DEF Park, Answer, TasksInHand, WorkTypes, Goto, HasTask
  <2>6. (FiberTypes)'
    BY <1>10 DEF Park, Answer, FiberTypes, fiberVars
  <2> QED BY <2>1, <2>2, <2>3, <2>4, <2>5, <2>6 DEF TypesKept
<1>11. CASE MakeReady(w)
  <2>0. task[w] \in TCBs
    BY <1>11 DEF MakeReady, At, TasksInHand, HasTask
  <2>1. AddReady(task[w], [pc EXCEPT ![w] = "finish"]) /\ UNCHANGED <<freeq, parked, task, sync, started>>
    BY <1>11 DEF MakeReady
  <2>2. [pc EXCEPT ![w] = "finish"] \in [Workers -> Labels]
    BY DEF WorkTypes, Labels, HasTask
  <2>3. QueueTypes' /\ WorkTypes'
    BY <2>0, <2>1, <2>2, <1>11, MadeReady DEF MakeReady, QueueTypes, WorkTypes
  <2>4. TasksInHand'
    BY <2>0, <2>1, <2>2, MadeReady DEF TasksInHand, WorkTypes, HasTask
  <2>5. (ConnTypes /\ EventTypes /\ FiberTypes)'
    BY <1>11 DEF MakeReady, ConnTypes, connVars, EventTypes, eventVars, FiberTypes, fiberVars
  <2> QED BY <2>1, <2>2, <2>3, <2>4, <2>5 DEF TypesKept
<1> QED BY <1>1, <1>2, <1>3, <1>4, <1>5, <1>6, <1>7, <1>8, <1>9, <1>10, <1>11

\* The end of do_work keeps the types.
LEMMA EndTypes ==
  ASSUME TypeOK, TasksInHand, NEW w \in Workers,
         Rearm(w) \/ Doom(w) \/ Escape(w) \/ CheckStatus(w) \/ Enqueue(w) \/ End(w)
  PROVE  TypesKept
<1> USE Types DEF Set
<1>1. CASE Rearm(w)
  <2>0. task[w] \in TCBs
    BY <1>1 DEF Rearm, At, TasksInHand, HasTask
  <2>1. ConnTypes'
    <3>1. status' = status \/ status' = Set(status, task[w], -2)
      BY <1>1 DEF Rearm
    <3>2. status' \in [TCBs -> {-2, -1, 0}]
      BY <3>1 DEF ConnTypes
    <3> QED BY <1>1, <3>2 DEF Rearm, ConnTypes
  <2>2. EventTypes'
    <3>1. \/ armed' = armed /\ events' = events
          \/ armed' = Set(armed, task[w], TRUE) /\ events' = Set(events, task[w], "none")
      BY <1>1 DEF Rearm, Register
    <3>2. armed' \in [TCBs -> BOOLEAN] /\ events' \in [TCBs -> {"none", "io", "timeout"}]
      BY <3>1 DEF EventTypes
    <3> QED BY <1>1, <3>2 DEF Rearm, EventTypes
  <2>3. WorkTypes'
    BY <2>0, <1>1 DEF Rearm, Register, WorkTypes, Goto, Labels, HasTask
  <2>4. TasksInHand'
    BY <2>0, <1>1 DEF Rearm, Register, TasksInHand, WorkTypes, Goto, HasTask
  <2>5. (QueueTypes /\ FiberTypes)'
    BY <1>1 DEF Rearm, Register, QueueTypes, queueVars, FiberTypes, fiberVars
  <2> QED BY <2>1, <2>2, <2>3, <2>4, <2>5 DEF TypesKept
<1>2. CASE Doom(w)
  <2>0. task[w] \in TCBs
    BY <1>2 DEF Doom, At, TasksInHand, HasTask
  <2>1. ConnTypes'
    BY <2>0, <1>2 DEF Doom, ConnTypes
  <2>2. EventTypes'
    <3>1. CASE CanRegister(task[w])
      BY <1>2, <3>1 DEF Doom, EventTypes
    <3>2. CASE ~CanRegister(task[w])
      BY <1>2, <3>2 DEF Doom, EventTypes
    <3> QED BY <3>1, <3>2
  <2>3. WorkTypes'
    BY <2>0, <1>2 DEF Doom, WorkTypes, Goto, Labels, HasTask
  <2>4. TasksInHand'
    BY <2>0, <1>2 DEF Doom, TasksInHand, WorkTypes, Goto, HasTask
  <2>5. (QueueTypes /\ FiberTypes)'
    BY <1>2 DEF Doom, QueueTypes, queueVars, FiberTypes, fiberVars
  <2> QED BY <2>1, <2>2, <2>3, <2>4, <2>5 DEF TypesKept
<1>3. CASE Escape(w)
  <2>0. task[w] \in TCBs
    BY <1>3 DEF Escape, At, TasksInHand, HasTask
  <2>1. EventTypes'
    BY <2>0, <1>3 DEF Escape, EventTypes
  <2>2. WorkTypes'
    BY <2>0, <1>3 DEF Escape, WorkTypes, Goto, Labels, HasTask
  <2>3. TasksInHand'
    BY <2>0, <1>3 DEF Escape, TasksInHand, WorkTypes, Goto, HasTask
  <2>4. (QueueTypes /\ ConnTypes /\ FiberTypes)'
    BY <1>3 DEF Escape, QueueTypes, queueVars, ConnTypes, connVars, FiberTypes, fiberVars
  <2> QED BY <2>1, <2>2, <2>3, <2>4 DEF TypesKept
<1>4. CASE CheckStatus(w)
  <2>0. task[w] \in TCBs
    BY <1>4 DEF CheckStatus, At, TasksInHand, HasTask
  <2>1. ConnTypes'
    <3>1. CASE status[task[w]] = -2
      BY <1>4, <3>1 DEF CheckStatus, CloseClient, ConnTypes
    <3>2. CASE status[task[w]] # -2
      BY <1>4, <3>2 DEF CheckStatus, ConnTypes
    <3> QED BY <3>1, <3>2
  <2>2. EventTypes'
    <3>1. CASE status[task[w]] = -2
      BY <1>4, <3>1 DEF CheckStatus, CloseClient, EventTypes
    <3>2. CASE status[task[w]] # -2
      BY <1>4, <3>2 DEF CheckStatus, EventTypes, eventVars
    <3> QED BY <3>1, <3>2
  <2>3. FiberTypes'
    <3>1. CASE status[task[w]] = -2
      BY <1>4, <3>1 DEF CheckStatus, CloseClient, FiberTypes
    <3>2. CASE status[task[w]] # -2
      BY <1>4, <3>2 DEF CheckStatus, FiberTypes
    <3> QED BY <3>1, <3>2
  <2>4. WorkTypes'
    BY <2>0, <1>4 DEF CheckStatus, CloseClient, WorkTypes, Goto, Labels, HasTask
  <2>5. TasksInHand'
    BY <2>0, <1>4 DEF CheckStatus, CloseClient, TasksInHand, WorkTypes, Goto, HasTask
  <2>6. (QueueTypes)'
    BY <1>4 DEF CheckStatus, CloseClient, QueueTypes, queueVars
  <2> QED BY <2>1, <2>2, <2>3, <2>4, <2>5, <2>6 DEF TypesKept
<1>5. CASE Enqueue(w)
  <2>0. task[w] \in TCBs
    BY <1>5 DEF Enqueue, At, TasksInHand, HasTask
  <2>1. QueueTypes'
    BY <2>0, <1>5, Appended DEF Enqueue, AddFree, QueueTypes
  <2>2. WorkTypes'
    BY <2>0, <1>5, Appended DEF Enqueue, AddFree, WorkTypes, Goto, Labels, HasTask
  <2>3. TasksInHand'
    BY <2>0, <1>5 DEF Enqueue, AddFree, TasksInHand, WorkTypes, Goto, HasTask
  <2>4. (ConnTypes /\ EventTypes /\ FiberTypes)'
    BY <1>5 DEF Enqueue, AddFree, ConnTypes, connVars, EventTypes, eventVars, FiberTypes, fiberVars
  <2> QED BY <2>1, <2>2, <2>3, <2>4 DEF TypesKept
<1>6. CASE End(w)
  <2>0. task[w] \in TCBs
    BY <1>6 DEF End, At, TasksInHand, HasTask
  <2>1. FiberTypes'
    BY <2>0, <1>6 DEF End, Return, Found, FiberTypes
  <2>2. WorkTypes'
    BY <2>0, <1>6 DEF End, Return, Found, WorkTypes, Goto, Labels, HasTask
  <2>3. TasksInHand'
    BY <2>0, <1>6 DEF End, Return, Found, TasksInHand, WorkTypes, Goto, HasTask
  <2>4. (QueueTypes /\ ConnTypes /\ EventTypes)'
    BY <1>6 DEF End, Return, Found, QueueTypes, queueVars, ConnTypes, connVars, EventTypes,
       eventVars
  <2> QED BY <2>1, <2>2, <2>3, <2>4 DEF TypesKept
<1> QED BY <1>1, <1>2, <1>3, <1>4, <1>5, <1>6

-----------------------------------------------------------------------------
(* What a step leaves alone. *)

Holds(w, i) == task[w] = i /\ pc[w] \in HasTask

\* The step concerns neither task i nor the workers that have it.
Untouched(i) ==
  /\ \A w \in Workers : Holds(w, i) \/ Holds(w, i)' =>
       task'[w] = task[w] /\ pc'[w] = pc[w] /\ ret'[w] = ret[w] /\ sync'[w] = sync[w]
  /\ (In(freeq, i)' <=> In(freeq, i)) /\ (In(ready, i)' <=> In(ready, i))
  /\ (i \in parked)' <=> (i \in parked)
  /\ open'[i] = open[i] /\ armed'[i] = armed[i] /\ events'[i] = events[i]
  /\ status'[i] = status[i] /\ AIO_flg'[i] = AIO_flg[i]
  /\ lock'[i] = lock[i] /\ link'[i] = link[i] /\ saved'[i] = saved[i]

\* What is said of a task holds on, whatever is done with the others.
LEMMA UntouchedKept ==
  ASSUME NEW i \in TCBs, Kept(i), Untouched(i)
  PROVE  Kept(i)'
<1> USE DEF Kept, Untouched, Holds, HasTask, At
<1>1. \A w \in Workers : Owns(w, i)' = Owns(w, i)
  BY DEF Owns
<1>2. InQueue(i)' = InQueue(i) /\ Listens(i)' = Listens(i)
  BY DEF InQueue, Listens
<1>3. InOnePlace(i)'
  BY <1>1, <1>2 DEF InOnePlace
<1>4. EndsAlone(i)'
  BY <1>2 DEF EndsAlone, Alone, Holders
<1>5. FiberKept(i)'
  <2>1. \A w \in Workers, l \in HasTask : (task[w] = i /\ At(w, l))' <=> task[w] = i /\ At(w, l)
    OBVIOUS
  <2>2. (lock[i] # Nobody => lock[i] \in Workers /\ task[lock[i]] = i /\ At(lock[i], "swap"))'
    BY <2>1 DEF FiberKept
  <2>3. ASSUME NEW w \in Workers, task'[w] = i, pc'[w] = "swap"
        PROVE  /\ lock'[i] = w /\ AIO_flg'[i]
               /\ \/ link'[i] = w
                  \/ link'[i] \in Workers /\ task'[link'[i]] = i /\ pc'[link'[i]] = "lock"
               /\ \A v \in Workers : task'[v] = i => pc'[v] # "yield"
    BY <2>1, <2>3 DEF FiberKept
  <2>4. ASSUME NEW w \in Workers, task'[w] = i
        PROVE  /\ Owns(w, i)' /\ AIO_flg'[i] => pc'[w] \in {"picked", "dispatch", "lock", "yield"}
               /\ pc'[w] \in {"lock", "yield"} => AIO_flg'[i]
               /\ pc'[w] = "lock" \/ (pc'[w] \in {"work", "run", "yield"} /\ ~sync'[w]) => link'[i] = w
               /\ pc'[w] = "yield" => ~sync'[w]
    BY <2>4, <1>1 DEF FiberKept, Owns
  <2>5. (AIO_flg[i] =>
           saved[i] \/ lock[i] # Nobody \/ \E w \in Workers : task[w] = i /\ At(w, "yield"))'
    BY <2>1 DEF FiberKept
  <2> QED BY <2>2, <2>3, <2>4, <2>5 DEF FiberKept
<1> QED BY <1>3, <1>4, <1>5

\* A step concerns one task at most and keeps what is said of it.
Concerns(i) == (QueuesApart /\ Awake)' /\ (\A j \in TCBs \ {i} : Untouched(j)) /\ Kept(i)'

\* A step that concerns one task keeps the invariant.
LEMMA OneTask ==
  ASSUME TPoolInv, NEW i \in TCBs, Concerns(i), TypesKept
  PROVE  TPoolInv'
<1>1. \A j \in TCBs \ {i} : Kept(j)'
  BY UntouchedKept DEF TPoolInv, Concerns
<1> QED BY <1>1 DEF TPoolInv, Concerns, TypesKept

\* A step that concerns no task concerns any of them.
LEMMA NoTask ==
  ASSUME TPoolInv, (QueuesApart /\ Awake)', \A j \in TCBs : Untouched(j), NEW i \in TCBs
  PROVE  Concerns(i)
BY UntouchedKept DEF TPoolInv, Concerns

\* The step is one of worker w, which has task i, and touches no queue.
Only(w, i) ==
  /\ UNCHANGED queueVars
  /\ task'[w] \in {i, Nobody} /\ pc'[w] \notin {"condwait", "epoll"}
  /\ \A v \in Workers \ {w} :
       task'[v] = task[v] /\ pc'[v] = pc[v] /\ ret'[v] = ret[v] /\ sync'[v] = sync[v]
  /\ \A j \in TCBs \ {i} :
       /\ open'[j] = open[j] /\ armed'[j] = armed[j] /\ events'[j] = events[j]
       /\ status'[j] = status[j] /\ AIO_flg'[j] = AIO_flg[j]
       /\ lock'[j] = lock[j] /\ link'[j] = link[j] /\ saved'[j] = saved[j]

\* Such a step keeps the queues apart, its worker awake and the other tasks.
LEMMA OnlyIt ==
  ASSUME NEW w \in Workers, NEW i \in TCBs, TPoolInv, task[w] = i, Only(w, i), Kept(i)'
  PROVE  Concerns(i)
<1>1. (QueuesApart /\ Awake)'
  BY DEF Only, queueVars, TPoolInv, QueuesApart, Awake, Once, In
<1>2. \A j \in TCBs \ {i} : Untouched(j)
  BY TPoolAssumption DEF Only, queueVars, Untouched, Holds, In
<1> QED BY <1>1, <1>2 DEF Concerns

\* The owner of a task keeps it.
LEMMA Keeps ==
  ASSUME NEW w \in Workers, NEW i \in TCBs, Only(w, i), InOnePlace(i), Owns(w, i), Owns(w, i)',
         Listens(i)' => Listens(i), task[w] = i, status'[i] = -2 => status[i] = -2 \/ Alone(w, i)
  PROVE  InOnePlace(i)'
<1>1. ASSUME NEW v \in Workers \ {w} PROVE ~Owns(v, i)'
  <2>1. ~Owns(v, i) /\ (Alone(w, i) => v \notin Holders(i))
    BY DEF InOnePlace, Alone
  <2> QED BY <2>1 DEF Only, Owns, At, Holders, HasTask
<1>2. ~InQueue(i)' /\ ~Listens(i)'
  BY DEF InOnePlace, Only, queueVars, InQueue, In
<1> QED BY <1>1, <1>2 DEF InOnePlace

\* A worker that does not own its task leaves it where it is.
LEMMA Leaves ==
  ASSUME NEW w \in Workers, NEW i \in TCBs, Only(w, i), InOnePlace(i), ~Owns(w, i), ~Owns(w, i)',
         Listens(i)' <=> Listens(i), status'[i] = status[i]
  PROVE  InOnePlace(i)'
<1>1. ASSUME NEW v \in Workers PROVE Owns(v, i)' <=> Owns(v, i)
  BY DEF Only, Owns, At
<1>2. InQueue(i)' <=> InQueue(i)
  BY DEF Only, queueVars, InQueue, In
<1> QED BY <1>1, <1>2 DEF InOnePlace

\* A task that nobody owns any more waits in a queue or in epoll.
LEMMA Releases ==
  ASSUME NEW i \in TCBs, \A v \in Workers : ~Owns(v, i)',
         (Listens(i) \/ InQueue(i))', ~(Listens(i) /\ InQueue(i))'
  PROVE  InOnePlace(i)'
BY DEF InOnePlace

\* The owner of a task gives it to epoll.
LEMMA Registers ==
  ASSUME NEW w \in Workers, NEW i \in TCBs, Only(w, i), InOnePlace(i), Owns(w, i), ~Owns(w, i)',
         Listens(i)', status'[i] = status[i]
  PROVE  InOnePlace(i)'
<1>1. ASSUME NEW v \in Workers PROVE ~Owns(v, i)'
  BY DEF Only, Owns, At, InOnePlace
<1>2. ~InQueue(i)'
  BY DEF InOnePlace, Only, queueVars, InQueue, In
<1> QED BY <1>1, <1>2, Releases

\* A task stays where it is, and with its owner.
LEMMA SamePlace ==
  ASSUME NEW i \in TCBs, InOnePlace(i), \A v \in Workers : Owns(v, i)' <=> Owns(v, i),
         InQueue(i)' <=> InQueue(i), Listens(i)' <=> Listens(i)
  PROVE  InOnePlace(i)'
BY DEF InOnePlace

\* A task that gets an owner has left the queue and epoll.
LEMMA Takes ==
  ASSUME NEW i \in TCBs, NEW w \in Workers, \A v \in Workers : Owns(v, i)' <=> v = w,
         ~(Listens(i) \/ InQueue(i))'
  PROVE  InOnePlace(i)'
BY DEF InOnePlace

-----------------------------------------------------------------------------
(* The steps of a worker with its task. *)

USE DEF Set, Goto, At

\* The owner of a task goes on with it.
LEMMA Serves ==
  ASSUME Quiet, TPoolInv, TypesKept, NEW w \in Workers, NEW i \in TCBs, task[w] = i,
         \/ Dispatch(w) \/ Resume(w) \/ Work(w) \/ Yield(w) \/ SetCallback(w) \/ ClearCallback(w)
         \/ Reply(w) \/ Fail(w) \/ Doom(w)
         \/ Picked(w) /\ (AIO_flg[i] \/ call_back[i])
         \/ YieldLock(w) /\ pc'[w] = "run"
         \/ Rearm(w) /\ ~(CanRegister(i) /\ Register(i) /\ UNCHANGED status)
         \/ CheckStatus(w) /\ status[i] = -2
  PROVE  Concerns(i)
<1>a. TPoolInv /\ task[w] = i /\ Kept(i) /\ ConnTypes /\ EventTypes /\ FiberTypes /\ WorkTypes
  BY Types DEF TPoolInv
<1>1. ASSUME Dispatch(w) PROVE Concerns(i)
  <2>1. Only(w, i)
    BY <1>a, <1>1 DEF Dispatch, Only, ConnTypes, EventTypes, FiberTypes, WorkTypes, queueVars,
       connVars, eventVars
  <2>2. InOnePlace(i)'
    BY <1>a, <1>1, <2>1, Keeps DEF Dispatch, Kept, Owns, Listens, EndsAlone, Alone, Holders,
       HasTask, ConnTypes, EventTypes, WorkTypes, queueVars, connVars, eventVars
  <2>3. EndsAlone(i)'
    BY <1>a, <1>1 DEF Dispatch, Kept, InOnePlace, Owns, EndsAlone, Alone, Holders, HasTask, In,
       ConnTypes, EventTypes, FiberTypes, WorkTypes, queueVars, connVars, eventVars
  <2>4. FiberKept(i)'
    BY <1>a, <1>1, TPoolAssumption DEF Dispatch, Kept, InOnePlace, Owns, FiberKept, ConnTypes,
       FiberTypes, WorkTypes, queueVars, connVars, eventVars
  <2> QED BY <2>1, <2>2, <2>3, <2>4, OnlyIt DEF Kept
<1>2. ASSUME Resume(w) PROVE Concerns(i)
  <2>1. Only(w, i)
    BY <1>a, <1>2 DEF Resume, Only, ConnTypes, EventTypes, FiberTypes, WorkTypes, queueVars,
       connVars
  <2>2. InOnePlace(i)'
    BY <1>a, <1>2, <2>1, Keeps DEF Resume, Kept, Owns, Listens, EndsAlone, Alone, Holders, HasTask,
       ConnTypes, EventTypes, WorkTypes, queueVars, connVars
  <2>3. EndsAlone(i)'
    BY <1>a, <1>2 DEF Resume, Kept, InOnePlace, Owns, EndsAlone, Alone, Holders, HasTask, In,
       ConnTypes, EventTypes, FiberTypes, WorkTypes, queueVars, connVars
  <2>4. FiberKept(i)'
    BY <1>a, <1>2, TPoolAssumption DEF Resume, Kept, InOnePlace, Owns, FiberKept, ConnTypes,
       FiberTypes, WorkTypes, queueVars, connVars
  <2> QED BY <2>1, <2>2, <2>3, <2>4, OnlyIt DEF Kept
<1>3. ASSUME Work(w) PROVE Concerns(i)
  <2>1. Only(w, i)
    BY <1>a, <1>3 DEF Work, Only, ConnTypes, EventTypes, FiberTypes, WorkTypes, queueVars,
       connVars, fiberVars
  <2>2. InOnePlace(i)'
    BY <1>a, <1>3, <2>1, Keeps DEF Work, Kept, Owns, Listens, EndsAlone, Alone, Holders, HasTask,
       ConnTypes, EventTypes, WorkTypes, queueVars, connVars, fiberVars
  <2>3. EndsAlone(i)'
    BY <1>a, <1>3 DEF Work, Kept, InOnePlace, Owns, EndsAlone, Alone, Holders, HasTask, In,
       ConnTypes, EventTypes, FiberTypes, WorkTypes, queueVars, connVars, fiberVars
  <2>4. FiberKept(i)'
    BY <1>a, <1>3, TPoolAssumption DEF Work, Kept, InOnePlace, Owns, FiberKept, ConnTypes,
       FiberTypes, WorkTypes, queueVars, connVars, fiberVars
  <2> QED BY <2>1, <2>2, <2>3, <2>4, OnlyIt DEF Kept
<1>4. ASSUME Yield(w) PROVE Concerns(i)
  <2>1. Only(w, i)
    BY <1>a, <1>4 DEF Yield, Only, ConnTypes, EventTypes, FiberTypes, WorkTypes, queueVars, connVars
  <2>2. InOnePlace(i)'
    BY <1>a, <1>4, <2>1, Keeps DEF Yield, Kept, Owns, Listens, EndsAlone, Alone, Holders, HasTask,
       ConnTypes, EventTypes, WorkTypes, queueVars, connVars
  <2>3. EndsAlone(i)'
    BY <1>a, <1>4 DEF Yield, Kept, InOnePlace, Owns, EndsAlone, Alone, Holders, HasTask, In,
       ConnTypes, EventTypes, FiberTypes, WorkTypes, queueVars, connVars
  <2>4. FiberKept(i)'
    BY <1>a, <1>4, TPoolAssumption DEF Yield, Kept, InOnePlace, Owns, FiberKept, ConnTypes,
       FiberTypes, WorkTypes, queueVars, connVars
  <2> QED BY <2>1, <2>2, <2>3, <2>4, OnlyIt DEF Kept
<1>5. ASSUME SetCallback(w) PROVE Concerns(i)
  <2>1. Only(w, i)
    BY <1>a, <1>5 DEF SetCallback, Only, ConnTypes, EventTypes, FiberTypes, WorkTypes, queueVars,
       fiberVars, workVars
  <2>2. InOnePlace(i)'
    BY <1>a, <1>5, <2>1, Keeps DEF SetCallback, Kept, Owns, Listens, EndsAlone, Alone, Holders,
       HasTask, ConnTypes, EventTypes, WorkTypes, queueVars, fiberVars, workVars
  <2>3. EndsAlone(i)'
    BY <1>a, <1>5 DEF SetCallback, Kept, InOnePlace, Owns, EndsAlone, Alone, Holders, HasTask, In,
       ConnTypes, EventTypes, FiberTypes, WorkTypes, queueVars, fiberVars, workVars
  <2>4. FiberKept(i)'
    BY <1>a, <1>5, TPoolAssumption DEF SetCallback, Kept, InOnePlace, Owns, FiberKept, ConnTypes,
       FiberTypes, WorkTypes, queueVars, fiberVars, workVars
  <2> QED BY <2>1, <2>2, <2>3, <2>4, OnlyIt DEF Kept
<1>6. ASSUME ClearCallback(w) PROVE Concerns(i)
  <2>1. Only(w, i)
    BY <1>a, <1>6 DEF ClearCallback, eventVars, CanRegister, Only, ConnTypes, EventTypes, FiberTypes,
       WorkTypes, queueVars, fiberVars, workVars
  <2>2. InOnePlace(i)'
    BY <1>a, <1>6, <2>1, Keeps DEF ClearCallback, eventVars, CanRegister, Kept, Owns, Listens, EndsAlone,
       Alone, Holders, HasTask, ConnTypes, EventTypes, WorkTypes, queueVars, fiberVars, workVars
  <2>3. EndsAlone(i)'
    BY <1>a, <1>6 DEF ClearCallback, eventVars, CanRegister, Kept, InOnePlace, Owns, EndsAlone, Alone,
       Holders, HasTask, In, ConnTypes, EventTypes, FiberTypes, WorkTypes, queueVars, fiberVars,
       workVars
  <2>4. FiberKept(i)'
    BY <1>a, <1>6, TPoolAssumption DEF ClearCallback, eventVars, CanRegister, Kept, InOnePlace, Owns,
       FiberKept, ConnTypes, FiberTypes, WorkTypes, queueVars, fiberVars, workVars
  <2> QED BY <2>1, <2>2, <2>3, <2>4, OnlyIt DEF Kept
<1>7. ASSUME Reply(w) PROVE Concerns(i)
  <2>1. Only(w, i)
    BY <1>a, <1>7 DEF Reply, Answer, Only, ConnTypes, EventTypes, FiberTypes, WorkTypes, queueVars,
       eventVars, fiberVars
  <2>2. InOnePlace(i)'
    BY <1>a, <1>7, <2>1, Keeps DEF Reply, Answer, Kept, Owns, Listens, EndsAlone, Alone, Holders,
       HasTask, ConnTypes, EventTypes, WorkTypes, queueVars, eventVars, fiberVars
  <2>3. EndsAlone(i)'
    BY <1>a, <1>7 DEF Reply, Answer, Kept, InOnePlace, Owns, EndsAlone, Alone, Holders, HasTask,
       In, ConnTypes, EventTypes, FiberTypes, WorkTypes, queueVars, eventVars, fiberVars
  <2>4. FiberKept(i)'
    BY <1>a, <1>7, TPoolAssumption DEF Reply, Answer, Kept, InOnePlace, Owns, FiberKept, ConnTypes,
       FiberTypes, WorkTypes, queueVars, eventVars, fiberVars
  <2> QED BY <2>1, <2>2, <2>3, <2>4, OnlyIt DEF Kept
<1>8. ASSUME Fail(w) PROVE Concerns(i)
  <2>1. Only(w, i)
    BY <1>a, <1>8 DEF Fail, Answer, Only, ConnTypes, EventTypes, FiberTypes, WorkTypes, queueVars,
       connVars, eventVars, fiberVars
  <2>2. InOnePlace(i)'
    BY <1>a, <1>8, <2>1, Keeps DEF Fail, Answer, Kept, Owns, Listens, EndsAlone, Alone, Holders,
       HasTask, ConnTypes, EventTypes, WorkTypes, queueVars, connVars, eventVars, fiberVars
  <2>3. EndsAlone(i)'
    BY <1>a, <1>8 DEF Fail, Answer, Kept, InOnePlace, Owns, EndsAlone, Alone, Holders, HasTask, In,
       ConnTypes, EventTypes, FiberTypes, WorkTypes, queueVars, connVars, eventVars, fiberVars
  <2>4. FiberKept(i)'
    BY <1>a, <1>8, TPoolAssumption DEF Fail, Answer, Kept, InOnePlace, Owns, FiberKept, ConnTypes,
       FiberTypes, WorkTypes, queueVars, connVars, eventVars, fiberVars
  <2> QED BY <2>1, <2>2, <2>3, <2>4, OnlyIt DEF Kept
<1>9. ASSUME Doom(w) PROVE Concerns(i)
  <2>0. Alone(w, i)
    BY <1>9 DEF Doom, NotOvertaken, Quiet, Alone
  <2>1. Only(w, i)
    BY <1>a, <1>9, <2>0 DEF Doom, CanRegister, NotOvertaken, Only, ConnTypes, EventTypes,
       FiberTypes, WorkTypes, queueVars, fiberVars
  <2>2. InOnePlace(i)'
    BY <1>a, <1>9, <2>0, <2>1, Keeps DEF Doom, CanRegister, NotOvertaken, Kept, Owns, Listens,
       EndsAlone, Alone, Holders, HasTask, ConnTypes, EventTypes, WorkTypes, queueVars, fiberVars
  <2>3. EndsAlone(i)'
    BY <1>a, <1>9, <2>0 DEF Doom, CanRegister, NotOvertaken, Kept, InOnePlace, Owns, EndsAlone,
       Alone, Holders, HasTask, In, ConnTypes, EventTypes, FiberTypes, WorkTypes, queueVars,
       fiberVars
  <2>4. FiberKept(i)'
    BY <1>a, <1>9, <2>0, TPoolAssumption DEF Doom, CanRegister, NotOvertaken, Kept, InOnePlace,
       Owns, FiberKept, ConnTypes, FiberTypes, WorkTypes, queueVars, fiberVars
  <2> QED BY <2>1, <2>2, <2>3, <2>4, OnlyIt DEF Kept
<1>10. ASSUME Picked(w), (AIO_flg[i] \/ call_back[i]) PROVE Concerns(i)
  <2>1. Only(w, i)
    BY <1>a, <1>10 DEF Picked, Register, Only, ConnTypes, EventTypes, FiberTypes, WorkTypes,
       queueVars, connVars, fiberVars
  <2>2. InOnePlace(i)'
    BY <1>a, <1>10, <2>1, Keeps DEF Picked, Register, Kept, Owns, Listens, EndsAlone, Alone,
       Holders, HasTask, ConnTypes, EventTypes, WorkTypes, queueVars, connVars, fiberVars
  <2>3. EndsAlone(i)'
    BY <1>a, <1>10 DEF Picked, Register, Kept, InOnePlace, Owns, EndsAlone, Alone, Holders,
       HasTask, In, ConnTypes, EventTypes, FiberTypes, WorkTypes, queueVars, connVars, fiberVars
  <2>4. FiberKept(i)'
    BY <1>a, <1>10, TPoolAssumption DEF Picked, Register, Kept, InOnePlace, Owns, FiberKept,
       ConnTypes, FiberTypes, WorkTypes, queueVars, connVars, fiberVars
  <2> QED BY <2>1, <2>2, <2>3, <2>4, OnlyIt DEF Kept
<1>11. ASSUME YieldLock(w), pc'[w] = "run" PROVE Concerns(i)
  <2>1. Only(w, i)
    BY <1>a, <1>11 DEF YieldLock, CanRegister, Register, Only, ConnTypes, EventTypes, FiberTypes,
       WorkTypes, queueVars, connVars
  <2>2. InOnePlace(i)'
    BY <1>a, <1>11, <2>1, Keeps DEF YieldLock, CanRegister, Register, Kept, Owns, Listens,
       EndsAlone, Alone, Holders, HasTask, ConnTypes, EventTypes, WorkTypes, queueVars, connVars
  <2>3. EndsAlone(i)'
    BY <1>a, <1>11 DEF YieldLock, CanRegister, Register, Kept, InOnePlace, Owns, EndsAlone, Alone,
       Holders, HasTask, In, ConnTypes, EventTypes, FiberTypes, WorkTypes, queueVars, connVars
  <2>4. FiberKept(i)'
    BY <1>a, <1>11, TPoolAssumption DEF YieldLock, CanRegister, Register, Kept, InOnePlace, Owns,
       FiberKept, ConnTypes, FiberTypes, WorkTypes, queueVars, connVars
  <2> QED BY <2>1, <2>2, <2>3, <2>4, OnlyIt DEF Kept
<1>12. ASSUME Rearm(w), ~(CanRegister(i) /\ Register(i) /\ UNCHANGED status) PROVE Concerns(i)
  <2>0. Alone(w, i)
    BY <1>12 DEF Rearm, NotOvertaken, Quiet, Alone
  <2>1. Only(w, i)
    BY <1>a, <1>12, <2>0 DEF Rearm, CanRegister, Register, NotOvertaken, Only, ConnTypes,
       EventTypes, FiberTypes, WorkTypes, queueVars, fiberVars
  <2>2. InOnePlace(i)'
    BY <1>a, <1>12, <2>0, <2>1, Keeps DEF Rearm, CanRegister, Register, NotOvertaken, Kept, Owns,
       Listens, EndsAlone, Alone, Holders, HasTask, ConnTypes, EventTypes, WorkTypes, queueVars,
       fiberVars
  <2>3. EndsAlone(i)'
    BY <1>a, <1>12, <2>0 DEF Rearm, CanRegister, Register, NotOvertaken, Kept, InOnePlace, Owns,
       EndsAlone, Alone, Holders, HasTask, In, ConnTypes, EventTypes, FiberTypes, WorkTypes,
       queueVars, fiberVars
  <2>4. FiberKept(i)'
    BY <1>a, <1>12, <2>0, TPoolAssumption DEF Rearm, CanRegister, Register, NotOvertaken, Kept,
       InOnePlace, Owns, FiberKept, ConnTypes, FiberTypes, WorkTypes, queueVars, fiberVars
  <2> QED BY <2>1, <2>2, <2>3, <2>4, OnlyIt DEF Kept
<1>13. ASSUME CheckStatus(w), status[i] = -2 PROVE Concerns(i)
  <2>1. Only(w, i)
    BY <1>a, <1>13 DEF CheckStatus, CloseClient, Only, ConnTypes, EventTypes, FiberTypes,
       WorkTypes, queueVars, eventVars
  <2>2. InOnePlace(i)'
    BY <1>a, <1>13, <2>1, Keeps DEF CheckStatus, CloseClient, Kept, Owns, Listens, EndsAlone,
       Alone, Holders, HasTask, ConnTypes, EventTypes, WorkTypes, queueVars, eventVars
  <2>3. EndsAlone(i)'
    BY <1>a, <1>13 DEF CheckStatus, CloseClient, Kept, InOnePlace, Owns, EndsAlone, Alone, Holders,
       HasTask, In, ConnTypes, EventTypes, FiberTypes, WorkTypes, queueVars, eventVars
  <2>4. FiberKept(i)'
    BY <1>a, <1>13, TPoolAssumption DEF CheckStatus, CloseClient, Kept, InOnePlace, Owns,
       FiberKept, ConnTypes, FiberTypes, WorkTypes, queueVars, eventVars
  <2> QED BY <2>1, <2>2, <2>3, <2>4, OnlyIt DEF Kept
<1> QED BY <1>1, <1>2, <1>3, <1>4, <1>5, <1>6, <1>7, <1>8, <1>9, <1>10, <1>11, <1>12, <1>13

\* A worker leaves a task that others may have by now.
LEMMA GivesUp ==
  ASSUME Quiet, TPoolInv, TypesKept, NEW w \in Workers, NEW i \in TCBs, task[w] = i,
         \/ Escape(w) \/ Swap(w) \/ End(w)
         \/ CheckStatus(w) /\ status[i] # -2
  PROVE  Concerns(i)
<1>a. TPoolInv /\ task[w] = i /\ Kept(i) /\ ConnTypes /\ EventTypes /\ FiberTypes /\ WorkTypes
  BY Types DEF TPoolInv
<1>1. ASSUME Escape(w) PROVE Concerns(i)
  <2>1. Only(w, i)
    BY <1>a, <1>1 DEF Escape, Only, ConnTypes, EventTypes, FiberTypes, WorkTypes, queueVars,
       connVars, fiberVars
  <2>2. InOnePlace(i)'
    BY <1>a, <1>1, <2>1, Leaves DEF Escape, Kept, Owns, Listens, EndsAlone, Alone, Holders,
       HasTask, ConnTypes, EventTypes, WorkTypes, queueVars, connVars, fiberVars
  <2>3. EndsAlone(i)'
    BY <1>a, <1>1 DEF Escape, Kept, InOnePlace, Owns, EndsAlone, Alone, Holders, HasTask, In,
       ConnTypes, EventTypes, FiberTypes, WorkTypes, queueVars, connVars, fiberVars
  <2>4. FiberKept(i)'
    <3>1. ~Owns(w, i)'
      BY <1>a, <1>1 DEF Escape, Owns, Kept, EndsAlone, Alone, Holders, HasTask, WorkTypes, connVars
    <3> QED
      BY <1>a, <1>1, <3>1, TPoolAssumption DEF Escape, Kept, Owns, FiberKept, ConnTypes,
         FiberTypes, WorkTypes, queueVars, connVars, fiberVars
  <2> QED BY <2>1, <2>2, <2>3, <2>4, OnlyIt DEF Kept
<1>2. ASSUME Swap(w) PROVE Concerns(i)
  <2>1. Only(w, i)
    BY <1>a, <1>2 DEF Swap, Return, Found, Quiet, Only, ConnTypes, EventTypes, FiberTypes,
       WorkTypes, queueVars, connVars, eventVars
  <2>2. InOnePlace(i)'
    BY <1>a, <1>2, <2>1, Leaves DEF Swap, Return, Found, Quiet, Kept, Owns, Listens, EndsAlone,
       Alone, Holders, HasTask, ConnTypes, EventTypes, WorkTypes, queueVars, connVars, eventVars
  <2>3. EndsAlone(i)'
    BY <1>a, <1>2 DEF Swap, Return, Found, Quiet, Kept, InOnePlace, Owns, EndsAlone, Alone,
       Holders, HasTask, In, ConnTypes, EventTypes, FiberTypes, WorkTypes, queueVars, connVars,
       eventVars
  <2>4. FiberKept(i)'
    BY <1>a, <1>2, TPoolAssumption DEF Swap, Return, Found, Quiet, Kept, InOnePlace, Owns,
       FiberKept, ConnTypes, FiberTypes, WorkTypes, queueVars, connVars, eventVars
  <2> QED BY <2>1, <2>2, <2>3, <2>4, OnlyIt DEF Kept
<1>3. ASSUME End(w) PROVE Concerns(i)
  <2>1. Only(w, i)
    BY <1>a, <1>3 DEF End, Return, Found, Quiet, Only, ConnTypes, EventTypes, FiberTypes,
       WorkTypes, queueVars, connVars, eventVars
  <2>2. InOnePlace(i)'
    BY <1>a, <1>3, <2>1, Leaves DEF End, Return, Found, Quiet, Kept, Owns, Listens, EndsAlone,
       Alone, Holders, HasTask, ConnTypes, EventTypes, WorkTypes, queueVars, connVars, eventVars
  <2>3. EndsAlone(i)'
    BY <1>a, <1>3 DEF End, Return, Found, Quiet, Kept, InOnePlace, Owns, EndsAlone, Alone, Holders,
       HasTask, In, ConnTypes, EventTypes, FiberTypes, WorkTypes, queueVars, connVars, eventVars
  <2>4. FiberKept(i)'
    BY <1>a, <1>3, TPoolAssumption DEF End, Return, Found, Quiet, Kept, InOnePlace, Owns,
       FiberKept, ConnTypes, FiberTypes, WorkTypes, queueVars, connVars, eventVars
  <2> QED BY <2>1, <2>2, <2>3, <2>4, OnlyIt DEF Kept
<1>4. ASSUME CheckStatus(w), status[i] # -2 PROVE Concerns(i)
  <2>1. Only(w, i)
    BY <1>a, <1>4 DEF CheckStatus, CloseClient, Only, ConnTypes, EventTypes, FiberTypes, WorkTypes,
       queueVars, eventVars
  <2>2. InOnePlace(i)'
    BY <1>a, <1>4, <2>1, Leaves DEF CheckStatus, CloseClient, Kept, Owns, Listens, EndsAlone,
       Alone, Holders, HasTask, ConnTypes, EventTypes, WorkTypes, queueVars, eventVars
  <2>3. EndsAlone(i)'
    BY <1>a, <1>4 DEF CheckStatus, CloseClient, Kept, InOnePlace, Owns, EndsAlone, Alone, Holders,
       HasTask, In, ConnTypes, EventTypes, FiberTypes, WorkTypes, queueVars, eventVars
  <2>4. FiberKept(i)'
    BY <1>a, <1>4, TPoolAssumption DEF CheckStatus, CloseClient, Kept, InOnePlace, Owns, FiberKept,
       ConnTypes, FiberTypes, WorkTypes, queueVars, eventVars
  <2> QED BY <2>1, <2>2, <2>3, <2>4, OnlyIt DEF Kept
<1> QED BY <1>1, <1>2, <1>3, <1>4

\* The owner of a task registers it and may be overtaken from now on.
LEMMA WaitsForClient ==
  ASSUME Quiet, TPoolInv, TypesKept, NEW w \in Workers, NEW i \in TCBs, task[w] = i,
         \/ SetEvent(w)
         \/ Picked(w) /\ ~(AIO_flg[i] \/ call_back[i])
         \/ YieldLock(w) /\ pc'[w] = "swap"
         \/ Rearm(w) /\ CanRegister(i) /\ Register(i) /\ UNCHANGED status
  PROVE  Concerns(i)
<1>a. TPoolInv /\ task[w] = i /\ Kept(i) /\ ConnTypes /\ EventTypes /\ FiberTypes /\ WorkTypes
  BY Types DEF TPoolInv
<1>1. ASSUME SetEvent(w) PROVE Concerns(i)
  <2>1. Only(w, i)
    BY <1>a, <1>1 DEF SetEvent, Answer, CanRegister, Register, Only, ConnTypes, EventTypes,
       FiberTypes, WorkTypes, queueVars, fiberVars
  <2>2. InOnePlace(i)'
    BY <1>a, <1>1, <2>1, Registers DEF SetEvent, Answer, CanRegister, Register, Kept, Owns,
       Listens, EndsAlone, Alone, Holders, HasTask, ConnTypes, EventTypes, WorkTypes, queueVars,
       fiberVars
  <2>3. EndsAlone(i)'
    BY <1>a, <1>1 DEF SetEvent, Answer, CanRegister, Register, Kept, InOnePlace, Owns, EndsAlone,
       Alone, Holders, HasTask, In, ConnTypes, EventTypes, FiberTypes, WorkTypes, queueVars,
       fiberVars
  <2>4. FiberKept(i)'
    BY <1>a, <1>1, TPoolAssumption DEF SetEvent, Answer, CanRegister, Register, Kept, InOnePlace,
       Owns, FiberKept, ConnTypes, FiberTypes, WorkTypes, queueVars, fiberVars
  <2> QED BY <2>1, <2>2, <2>3, <2>4, OnlyIt DEF Kept
<1>2. ASSUME Picked(w), ~(AIO_flg[i] \/ call_back[i]) PROVE Concerns(i)
  <2>0. open[i] /\ ~InQueue(i)
    <3>1. Owns(w, i) /\ ~InQueue(i) /\ \A v \in Workers : task[v] = i => pc[v] # "enqueue"
      BY <1>a, <1>2 DEF Picked, Kept, InOnePlace, Owns
    <3> QED BY <1>a, <3>1 DEF Kept, EndsAlone, InQueue
  <2>1. Only(w, i)
    BY <1>a, <1>2, <2>0 DEF Picked, Register, Only, ConnTypes, EventTypes, FiberTypes, WorkTypes,
       queueVars, connVars, fiberVars
  <2>2. InOnePlace(i)'
    BY <1>a, <1>2, <2>0, <2>1, Registers DEF Picked, Register, Kept, Owns, Listens, EndsAlone,
       Alone, Holders, HasTask, ConnTypes, EventTypes, WorkTypes, queueVars, connVars, fiberVars
  <2>3. EndsAlone(i)'
    BY <1>a, <1>2, <2>0 DEF Picked, Register, Kept, InOnePlace, Owns, EndsAlone, Alone, Holders,
       HasTask, In, ConnTypes, EventTypes, FiberTypes, WorkTypes, queueVars, connVars, fiberVars
  <2>4. FiberKept(i)'
    BY <1>a, <1>2, <2>0, TPoolAssumption DEF Picked, Register, Kept, InOnePlace, Owns, FiberKept,
       ConnTypes, FiberTypes, WorkTypes, queueVars, connVars, fiberVars
  <2> QED BY <2>1, <2>2, <2>3, <2>4, OnlyIt DEF Kept
<1>3. ASSUME YieldLock(w), pc'[w] = "swap" PROVE Concerns(i)
  <2>1. Only(w, i)
    BY <1>a, <1>3 DEF YieldLock, CanRegister, Register, Only, ConnTypes, EventTypes, FiberTypes,
       WorkTypes, queueVars, connVars
  <2>2. InOnePlace(i)'
    BY <1>a, <1>3, <2>1, Registers DEF YieldLock, CanRegister, Register, Kept, Owns, Listens,
       EndsAlone, Alone, Holders, HasTask, ConnTypes, EventTypes, WorkTypes, queueVars, connVars
  <2>3. EndsAlone(i)'
    BY <1>a, <1>3 DEF YieldLock, CanRegister, Register, Kept, InOnePlace, Owns, EndsAlone, Alone,
       Holders, HasTask, In, ConnTypes, EventTypes, FiberTypes, WorkTypes, queueVars, connVars
  <2>4. FiberKept(i)'
    BY <1>a, <1>3, TPoolAssumption DEF YieldLock, CanRegister, Register, Kept, InOnePlace, Owns,
       FiberKept, ConnTypes, FiberTypes, WorkTypes, queueVars, connVars
  <2> QED BY <2>1, <2>2, <2>3, <2>4, OnlyIt DEF Kept
<1>4. ASSUME Rearm(w), CanRegister(i) /\ Register(i) /\ UNCHANGED status PROVE Concerns(i)
  <2>1. Only(w, i)
    BY <1>a, <1>4 DEF Rearm, CanRegister, Register, NotOvertaken, Only, ConnTypes, EventTypes,
       FiberTypes, WorkTypes, queueVars, fiberVars
  <2>2. InOnePlace(i)'
    BY <1>a, <1>4, <2>1, Registers DEF Rearm, CanRegister, Register, NotOvertaken, Kept, Owns,
       Listens, EndsAlone, Alone, Holders, HasTask, ConnTypes, EventTypes, WorkTypes, queueVars,
       fiberVars
  <2>3. EndsAlone(i)'
    BY <1>a, <1>4 DEF Rearm, CanRegister, Register, NotOvertaken, Kept, InOnePlace, Owns,
       EndsAlone, Alone, Holders, HasTask, In, ConnTypes, EventTypes, FiberTypes, WorkTypes,
       queueVars, fiberVars
  <2>4. FiberKept(i)'
    BY <1>a, <1>4, TPoolAssumption DEF Rearm, CanRegister, Register, NotOvertaken, Kept,
       InOnePlace, Owns, FiberKept, ConnTypes, FiberTypes, WorkTypes, queueVars, fiberVars
  <2> QED BY <2>1, <2>2, <2>3, <2>4, OnlyIt DEF Kept
<1> QED BY <1>1, <1>2, <1>3, <1>4

\* The owner of a task puts it in a queue of the application.
LEMMA ParkStep ==
  ASSUME TPoolInv, TypesKept, NEW w \in Workers, NEW i \in TCBs, task[w] = i, Park(w)
  PROVE  Concerns(i)
<1>a. Kept(i) /\ QueueTypes /\ ConnTypes /\ EventTypes /\ FiberTypes /\ WorkTypes /\ WorkTypes'
  BY Types DEF TPoolInv, TypesKept
<1>1. (QueuesApart /\ Awake)'
  <2>1. QueuesApart'
    BY <1>a DEF Park, TPoolInv, QueuesApart, InQueue, Once, In
  <2>2. Awake'
    BY <1>a DEF Park, Answer, Awake, WorkTypes
  <2> QED BY <2>1, <2>2
<1>2. \A j \in TCBs \ {i} : Untouched(j)
  BY <1>a DEF Park, Answer, Untouched, Holds, ConnTypes, EventTypes, FiberTypes, WorkTypes,
     HasTask, fiberVars, In
<1>3. InOnePlace(i)'
  <2>1. Owns(w, i)
    BY <1>a DEF Park, Answer, Owns
  <2>2. \A v \in Workers : ~Owns(v, i)'
    BY <1>a, <2>1 DEF Park, Answer, Owns, WorkTypes, ConnTypes, EndsAlone, Kept, InOnePlace, Alone,
       Holders, HasTask, fiberVars, In
  <2>3. (Listens(i) \/ InQueue(i))' /\ ~(Listens(i) /\ InQueue(i))'
    BY <1>a, <2>1 DEF Park, Answer, Kept, InOnePlace, InQueue, Listens, EventTypes, fiberVars, In
  <2> QED BY <2>2, <2>3, Releases
<1>4. EndsAlone(i)'
  BY <1>a DEF Park, Answer, Kept, InOnePlace, Owns, EndsAlone, Alone, Holders, HasTask, ConnTypes,
     EventTypes, FiberTypes, WorkTypes, fiberVars, In
<1>5. FiberKept(i)'
  BY <1>a, TPoolAssumption DEF Park, Answer, Kept, InOnePlace, Owns, FiberKept, ConnTypes,
     FiberTypes, WorkTypes, fiberVars, In
<1> QED BY <1>1, <1>2, <1>3, <1>4, <1>5 DEF Concerns, Kept

\* The owner of a task makes it ready again.
LEMMA MakeReadyStep ==
  ASSUME TPoolInv, TypesKept, NEW w \in Workers, NEW i \in TCBs, task[w] = i, MakeReady(w)
  PROVE  Concerns(i)
<1>a. Kept(i) /\ QueueTypes /\ ConnTypes /\ EventTypes /\ FiberTypes /\ WorkTypes /\ WorkTypes'
  BY Types DEF TPoolInv, TypesKept
<1>b. ~InQueue(i) /\ Owns(w, i) /\ AddReady(i, [pc EXCEPT ![w] = "finish"])
  BY <1>a DEF MakeReady, Kept, InOnePlace, Owns
<1>c. /\ pc'[w] = "finish"
      /\ \A v \in Workers \ {w} : pc'[v] = pc[v] \/ (pc[v] = "condwait" /\ pc'[v] = "woken")
      /\ (\A j : In(ready, j)' <=> In(ready, j) \/ j = i) /\ (Once(ready) => Once(ready')) /\ Awake'
  <2>1. [pc EXCEPT ![w] = "finish"] \in [Workers -> Labels]
    BY <1>a DEF WorkTypes, Labels, HasTask
  <2>2. pc[w] = "run" /\ TypeOK /\ Awake
    BY DEF MakeReady, TPoolInv
  <2>3. \A v \in Workers : [pc EXCEPT ![w] = "finish"][v] = IF v = w THEN "finish" ELSE pc[v]
    BY <1>a DEF WorkTypes
  <2>4. \A v \in Workers : pc'[v] = [pc EXCEPT ![w] = "finish"][v] \/ (pc[v] = "condwait" /\ pc'[v] = "woken")
    BY <1>b, <2>1, <2>2, MadeReady
  <2>5. (\A j : In(ready, j)' <=> In(ready, j) \/ j = i) /\ (Once(ready) => Once(ready'))
    BY <1>b, <2>1, <2>2, MadeReady
  <2>6. Awake'
    <3>1. \A v \in Workers : [pc EXCEPT ![w] = "finish"][v] = pc[v]
                            \/ [pc EXCEPT ![w] = "finish"][v] \notin {"condwait", "epoll"}
      BY <2>3
    <3> QED BY <1>b, <2>1, <2>2, <3>1, ReadyIsSeen
  <2> QED BY <2>2, <2>3, <2>4, <2>5, <2>6
<1>d. (\A j : In(freeq, j)' <=> In(freeq, j)) /\ parked' = parked /\ UNCHANGED <<freeq, task, sync>>
      /\ ret' = [ret EXCEPT ![w] = "escape"] /\ pc[w] = "run"
      /\ UNCHANGED <<connVars, eventVars, fiberVars>>
  BY DEF MakeReady, In
<1>1. (QueuesApart /\ Awake)'
  BY <1>a, <1>b, <1>c, <1>d DEF TPoolInv, QueuesApart, InQueue
<1>2. \A j \in TCBs \ {i} : Untouched(j)
  BY <1>a, <1>c, <1>d DEF Untouched, Holds, WorkTypes, HasTask, connVars, eventVars, fiberVars
<1>3. InOnePlace(i)'
  <2>1. \A v \in Workers : ~Owns(v, i)'
    BY <1>a, <1>b, <1>c, <1>d DEF Owns, WorkTypes, Kept, InOnePlace, connVars
  <2>2. (Listens(i) \/ InQueue(i))' /\ ~(Listens(i) /\ InQueue(i))'
    BY <1>a, <1>b, <1>c, <1>d DEF Kept, InOnePlace, InQueue, Listens, eventVars
  <2> QED BY <2>1, <2>2, Releases
<1>4. EndsAlone(i)'
  BY <1>a, <1>b, <1>c, <1>d DEF Kept, InOnePlace, Owns, InQueue, EndsAlone, Alone, Holders,
     HasTask, WorkTypes, connVars, eventVars, fiberVars
<1>5. FiberKept(i)'
  BY <1>a, <1>b, <1>c, <1>d, TPoolAssumption DEF Kept, InOnePlace, Owns, FiberKept, WorkTypes,
     connVars, fiberVars
<1> QED BY <1>1, <1>2, <1>3, <1>4, <1>5 DEF Concerns, Kept

\* The last worker of a closed client puts its task in the free list.
LEMMA EnqueueStep ==
  ASSUME TPoolInv, TypesKept, NEW w \in Workers, NEW i \in TCBs, task[w] = i, Enqueue(w)
  PROVE  Concerns(i)
<1>a. Kept(i) /\ QueueTypes /\ ConnTypes /\ EventTypes /\ FiberTypes /\ WorkTypes /\ WorkTypes'
  BY Types DEF TPoolInv, TypesKept
<1>b. ~InQueue(i) /\ Owns(w, i) /\ UNCHANGED <<ready, parked>>
  BY <1>a DEF Enqueue, Kept, InOnePlace, Owns
<1>c. (\A j : In(freeq, j)' <=> In(freeq, j) \/ j = i) /\ (Once(freeq) => Once(freeq'))
  <2>1. freeq' = Append(freeq, i)
    BY <1>b DEF Enqueue, AddFree
  <2>2. In(freeq, i) => InQueue(i)
    BY DEF InQueue
  <2>3. \A j : In(freeq, j)' <=> In(freeq', j)
    BY DEF In
  <2> QED BY <1>a, <1>b, <2>1, <2>2, <2>3, Appended DEF QueueTypes
<1>1. (QueuesApart /\ Awake)'
  <2>1. QueuesApart'
    BY <1>a, <1>b, <1>c DEF TPoolInv, QueuesApart, InQueue, In
  <2>2. Awake'
    BY <1>a DEF Enqueue, Awake, WorkTypes
  <2> QED BY <2>1, <2>2
<1>2. \A j \in TCBs \ {i} : Untouched(j)
  BY <1>a, <1>c DEF Enqueue, Untouched, Holds, ConnTypes, EventTypes, FiberTypes, WorkTypes,
     HasTask, connVars, eventVars, fiberVars, In
<1>3. InOnePlace(i)'
  <2>1. Owns(w, i)
    BY <1>a DEF Enqueue, AddFree, InQueue, Owns
  <2>2. \A v \in Workers : ~Owns(v, i)'
    BY <1>a, <2>1 DEF Enqueue, AddFree, InQueue, Owns, WorkTypes, ConnTypes, EndsAlone, Kept,
       InOnePlace, Alone, Holders, HasTask, connVars, eventVars, fiberVars, In
  <2>3. (Listens(i) \/ InQueue(i))' /\ ~(Listens(i) /\ InQueue(i))'
    BY <1>a, <1>b, <1>c, <2>1 DEF Enqueue, Kept, InOnePlace, InQueue, Listens, EventTypes,
       connVars, eventVars, fiberVars, In
  <2> QED BY <2>2, <2>3, Releases
<1>4. EndsAlone(i)'
  BY <1>a, <1>b, <1>c DEF Enqueue, Kept, InOnePlace, Owns, EndsAlone, Alone, Holders, HasTask,
     ConnTypes, EventTypes, FiberTypes, WorkTypes, connVars, eventVars, fiberVars
<1>5. FiberKept(i)'
  BY <1>a, TPoolAssumption DEF Enqueue, AddFree, InQueue, Kept, InOnePlace, Owns, FiberKept,
     ConnTypes, FiberTypes, WorkTypes, connVars, eventVars, fiberVars, In
<1> QED BY <1>1, <1>2, <1>3, <1>4, <1>5 DEF Concerns, Kept

-----------------------------------------------------------------------------
(* A worker looks for something to do. *)

\* The last worker that is awake waits for the ready queue, never for events,
\* and only when nothing is ready.
LEMMA SleepStep ==
  ASSUME TPoolInv, TypesKept, NEW w \in Workers, Sleep(w), NEW i \in TCBs
  PROVE  Concerns(i)
<1>a. QueueTypes /\ ConnTypes /\ EventTypes /\ FiberTypes /\ WorkTypes /\ WorkTypes'
  BY Types DEF TPoolInv, TypesKept
<1>1. QueuesApart'
  BY DEF Sleep, queueVars, TPoolInv, QueuesApart, Once, In
<1>2. \E v \in Workers : pc'[v] # "epoll"
  <2>1. CASE flg(w) < RdyNum
    BY <1>a, <2>1 DEF Sleep, WorkTypes
  <2>2. CASE ~(flg(w) < RdyNum)
    <3> DEFINE Sleepers == {v \in Workers \ {w} : pc[v] \in {"condwait", "woken"}}
    <3>1. Sleepers # {}
      <4>1. SUFFICES ASSUME Sleepers = {} PROVE FALSE
        OBVIOUS
      <4>2. flg(w) = 0
        BY <4>1, FS_EmptySet DEF flg
      <4> QED BY <4>2, <2>2, TPoolAssumption
    <3>2. PICK v \in Workers \ {w} : pc[v] \in {"condwait", "woken"}
      BY <3>1
    <3>3. pc'[v] = pc[v]
      BY <1>a, <3>2 DEF Sleep, WorkTypes
    <3> QED BY <3>2, <3>3
  <2> QED BY <2>1, <2>2
<1>3. Awake'
  BY <1>2 DEF Awake, Sleep, queueVars
<1>4. \A j \in TCBs : Untouched(j)
  BY <1>a DEF Sleep, Untouched, Holds, ConnTypes, EventTypes, FiberTypes, WorkTypes, HasTask,
     queueVars, connVars, eventVars, fiberVars, In
<1> QED BY <1>1, <1>3, <1>4, NoTask

\* The first ready task gets an owner and leaves the queue.
LEMMA TakeReadyStep ==
  ASSUME TPoolInv, TypesKept, NEW w \in Workers, NEW i \in TCBs, TakeReady(w), i = Head(ready)
  PROVE  Concerns(i)
<1>a. Kept(i) /\ QueueTypes /\ ConnTypes /\ EventTypes /\ FiberTypes /\ WorkTypes /\ WorkTypes'
  BY Types DEF TPoolInv, TypesKept
<1>b. /\ In(ready, i)
      /\ \A j : In(ready, j)' <=> In(ready, j) /\ j # i
      /\ Once(ready')
  <2>1. ready \in Seq(TCBs) /\ ready # <<>> /\ Once(ready) /\ ready' = Tail(ready)
    BY <1>a DEF TakeReady, QueueTypes, TPoolInv, QueuesApart
  <2>2. \A j : In(ready, j)' <=> In(ready', j)
    BY DEF In
  <2> QED BY <2>1, <2>2, Taken
<1>c. ~Listens(i) /\ (\A v \in Workers : ~Owns(v, i)) /\ ~In(freeq, i) /\ i \notin parked
  BY <1>a, <1>b DEF Kept, InOnePlace, InQueue, TPoolInv, QueuesApart
<1>1. (QueuesApart /\ Awake)'
  <2>1. QueuesApart'
    BY <1>a, <1>b DEF TakeReady, TPoolInv, QueuesApart, In
  <2>2. Awake'
    BY <1>a DEF TakeReady, Awake, WorkTypes
  <2> QED BY <2>1, <2>2
<1>2. \A j \in TCBs \ {i} : Untouched(j)
  BY <1>a, <1>b DEF TakeReady, Untouched, Holds, ConnTypes, EventTypes, FiberTypes, WorkTypes,
     HasTask, connVars, eventVars, fiberVars, In
<1>3. InOnePlace(i)'
  <2>1. \A v \in Workers : Owns(v, i)' <=> v = w
    BY <1>a, <1>c DEF TakeReady, Owns, WorkTypes, connVars, eventVars, fiberVars
  <2>2. ~(Listens(i) \/ InQueue(i))'
    BY <1>a, <1>b, <1>c DEF TakeReady, Listens, InQueue, connVars, eventVars, fiberVars, In
  <2> QED BY <2>1, <2>2, Takes
<1>4. EndsAlone(i)'
  BY <1>a, <1>b, <1>c DEF TakeReady, Kept, Owns, EndsAlone, Alone, Holders, HasTask, ConnTypes,
     EventTypes, FiberTypes, WorkTypes, connVars, eventVars, fiberVars, In
<1>5. FiberKept(i)'
  BY <1>a, <1>c, TPoolAssumption DEF TakeReady, Kept, Owns, FiberKept, ConnTypes, FiberTypes,
     WorkTypes, HasTask, connVars, eventVars, fiberVars, In
<1> QED BY <1>1, <1>2, <1>3, <1>4, <1>5 DEF Concerns, Kept

\* An event reaches a worker: the task gets an owner, unless it has one.
LEMMA EventStep ==
  ASSUME TPoolInv, TypesKept, NEW w \in Workers, NEW i \in TCBs, Event(w, i)
  PROVE  Concerns(i)
<1>a. Kept(i) /\ QueueTypes /\ ConnTypes /\ EventTypes /\ FiberTypes /\ WorkTypes /\ WorkTypes'
  BY Types DEF TPoolInv, TypesKept
<1>1. (QueuesApart /\ Awake)'
  <2>1. QueuesApart'
    BY DEF Event, queueVars, TPoolInv, QueuesApart, Once, In
  <2>2. Awake'
    BY <1>a DEF Event, queueVars, Awake, WorkTypes
  <2> QED BY <2>1, <2>2
<1>2. \A j \in TCBs \ {i} : Untouched(j)
  BY <1>a DEF Event, Untouched, Holds, ConnTypes, EventTypes, FiberTypes, WorkTypes, HasTask,
     queueVars, connVars, fiberVars, In
<1>3. ASSUME events[i] = "none" PROVE Kept(i)'
  <2>1. Listens(i) /\ ~InQueue(i) /\ \A v \in Workers : ~Owns(v, i)
    BY <1>a, <1>3 DEF Event, Listens, Kept, InOnePlace
  <2>2. InOnePlace(i)'
    <3>1. \A v \in Workers : Owns(v, i)' <=> v = w
      BY <1>a, <1>3, <2>1 DEF Event, Owns, WorkTypes, connVars, fiberVars
    <3>2. ~(Listens(i) \/ InQueue(i))'
      BY <1>a, <2>1 DEF Event, Listens, InQueue, EventTypes, queueVars, In
    <3> QED BY <3>1, <3>2, Takes
  <2>3. EndsAlone(i)'
    BY <1>a, <1>3, <2>1 DEF Event, Kept, Owns, EndsAlone, Alone, Holders, HasTask, ConnTypes,
       EventTypes, FiberTypes, WorkTypes, queueVars, connVars, fiberVars, In
  <2>4. FiberKept(i)'
    BY <1>a, <1>3, <2>1, TPoolAssumption DEF Event, Kept, Owns, FiberKept, ConnTypes, FiberTypes,
       WorkTypes, HasTask, queueVars, connVars, fiberVars, In
  <2> QED BY <2>2, <2>3, <2>4 DEF Kept
<1>4. ASSUME events[i] # "none" PROVE Kept(i)'
  <2>1. ~Listens(i) /\ ~Listens(i)'
    BY <1>a, <1>4 DEF Event, Listens, EventTypes
  <2>2. InOnePlace(i)'
    <3>1. \A v \in Workers : Owns(v, i)' <=> Owns(v, i)
      BY <1>a, <1>4 DEF Event, Owns, WorkTypes, HasTask, connVars, fiberVars
    <3>2. InQueue(i)' <=> InQueue(i)
      BY DEF Event, InQueue, queueVars, In
    <3> QED BY <1>a, <2>1, <3>1, <3>2, SamePlace DEF Kept
  <2>3. EndsAlone(i)'
    BY <1>a, <1>4 DEF Event, Kept, EndsAlone, Alone, Holders, HasTask, ConnTypes, EventTypes,
       FiberTypes, WorkTypes, queueVars, connVars, fiberVars, In
  <2>4. FiberKept(i)'
    BY <1>a, <1>4, TPoolAssumption DEF Event, Kept, Owns, FiberKept, ConnTypes, FiberTypes,
       WorkTypes, HasTask, queueVars, connVars, fiberVars, In
  <2> QED BY <2>2, <2>3, <2>4 DEF Kept
<1> QED BY <1>1, <1>2, <1>3, <1>4 DEF Concerns, Kept

-----------------------------------------------------------------------------
(* The main thread and the threads of the application. *)

\* The first free task gets a client.
LEMMA AcceptStep ==
  ASSUME TPoolInv, TypesKept, NEW i \in TCBs, Accept, i = Head(freeq)
  PROVE  Concerns(i)
<1>a. Kept(i) /\ QueueTypes /\ ConnTypes /\ EventTypes /\ FiberTypes /\ WorkTypes /\ WorkTypes'
  BY Types DEF TPoolInv, TypesKept
<1>b. /\ In(freeq, i)
      /\ \A j : In(freeq, j)' <=> In(freeq, j) /\ j # i
      /\ Once(freeq')
  <2>1. freeq \in Seq(TCBs) /\ freeq # <<>> /\ Once(freeq) /\ freeq' = Tail(freeq)
    BY <1>a DEF Accept, QueueTypes, TPoolInv, QueuesApart
  <2>2. \A j : In(freeq, j)' <=> In(freeq', j)
    BY DEF In
  <2> QED BY <2>1, <2>2, Taken
<1>c. ~Listens(i) /\ (\A v \in Workers : ~Owns(v, i)) /\ ~In(ready, i) /\ i \notin parked
  BY <1>a, <1>b DEF Kept, InOnePlace, InQueue, TPoolInv, QueuesApart
<1>1. (QueuesApart /\ Awake)'
  BY <1>a, <1>b DEF Accept, TPoolInv, QueuesApart, Awake, workVars, In
<1>2. \A j \in TCBs \ {i} : Untouched(j)
  BY <1>a, <1>b DEF Accept, Register, Untouched, Holds, ConnTypes, EventTypes, workVars, fiberVars,
     In
<1>3. InOnePlace(i)'
  <2>1. \A v \in Workers : ~Owns(v, i)'
    BY <1>a, <1>c DEF Accept, Owns, ConnTypes, workVars
  <2>2. Listens(i)' /\ ~InQueue(i)'
    BY <1>a, <1>b, <1>c DEF Accept, Register, Listens, InQueue, EventTypes, In
  <2> QED BY <2>1, <2>2, Releases
<1>4. EndsAlone(i)'
  BY <1>a, <1>b, <1>c DEF Accept, Register, Kept, Owns, EndsAlone, Alone, Holders, HasTask,
     ConnTypes, EventTypes, workVars, fiberVars
<1>5. FiberKept(i)'
  BY <1>a, <1>b, <1>c DEF Accept, Kept, Owns, FiberKept, EndsAlone, ConnTypes, workVars, fiberVars
<1> QED BY <1>1, <1>2, <1>3, <1>4, <1>5 DEF Concerns, Kept

\* The first free task becomes the last one.
LEMMA AcceptFailsStep ==
  ASSUME TPoolInv, TypesKept, NEW i \in TCBs, AcceptFails, i = Head(freeq)
  PROVE  Concerns(i)
<1>a. Kept(i) /\ QueueTypes /\ ConnTypes /\ EventTypes /\ FiberTypes /\ WorkTypes /\ WorkTypes'
  BY Types DEF TPoolInv, TypesKept
<1>b. /\ In(freeq, i)
      /\ \A j : In(freeq, j)' <=> In(freeq, j)
      /\ Once(freeq')
  <2>1. freeq \in Seq(TCBs) /\ freeq # <<>> /\ Once(freeq) /\ freeq' = Append(Tail(freeq), i)
    BY <1>a DEF AcceptFails, QueueTypes, TPoolInv, QueuesApart
  <2>2. \A j : In(freeq, j)' <=> In(freeq', j)
    BY DEF In
  <2>3. /\ In(freeq, i) /\ Tail(freeq) \in Seq(TCBs) /\ Once(Tail(freeq))
        /\ \A j : In(Tail(freeq), j) <=> In(freeq, j) /\ j # i
    BY <2>1, Taken
  <2> QED BY <2>1, <2>2, <2>3, Appended
<1>c. ~Listens(i) /\ (\A v \in Workers : ~Owns(v, i)) /\ ~In(ready, i) /\ i \notin parked
  BY <1>a, <1>b DEF Kept, InOnePlace, InQueue, TPoolInv, QueuesApart
<1>1. (QueuesApart /\ Awake)'
  BY <1>a, <1>b DEF AcceptFails, TPoolInv, QueuesApart, Awake, workVars, In
<1>2. \A j \in TCBs \ {i} : Untouched(j)
  BY <1>a, <1>b DEF AcceptFails, CloseClient, Untouched, Holds, ConnTypes, EventTypes, FiberTypes,
     workVars, In
<1>3. InOnePlace(i)'
  <2>1. \A v \in Workers : ~Owns(v, i)'
    BY <1>a, <1>c DEF AcceptFails, CloseClient, Owns, ConnTypes, workVars
  <2>2. ~Listens(i)' /\ InQueue(i)'
    BY <1>a, <1>b, <1>c DEF AcceptFails, CloseClient, Listens, InQueue, EventTypes
  <2> QED BY <2>1, <2>2, Releases
<1>4. EndsAlone(i)'
  BY <1>a, <1>b, <1>c DEF AcceptFails, CloseClient, Kept, Owns, EndsAlone, Alone, Holders, HasTask,
     ConnTypes, EventTypes, FiberTypes, workVars
<1>5. FiberKept(i)'
  BY <1>a, <1>b, <1>c DEF AcceptFails, CloseClient, Kept, Owns, FiberKept, EndsAlone, ConnTypes,
     FiberTypes, workVars, HasTask, Holders
<1> QED BY <1>1, <1>2, <1>3, <1>4, <1>5 DEF Concerns, Kept

\* A timer runs out for a task that only waits in epoll: it is made ready.
LEMMA ExpireStep ==
  ASSUME Quiet, TPoolInv, TypesKept, NEW i \in TCBs, ExpireCallback(i) \/ ExpireFiber(i)
  PROVE  Concerns(i)
<1>a. Kept(i) /\ QueueTypes /\ ConnTypes /\ EventTypes /\ FiberTypes /\ WorkTypes /\ WorkTypes'
  BY Types DEF TPoolInv, TypesKept
<1>b. /\ Holders(i) = {} /\ ~InQueue(i) /\ AddReady(i, pc)
      /\ UNCHANGED <<freeq, parked, connVars, timeout, fiberVars, task, sync, started, ret>>
  BY DEF ExpireCallback, ExpireFiber, Expired, Undisturbed, Quiet, eventVars
<1>c. /\ \A w \in Workers : pc'[w] = pc[w] \/ (pc[w] = "condwait" /\ pc'[w] = "woken")
      /\ \A j : In(ready, j)' <=> In(ready, j) \/ j = i
      /\ Once(ready')
  BY <1>a, <1>b, MadeReady DEF WorkTypes, TPoolInv, QueuesApart
<1>d. \A w \in Workers : ~Owns(w, i) /\ ~Owns(w, i)'
  BY <1>a, <1>b, <1>c DEF Owns, Holders, HasTask, connVars
<1>e. Listens(i) /\ events'[i] # "none" /\ (armed'[i] => armed[i])
  BY <1>a, <1>b, <1>d DEF ExpireCallback, ExpireFiber, Kept, InOnePlace, EventTypes, Listens
<1>1. (QueuesApart /\ Awake)'
  <2>1. QueuesApart'
    BY <1>b, <1>c DEF TPoolInv, QueuesApart, InQueue, In
  <2>2. Awake'
    BY <1>a, <1>b, ReadyIsSeen DEF TPoolInv, WorkTypes
  <2> QED BY <2>1, <2>2
<1>2. \A j \in TCBs \ {i} : Untouched(j)
  BY <1>a, <1>b, <1>c DEF ExpireCallback, ExpireFiber, Untouched, Holds, ConnTypes, EventTypes,
     HasTask, connVars, fiberVars, In
<1>3. InOnePlace(i)'
  <2>1. ~Listens(i)' /\ InQueue(i)'
    BY <1>c, <1>e DEF Listens, InQueue
  <2> QED BY <1>d, <2>1, Releases
<1>4. EndsAlone(i)'
  BY <1>a, <1>b, <1>c, <1>e DEF Kept, EndsAlone, Alone, Holders, HasTask, InQueue, connVars,
     fiberVars, In
<1>5. FiberKept(i)'
  BY <1>a, <1>b, <1>c, <1>d DEF Kept, FiberKept, Holders, HasTask, connVars, fiberVars
<1> QED BY <1>1, <1>2, <1>3, <1>4, <1>5 DEF Concerns, Kept

\* An idle client is closed and its task free.
LEMMA ExpireClientStep ==
  ASSUME Quiet, TPoolInv, TypesKept, NEW i \in TCBs, ExpireClient(i)
  PROVE  Concerns(i)
<1>a. Kept(i) /\ QueueTypes /\ ConnTypes /\ EventTypes /\ FiberTypes /\ WorkTypes /\ WorkTypes'
  BY Types DEF TPoolInv, TypesKept
<1>b. Holders(i) = {} /\ ~InQueue(i) /\ freeq' = Append(freeq, i) /\ UNCHANGED <<ready, parked, workVars>>
  BY DEF ExpireClient, Expired, Undisturbed, Quiet, AddFree
<1>c. (\A j : In(freeq, j)' <=> In(freeq, j) \/ j = i) /\ Once(freeq')
  <2>1. freeq \in Seq(TCBs) /\ Once(freeq) /\ ~In(freeq, i)
    BY <1>a, <1>b DEF QueueTypes, TPoolInv, QueuesApart, InQueue
  <2>2. \A j : In(freeq, j)' <=> In(freeq', j)
    BY DEF In
  <2> QED BY <1>b, <2>1, <2>2, Appended
<1>1. (QueuesApart /\ Awake)'
  BY <1>b, <1>c DEF TPoolInv, QueuesApart, InQueue, Awake, workVars, In
<1>2. \A j \in TCBs \ {i} : Untouched(j)
  BY <1>a, <1>b, <1>c DEF ExpireClient, CloseClient, Untouched, Holds, ConnTypes, EventTypes,
     FiberTypes, workVars, In
<1>3. InOnePlace(i)'
  <2>1. \A v \in Workers : ~Owns(v, i)'
    BY <1>a, <1>b DEF ExpireClient, CloseClient, Owns, Holders, HasTask, ConnTypes, workVars
  <2>2. ~Listens(i)' /\ InQueue(i)'
    BY <1>a, <1>c DEF ExpireClient, CloseClient, Listens, InQueue, EventTypes
  <2> QED BY <2>1, <2>2, Releases
<1>4. EndsAlone(i)'
  BY <1>a, <1>b, <1>c DEF ExpireClient, CloseClient, EndsAlone, Alone, Holders, HasTask, ConnTypes,
     EventTypes, FiberTypes, workVars
<1>5. FiberKept(i)'
  BY <1>a, <1>b DEF ExpireClient, CloseClient, Kept, FiberKept, Holders, HasTask, ConnTypes,
     FiberTypes, workVars
<1> QED BY <1>1, <1>2, <1>3, <1>4, <1>5 DEF Concerns, Kept

\* A task goes from a queue of the application to the ready queue.
LEMMA UnparkStep ==
  ASSUME TPoolInv, TypesKept, NEW i \in TCBs, Unpark(i)
  PROVE  Concerns(i)
<1>a. Kept(i) /\ QueueTypes /\ ConnTypes /\ EventTypes /\ FiberTypes /\ WorkTypes /\ WorkTypes'
  BY Types DEF TPoolInv, TypesKept
<1>b. /\ InQueue(i) /\ ~In(freeq, i) /\ ~In(ready, i)
      /\ UNCHANGED <<freeq, connVars, eventVars, fiberVars, task, sync, started, ret>>
      /\ parked' = parked \ {i} /\ ready' = Append(ready, i)
  BY DEF Unpark, InQueue, TPoolInv, QueuesApart
<1>c. /\ \A w \in Workers : pc'[w] = pc[w] \/ (pc[w] = "condwait" /\ pc'[w] = "woken")
      /\ (Waiting = {} /\ pc' = pc) \/ (\E w \in Workers : pc'[w] = "woken")
  <2>1. CASE Waiting = {} /\ UNCHANGED pc
    BY <2>1
  <2>2. CASE \E w \in Waiting : Goto(w, "woken")
    BY <1>a, <2>2 DEF WorkTypes, Waiting
  <2> QED BY <2>1, <2>2 DEF Unpark
<1>d. (\A j : In(ready, j)' <=> In(ready, j) \/ j = i) /\ Once(ready')
  <2>1. ready \in Seq(TCBs) /\ Once(ready)
    BY <1>a DEF QueueTypes, TPoolInv, QueuesApart
  <2>2. \A j : In(ready, j)' <=> In(ready', j)
    BY DEF In
  <2> QED BY <1>b, <2>1, <2>2, Appended
<1>1. (QueuesApart /\ Awake)'
  <2>1. QueuesApart'
    BY <1>b, <1>d DEF TPoolInv, QueuesApart, In
  <2>2. Awake'
    BY <1>c DEF TPoolInv, Awake, Waiting
  <2> QED BY <2>1, <2>2
<1>2. \A j \in TCBs \ {i} : Untouched(j)
  BY <1>b, <1>c, <1>d DEF Untouched, Holds, HasTask, connVars, eventVars, fiberVars, In
<1>3. InOnePlace(i)'
  <2>1. \A v \in Workers : Owns(v, i)' <=> Owns(v, i)
    BY <1>b, <1>c DEF Owns, connVars
  <2>2. InQueue(i)' /\ (Listens(i)' <=> Listens(i))
    BY <1>b, <1>d DEF InQueue, Listens, eventVars
  <2> QED BY <1>a, <1>b, <2>1, <2>2, SamePlace DEF Kept
<1>4. EndsAlone(i)'
  BY <1>a, <1>b, <1>c DEF Kept, EndsAlone, Alone, Holders, HasTask, connVars, eventVars, fiberVars,
     In
<1>5. FiberKept(i)'
  BY <1>a, <1>b, <1>c DEF Kept, FiberKept, Owns, connVars, fiberVars
<1> QED BY <1>1, <1>2, <1>3, <1>4, <1>5 DEF Concerns, Kept

-----------------------------------------------------------------------------
(* The invariant is inductive. *)

\* At the start every task is in the free list, once.
LEMMA InitFree ==
  ASSUME Init
  PROVE  Once(freeq) /\ TypeOK /\ TasksInHand
<1> DEFINE N == Cardinality(TCBs)
<1>1. N \in Nat
  BY TPoolAssumption, FS_CardinalityType
<1>2. freeq \in Surjection(1 .. N, TCBs)
  BY DEF Init, Surjection
<1>3. Once(freeq) /\ DOMAIN freeq = 1 .. N
  <2>1. IsFiniteSet(1 .. N) /\ Cardinality(1 .. N) = Cardinality(TCBs)
    BY <1>1, FS_Interval
  <2>2. freeq \in Injection(1 .. N, TCBs)
    BY <1>2, <2>1, FS_SurjSameCardinalityImpliesInj
  <2>3. DOMAIN freeq = 1 .. N
    BY <1>2 DEF Surjection
  <2> QED BY <2>2, <2>3 DEF Injection, IsInjective, Once
<1>4. freeq \in Seq(TCBs)
  BY <1>1, <1>2, SeqDef DEF Surjection
<1> QED BY <1>3, <1>4 DEF Init, TypeOK, TasksInHand, HasTask

\* At the start every task is free and every worker awake.
LEMMA InitInv == Init => TPoolInv
<1> SUFFICES ASSUME Init PROVE TPoolInv
  OBVIOUS
<1>1. Workers # {}
  <2>1. SUFFICES ASSUME Workers = {} PROVE FALSE
    OBVIOUS
  <2>2. Cardinality(Workers) = 0
    BY <2>1, FS_EmptySet
  <2> QED BY <2>2, TPoolAssumption
<1>2. (\A i \in TCBs : In(freeq, i)) /\ \A i : ~In(ready, i)
  BY DEF Init, In
<1>3. QueuesApart /\ Awake
  BY <1>1, <1>2, InitFree DEF Init, QueuesApart, Once, Awake
<1>4. ASSUME NEW i \in TCBs PROVE Kept(i)
  BY <1>2 DEF Init, Kept, InOnePlace, EndsAlone, FiberKept, Owns, Listens, InQueue, Alone, Holders,
              HasTask
<1> QED BY <1>3, <1>4, InitFree DEF TPoolInv

\* What a worker does in its loop, in a service and behind it.
LEMMA WorkerStep ==
  ASSUME Quiet, TPoolInv, TypesKept, NEW w \in Workers, Step(w) \/ Serve(w)
  PROVE  TPoolInv'
<1>1. CASE TakeReady(w)
  <2>1. Head(ready) \in TCBs
    BY <1>1, HeadTailProperties DEF TakeReady, TPoolInv, TypeOK
  <2> QED BY <1>1, <2>1, TakeReadyStep, OneTask
<1>2. CASE Sleep(w)
  BY <1>2, TPoolAssumption, SleepStep, OneTask
<1>3. ASSUME ~TakeReady(w), ~Sleep(w) PROVE \E i \in TCBs : task[w] = i
  BY <1>3 DEF Step, Serve, TPoolInv, TasksInHand, HasTask, Picked, Dispatch, Resume, Work,
              YieldLock, Swap, Rearm, Doom, Escape, CheckStatus, Enqueue, End, Yield, SetCallback,
              ClearCallback, Reply, Fail, SetEvent, Park, MakeReady
<1>4. ASSUME NEW i \in TCBs, task[w] = i, ~TakeReady(w), ~Sleep(w) PROVE Concerns(i)
  <2>1. CASE YieldLock(w)
    <3>1. pc'[w] \in {"swap", "run"}
      BY <2>1 DEF YieldLock, TPoolInv, TypeOK
    <3> QED BY <1>4, <2>1, <3>1, Serves, WaitsForClient
  <2>2. CASE Picked(w) \/ Rearm(w) \/ CheckStatus(w)
    BY <1>4, <2>2, Serves, WaitsForClient, GivesUp
  <2>3. CASE Dispatch(w) \/ Resume(w) \/ Work(w) \/ Doom(w) \/ Escape(w) \/ Swap(w) \/ End(w)
    BY <1>4, <2>3, Serves, GivesUp
  <2>4. CASE Enqueue(w)
    BY <1>4, <2>4, EnqueueStep
  <2>5. CASE Serve(w)
    BY <1>4, <2>5, Serves, WaitsForClient, ParkStep, MakeReadyStep DEF Serve
  <2> QED BY <1>4, <2>1, <2>2, <2>3, <2>4, <2>5 DEF Step
<1> QED BY <1>1, <1>2, <1>3, <1>4, OneTask

\* Every step keeps the types, whatever races happen.
LEMMA StepTypes ==
  ASSUME TypeOK, TasksInHand, [Next]_vars
  PROVE  TypesKept
<1>1. CASE UNCHANGED vars
  BY <1>1 DEF vars, queueVars, connVars, eventVars, fiberVars, workVars, TypesKept, TypeOK,
              TasksInHand
<1>2. ASSUME NEW w \in Workers, Step(w) \/ Serve(w) PROVE TypesKept
  BY <1>2, LoopTypes, ServiceTypes, EndTypes DEF Step, Serve
<1> QED BY <1>1, <1>2, TPoolAssumption, MainTypes, EventTypesKept DEF Next

\* The invariant holds at the start and is kept by every step.
LEMMA TPoolInductive ==
  ASSUME Quiet
  PROVE  /\ Init => TPoolInv
         /\ TPoolInv /\ [Next]_vars => TPoolInv'
<1> SUFFICES ASSUME TPoolInv, [Next]_vars PROVE TPoolInv'
  BY InitInv
<1>a. TypesKept
  BY StepTypes DEF TPoolInv
<1>1. CASE Accept \/ AcceptFails
  <2>1. Head(freeq) \in TCBs
    BY <1>1, HeadTailProperties DEF Accept, AcceptFails, TPoolInv, TypeOK
  <2> QED BY <1>a, <1>1, <2>1, AcceptStep, AcceptFailsStep, OneTask
<1>2. ASSUME NEW i \in TCBs, ExpireCallback(i) \/ ExpireFiber(i) \/ ExpireClient(i) \/ Unpark(i)
      PROVE  TPoolInv'
  BY <1>a, <1>2, ExpireStep, ExpireClientStep, UnparkStep, OneTask
<1>3. ASSUME NEW w \in Workers, Step(w) \/ Serve(w) PROVE TPoolInv'
  BY <1>a, <1>3, WorkerStep
<1>4. ASSUME NEW w \in Workers, NEW i \in TCBs, Event(w, i) PROVE TPoolInv'
  BY <1>a, <1>4, EventStep, OneTask
<1>5. CASE UNCHANGED vars
  <2>1. (QueuesApart /\ Awake)'
    BY <1>5 DEF vars, queueVars, workVars, TPoolInv, QueuesApart, Awake, Once, In
  <2>2. \A i \in TCBs : Untouched(i)
    BY <1>5 DEF vars, queueVars, connVars, eventVars, fiberVars, workVars, Untouched, Holds, In
  <2> QED BY <1>a, <2>1, <2>2, TPoolAssumption, NoTask, OneTask
<1> QED BY <1>1, <1>2, <1>3, <1>4, <1>5 DEF Next

-----------------------------------------------------------------------------
(* What the invariant says of the properties. *)

\* Of two workers that have one task one is on its way out of the fiber.
LEMMA InvImpliesOneRunner == TPoolInv => OneRunner
<1> SUFFICES ASSUME TPoolInv, NEW v \in Workers, NEW w \in Workers, v # w,
                    task[v] = task[w], task[v] # Nobody
             PROVE  ~(Runs(v) /\ Runs(w)) /\ (At(w, "lock") /\ Runs(v) => At(v, "swap"))
  BY DEF OneRunner
<1>1. PICK i \in TCBs : task[v] = i /\ task[w] = i
  BY DEF TPoolInv, TypeOK
<1>2. InOnePlace(i) /\ FiberKept(i)
  BY <1>1 DEF TPoolInv, Kept
<1>3. ~(Owns(v, i) /\ Owns(w, i))
  BY <1>2 DEF InOnePlace
<1>4. ASSUME NEW u \in Workers, task[u] = i, Runs(u)
      PROVE  Owns(u, i) \/ (At(u, "swap") /\ AIO_flg[i] /\ lock[i] = u)
  BY <1>2, <1>4 DEF Runs, Owns, FiberKept
<1>5. ASSUME NEW u \in Workers, NEW x \in Workers, task[u] = i, task[x] = i, At(u, "swap"), Runs(x)
      PROVE  At(x, "swap") /\ x = u
  <2>1. AIO_flg[i] /\ lock[i] = u /\ ~At(x, "yield")
    BY <1>2, <1>5 DEF FiberKept
  <2>2. ~Owns(x, i)
    BY <1>2, <1>5, <2>1 DEF FiberKept, Runs
  <2> QED BY <1>4, <1>5, <2>1, <2>2
<1>6. ~(Runs(v) /\ Runs(w))
  BY <1>1, <1>3, <1>4, <1>5
<1>7. At(w, "lock") /\ Runs(v) => At(v, "swap")
  BY <1>1, <1>3, <1>4 DEF Owns
<1> QED BY <1>6, <1>7

\* A task that is in one place is not forgotten, and one that is free has ended.
LEMMA InvImpliesTasksKept == TPoolInv => TasksKept
<1> SUFFICES ASSUME TPoolInv PROVE TasksKept
  OBVIOUS
<1>1. FreeIsIdle
  BY DEF TPoolInv, Kept, EndsAlone, FreeIsIdle
<1>2. ASSUME NEW i \in TCBs, open[i]
      PROVE  armed[i] \/ In(ready, i) \/ i \in parked \/ \E w \in Holders(i) : pc[w] # "end"
  <2>1. Listens(i) \/ InQueue(i) \/ \E w \in Workers : Owns(w, i)
    BY DEF TPoolInv, Kept, InOnePlace
  <2>2. ~In(freeq, i)
    BY <1>2 DEF TPoolInv, Kept, EndsAlone
  <2> QED BY <2>1, <2>2 DEF Listens, InQueue, Owns, Holders, HasTask
<1>3. ASSUME NEW i \in TCBs, ~open[i]
      PROVE  In(freeq, i) \/ \E w \in Holders(i) : pc[w] = "enqueue"
  BY <1>3 DEF TPoolInv, Kept, EndsAlone, Holders, HasTask
<1>4. NoneForgotten
  BY <1>2, <1>3 DEF NoneForgotten
<1> QED BY <1>1, <1>4 DEF TPoolInv, Awake, TasksKept, ReadyHasWorker

\* Only Resume takes a worker from the lock into a fiber.
LEMMA OnlyResume ==
  ASSUME TPoolInv, Next, NEW w \in Workers, At(w, "lock"), pc'[w] = "run"
  PROVE  Resume(w)
<1>1. pc \in [Workers -> Labels] /\ task[w] \in TCBs
  BY DEF TPoolInv, TypeOK, Labels, TasksInHand, HasTask
<1>2. ASSUME NEW i \in TCBs, NEW pcs \in [Workers -> Labels], AddReady(i, pcs), pcs[w] = "lock"
      PROVE  pc'[w] # "run"
  BY <1>2, MadeReady DEF TPoolInv
<1>3. ~Accept /\ ~AcceptFails
  BY DEF Accept, AcceptFails, workVars
<1>4. ASSUME NEW i \in TCBs
      PROVE  ~ExpireCallback(i) /\ ~ExpireFiber(i) /\ ~ExpireClient(i) /\ ~Unpark(i)
  BY <1>1, <1>2 DEF ExpireCallback, ExpireFiber, ExpireClient, Unpark, workVars, Waiting
<1>5. ASSUME NEW v \in Workers, Step(v) PROVE Resume(w)
  BY <1>1, <1>5 DEF Step, TakeReady, Sleep, Picked, Dispatch, Resume, Work, YieldLock, Swap,
     Return, Rearm, Doom,
                    Escape, CheckStatus, Enqueue, End
<1>6. ASSUME NEW v \in Workers, Serve(v) PROVE FALSE
  <2>1. CASE MakeReady(v)
    <3>1. v # w /\ task[v] \in TCBs /\ [pc EXCEPT ![v] = "finish"] \in [Workers -> Labels]
      BY <1>1, <2>1 DEF MakeReady, TPoolInv, TasksInHand, HasTask, Labels
    <3> QED BY <1>1, <1>2, <2>1, <3>1 DEF MakeReady
  <2> QED BY <1>1, <1>6, <2>1 DEF Serve, Yield, SetCallback, ClearCallback, Reply, Fail, SetEvent,
             Park, Answer, workVars
<1>7. ASSUME NEW v \in Workers, NEW i \in TCBs PROVE ~Event(v, i)
  BY <1>1 DEF Event
<1> QED BY <1>3, <1>4, <1>5, <1>6, <1>7 DEF Next

\* A worker that enters a fiber finds its stack at rest.
LEMMA EntersSaved ==
  ASSUME TPoolInv, [Next]_vars, NEW w \in Workers, At(w, "lock"), pc'[w] = "run"
  PROVE  saved[task[w]]
<1>1. Resume(w)
  <2>1. ~UNCHANGED vars
    BY DEF vars, workVars
  <2> QED BY <2>1, OnlyResume
<1>2. PICK i \in TCBs : task[w] = i
  BY DEF TPoolInv, TasksInHand, HasTask
<1>3. lock[i] = Nobody /\ AIO_flg[i] /\ Owns(w, i)
  BY <1>1, <1>2 DEF Resume, Owns, TPoolInv, Kept, FiberKept
<1>4. ~\E v \in Workers : task[v] = i /\ At(v, "yield")
  BY <1>3 DEF TPoolInv, Kept, InOnePlace, Owns
<1> QED BY <1>2, <1>3, <1>4 DEF TPoolInv, Kept, FiberKept

\* A stack is recycled by the worker that ends the service of its own task.
LEMMA RecyclesOwn ==
  ASSUME Quiet, TPoolInv, [Next]_vars, NEW i \in TCBs, fiber[i], ~fiber'[i]
  PROVE  \E w \in Workers : task[w] = i /\ At(w, "end") /\ ~At(w, "end")'
<1>1. PICK w \in Workers : Swap(w) \/ End(w) \/ Dispatch(w)
  BY DEF Next, vars, fiberVars, Accept, AcceptFails, ExpireCallback, ExpireFiber, ExpireClient,
     Unpark, Event, Step, Serve,
         TakeReady, Sleep, Picked, Resume, Work, YieldLock, Rearm, Doom, Escape, CheckStatus, Enqueue, Yield, SetCallback,
         ClearCallback, Reply, Fail, SetEvent, Park, MakeReady
<1>2. fiber \in [TCBs -> BOOLEAN] /\ pc \in [Workers -> Labels]
  BY DEF TPoolInv, TypeOK, Labels
<1>3. ~Dispatch(w)
  BY <1>2 DEF Dispatch
<1>4. ASSUME Swap(w) PROVE FALSE
  <2>1. task[w] = i /\ ~AIO_flg[i]
    BY <1>2, <1>4 DEF Swap, Return, Found, Quiet
  <2> QED BY <1>4, <2>1 DEF Swap, TPoolInv, Kept, FiberKept
<1>5. CASE End(w)
  BY <1>2, <1>5 DEF End, Return, Found, Quiet
<1> QED BY <1>1, <1>3, <1>4, <1>5

-----------------------------------------------------------------------------
(* The theorems. *)

\* Every variable has its type, for any number of workers and tasks and with
\* every race.
THEOREM TypeCorrect == Spec => []TypeOK
<1>1. Init => TypeOK /\ TasksInHand
  BY InitFree
<1>2. TypeOK /\ TasksInHand /\ [Next]_vars => (TypeOK /\ TasksInHand)'
  BY StepTypes DEF TypesKept
<1> QED BY <1>1, <1>2, PTL DEF Spec

\* A service of one client runs in one worker at a time (scsrv/tpool.c:760), and
\* nobody waits for the lock of a task that another worker serves.
THEOREM OneRunnerAlways == Quiet /\ Spec => []OneRunner
<1> SUFFICES ASSUME Quiet PROVE Spec => []OneRunner
  OBVIOUS
<1> QED BY InvImpliesOneRunner, TPoolInductive, PTL DEF Spec

\* No task is lost between the queues, epoll and the workers, none is free while
\* a worker still serves it, and a ready task has a worker that will look.
THEOREM TasksKeptAlways == Quiet /\ Spec => []TasksKept
<1> SUFFICES ASSUME Quiet PROVE Spec => []TasksKept
  OBVIOUS
<1> QED BY InvImpliesTasksKept, TPoolInductive, PTL DEF Spec

\* task->lock is held only on the way out of a fiber, and a fiber is entered only
\* when its stack is at rest (756, 864).
THEOREM FiberIntactAlways == Quiet /\ Spec => FiberIntact
<1> SUFFICES ASSUME Quiet PROVE Spec => FiberIntact
  OBVIOUS
<1>1. TPoolInv => LockOnLeaving
  BY DEF TPoolInv, Kept, FiberKept, LockOnLeaving
<1>2. TPoolInv /\ [Next]_vars =>
        [\A w \in Workers : At(w, "lock") /\ pc'[w] = "run" => saved[task[w]]]_vars
  BY EntersSaved
<1> QED BY <1>1, <1>2, TPoolInductive, PTL DEF Spec, FiberIntact

\* A fiber's stack is recycled only when the service of its own task is complete
\* (804, 805), because thread_work looks at AIO_flg.
THEOREM RecycledCompleteAlways == Quiet /\ Spec => RecycledComplete
<1> SUFFICES ASSUME Quiet PROVE Spec => RecycledComplete
  OBVIOUS
<1>1. TPoolInv /\ [Next]_vars =>
        [\A i \in TCBs : fiber[i] /\ ~fiber'[i] =>
           \E w \in Workers : task[w] = i /\ At(w, "end") /\ ~At(w, "end")']_vars
  BY RecyclesOwn
<1> QED BY <1>1, TPoolInductive, PTL DEF Spec, RecycledComplete
====

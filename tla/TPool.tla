-------------------------------- MODULE TPool --------------------------------
(***************************************************************************)
(* The thread-pool server of scsrv/tpool.c: the worker threads, the task   *)
(* control blocks (TCB) of the clients, the free list and the ready queue, *)
(* one-shot epoll events, the fibers that give their worker away in the    *)
(* middle of a service, and the main thread that accepts clients and looks *)
(* for timeouts.                                                           *)
(*                                                                         *)
(* The services belong to the application; they are modelled by what the   *)
(* functions of include/scsrv.h let them do.  A timer may run out at any   *)
(* time: the model has no clock.                                           *)
(***************************************************************************)
EXTENDS Integers, Sequences, FiniteSets

CONSTANTS
  TCBs,      \* the task control blocks
  Workers,   \* the worker threads
  RdyNum,    \* RDY_NUM: the workers that wait for the ready queue
  Races,     \* the narrow races that may happen, see Undisturbed
  InMemory,  \* the variable task of thread_work lives in memory, see Found
  Nobody     \* no worker, no task

ASSUME TPoolAssumption ==
  /\ TCBs # {} /\ IsFiniteSet(TCBs) /\ IsFiniteSet(Workers)
  /\ Nobody \notin TCBs \cup Workers
  /\ RdyNum \in Nat \ {0} /\ RdyNum < Cardinality(Workers)
  /\ Races \subseteq {"timeout", "overtake"} /\ InMemory \in BOOLEAN

VARIABLES
  freeq,     \* client_q.free_q
  ready,     \* rpool.queue
  parked,    \* the tasks in a queue of the application (scsrv/mod_sc.c)
  open,      \* open[i]: conn.Socket is open
  fd,        \* fd[i]: task->fd>=0
  armed,     \* armed[i]: an event for fd will be delivered
  events,    \* events[i]: "none", "io" or "timeout"
  timeout,   \* timeout[i]: a timer is running
  status,    \* status[i]: -1 connected, 0 key agreed (logged in or not), -2 to be deleted
  call_back, \* call_back[i]: the application has set a callback
  AIO_flg,   \* AIO_flg[i]: the task gave its worker away in the middle
  lock,      \* lock[i]: the worker that holds task->lock
  fiber,     \* fiber[i]: uc_stack.ss_size>0, the task has a stack of its own
  saved,     \* saved[i]: that stack is at rest and can be switched to
  link,      \* link[i]: the worker uc_link leads back to
  pc,        \* pc[w]: where worker w is
  task,      \* task[w]: the task in its hands
  sync,      \* sync[w]: it works on its own stack
  started,   \* started[w]: the last task it has started a fiber for
  ret        \* ret[w]: what the service returned

queueVars == <<freeq, ready, parked>>
connVars  == <<open, status, call_back>>
eventVars == <<fd, armed, events, timeout>>
fiberVars == <<AIO_flg, lock, fiber, saved, link>>
workVars  == <<pc, task, sync, started, ret>>
vars == <<queueVars, connVars, eventVars, fiberVars, workVars>>

Init ==
  /\ freeq \in {q \in [1 .. Cardinality(TCBs) -> TCBs] : \A i \in TCBs : \E k \in DOMAIN q : q[k] = i}
  /\ ready = <<>> /\ parked = {}
  /\ open = [i \in TCBs |-> FALSE]
  /\ fd = [i \in TCBs |-> FALSE]
  /\ armed = [i \in TCBs |-> FALSE]
  /\ events = [i \in TCBs |-> "none"]
  /\ timeout = [i \in TCBs |-> FALSE]
  /\ status = [i \in TCBs |-> -1]
  /\ call_back = [i \in TCBs |-> FALSE]
  /\ AIO_flg = [i \in TCBs |-> FALSE]
  /\ lock = [i \in TCBs |-> Nobody]
  /\ fiber = [i \in TCBs |-> FALSE]
  /\ saved = [i \in TCBs |-> FALSE]
  /\ link = [i \in TCBs |-> Nobody]
  /\ pc = [w \in Workers |-> "loop"]
  /\ task = [w \in Workers |-> Nobody]
  /\ sync = [w \in Workers |-> FALSE]
  /\ started = [w \in Workers |-> Nobody]
  /\ ret = [w \in Workers |-> "again"]
-----------------------------------------------------------------------------
(* Helpers *)

In(q, i) == \E k \in DOMAIN q : q[k] = i

\* task->next is set.
InQueue(i) == In(freeq, i) \/ In(ready, i) \/ i \in parked

At(w, l) == pc[w] = l
Goto(w, l) == pc' = [pc EXCEPT ![w] = l]
Set(f, i, v) == [f EXCEPT ![i] = v]

\* A worker has the task in its hands, or is about to decide its fate.
HasTask == {"picked", "dispatch", "lock", "work", "run", "yield", "swap",
            "finish", "status", "enqueue", "end"}
Holders(i) == {w \in Workers : task[w] = i /\ pc[w] \in HasTask}

\* The rest of the code keeps workers apart only by these windows being short.
Undisturbed(i)   == "timeout" \in Races \/ Holders(i) = {}
NotOvertaken(w)  == "overtake" \in Races \/ Holders(task[w]) = {w}

Waiting == {w \in Workers : pc[w] = "condwait"}

\* Mutant: nobody is woken.
AddReadySilent(i, pcs) ==
  IF InQueue(i) THEN UNCHANGED ready /\ pc' = pcs
  ELSE ready' = Append(ready, i) /\ pc' = pcs

\* TCB_add(NULL, i): a task in a queue is refused, otherwise one worker that
\* waits for the ready queue is woken.
AddReady(i, pcs) ==
  IF InQueue(i) THEN UNCHANGED ready /\ pc' = pcs
  ELSE /\ ready' = Append(ready, i)
       /\ \/ Waiting = {} /\ pc' = pcs
          \/ \E w \in Waiting : pc' = [pcs EXCEPT ![w] = "woken"]

\* do_epoll: to register the task fails without a descriptor or in a queue.
CanRegister(i) == fd[i] /\ ~InQueue(i)
Register(i) == armed' = Set(armed, i, TRUE) /\ events' = Set(events, i, "none")

\* The first half of client_del: the connection is closed.
CloseClient(i) ==
  /\ fd' = Set(fd, i, FALSE)
  /\ AIO_flg' = Set(AIO_flg, i, FALSE)
  /\ status' = Set(status, i, -1)
  /\ open' = Set(open, i, FALSE)
  /\ armed' = Set(armed, i, FALSE)
  /\ events' = Set(events, i, "none")
  /\ timeout' = Set(timeout, i, FALSE)

\* Its second half: the task goes to the free list.
AddFree(i) == freeq' = IF InQueue(i) THEN freeq ELSE Append(freeq, i)
-----------------------------------------------------------------------------
(* The main thread *)

\* get_task_no, accept: a free task gets a client and waits for its key.
Accept ==
  LET i == Head(freeq) IN
  /\ freeq # <<>>
  /\ freeq' = Tail(freeq)
  /\ open' = Set(open, i, TRUE)
  /\ fd' = Set(fd, i, TRUE)
  /\ timeout' = Set(timeout, i, TRUE)
  /\ status' = Set(status, i, -1)
  /\ Register(i)
  /\ UNCHANGED <<ready, parked, call_back, fiberVars, workVars>>

\* accept fails: the task goes back, now the last one.
AcceptFails ==
  LET i == Head(freeq) IN
  /\ freeq # <<>>
  /\ freeq' = Append(Tail(freeq), i)
  /\ CloseClient(i)
  /\ UNCHANGED <<ready, parked, call_back, lock, fiber, saved, link, workVars>>

\* A timer runs out while no worker has the task, unless races are examined.
Expired(i) == timeout[i] /\ fd[i] /\ ~InQueue(i) /\ Undisturbed(i)

\* check_TCB_timeout: the callback is told; its event stays registered.
ExpireCallback(i) ==
  /\ Expired(i) /\ call_back[i]
  /\ events' = Set(events, i, "timeout")
  /\ AddReady(i, pc)
  /\ UNCHANGED <<freeq, parked, connVars, fd, armed, timeout, fiberVars, task, sync,
                 started, ret>>

\* A fiber that waits for its descriptor is resumed with an error.
ExpireFiber(i) ==
  /\ Expired(i) /\ ~call_back[i] /\ AIO_flg[i]
  /\ fd' = Set(fd, i, FALSE)
  /\ armed' = Set(armed, i, FALSE)
  /\ events' = Set(events, i, "timeout")
  /\ AddReady(i, pc)
  /\ UNCHANGED <<freeq, parked, connVars, timeout, fiberVars, task, sync, started, ret>>

\* An idle client is deleted.
ExpireClient(i) ==
  /\ Expired(i) /\ ~call_back[i] /\ ~AIO_flg[i]
  /\ CloseClient(i)
  /\ AddFree(i)
  /\ UNCHANGED <<ready, parked, call_back, lock, fiber, saved, link, workVars>>
-----------------------------------------------------------------------------
(* The worker's loop *)

\* rdy_get: the first ready task is taken.
TakeReady(w) ==
  /\ pc[w] \in {"loop", "woken"}
  /\ ready # <<>>
  /\ ready' = Tail(ready)
  /\ task' = Set(task, w, Head(ready))
  /\ Goto(w, "picked")
  /\ UNCHANGED <<freeq, parked, connVars, eventVars, fiberVars, sync, started, ret>>

\* Nothing is ready: rpool.flg of the workers wait for that, the others for events.
flg(w) == Cardinality({v \in Workers \ {w} : pc[v] \in {"condwait", "woken"}})
Sleep(w) ==
  /\ pc[w] \in {"loop", "woken"}
  /\ ready = <<>>
  /\ Goto(w, IF flg(w) < RdyNum THEN "condwait" ELSE "epoll")
  /\ UNCHANGED <<queueVars, connVars, eventVars, fiberVars, task, sync, started, ret>>

\* Mutant: the task is forgotten instead of registered.
PickedForget(w) ==
  LET i == task[w] IN
  /\ At(w, "picked")
  /\ \/ (AIO_flg[i] \/ call_back[i]) /\ Goto(w, "dispatch")
     \/ ~AIO_flg[i] /\ ~call_back[i] /\ Goto(w, "loop")
  /\ UNCHANGED <<queueVars, connVars, eventVars, fiberVars, task, sync, started, ret>>

\* A ready task that neither waits in a fiber nor for a callback waits for its
\* client again.
Picked(w) ==
  LET i == task[w] IN
  /\ At(w, "picked")
  /\ \/ /\ AIO_flg[i] \/ call_back[i]
        /\ Goto(w, "dispatch")
        /\ UNCHANGED <<fd, armed, events>>
     \/ /\ ~AIO_flg[i] /\ ~call_back[i]
        /\ fd' = Set(fd, i, open[i])
        /\ IF open[i] /\ ~InQueue(i) THEN Register(i) ELSE UNCHANGED <<armed, events>>
        /\ Goto(w, "loop")
  /\ UNCHANGED <<queueVars, connVars, timeout, fiberVars, task, sync, started, ret>>

\* Mutant: an event is served whether the task has one already or not.
EventAlways(w, i) ==
  /\ At(w, "epoll")
  /\ armed[i]
  /\ armed' = Set(armed, i, FALSE)
  /\ events' = Set(events, i, "io")
  /\ task' = Set(task, w, i)
  /\ Goto(w, "dispatch")
  /\ UNCHANGED <<queueVars, connVars, fd, timeout, fiberVars, sync, started, ret>>

\* epoll_wait delivers an event, once; one that arrives for a task that has an
\* event already is dropped.
Event(w, i) ==
  /\ At(w, "epoll")
  /\ armed[i]
  /\ armed' = Set(armed, i, FALSE)
  /\ \/ events[i] # "none" /\ Goto(w, "loop") /\ UNCHANGED <<events, task>>
     \/ /\ events[i] = "none"
        /\ events' = Set(events, i, "io")
        /\ task' = Set(task, w, i)
        /\ Goto(w, "dispatch")
  /\ UNCHANGED <<queueVars, connVars, fd, timeout, fiberVars, sync, started, ret>>

\* A task in the middle of a service is resumed, one whose stack is still in
\* use by another worker is served on the worker's own, any other in a fiber.
Dispatch(w) ==
  LET i == task[w] IN
  /\ At(w, "dispatch")
  /\ \/ /\ AIO_flg[i]
        /\ link' = Set(link, i, w)
        /\ Goto(w, "lock")
        /\ UNCHANGED <<fiber, sync, started>>
     \/ /\ ~AIO_flg[i] /\ fiber[i]
        /\ sync' = Set(sync, w, TRUE)
        /\ Goto(w, "work")
        /\ UNCHANGED <<fiber, link, started>>
     \/ /\ ~AIO_flg[i] /\ ~fiber[i]
        /\ fiber' = Set(fiber, i, TRUE)
        /\ link' = Set(link, i, w)
        /\ started' = Set(started, w, i)
        /\ sync' = Set(sync, w, FALSE)
        /\ Goto(w, "work")
  /\ UNCHANGED <<queueVars, connVars, eventVars, AIO_flg, lock, saved, task, ret>>

\* Under task->lock the worker switches to the fiber, which unlocks it and goes
\* on behind the swapcontext of do_event.
Resume(w) ==
  LET i == task[w] IN
  /\ At(w, "lock")
  /\ lock[i] = Nobody
  /\ saved' = Set(saved, i, FALSE)
  /\ fd' = Set(fd, i, open[i])
  /\ AIO_flg' = Set(AIO_flg, i, FALSE)
  /\ timeout' = Set(timeout, i, FALSE)
  /\ sync' = Set(sync, w, FALSE)
  /\ Goto(w, "run")
  /\ UNCHANGED <<queueVars, connVars, armed, events, lock, fiber, link, task, started, ret>>
-----------------------------------------------------------------------------
(* do_work and the functions a service may call *)

\* do_work begins: no timer runs while the service does.
Work(w) ==
  LET i == task[w] IN
  /\ At(w, "work")
  /\ timeout' = Set(timeout, i, FALSE)
  /\ Goto(w, "run")
  /\ UNCHANGED <<queueVars, connVars, fd, armed, events, fiberVars, task, sync, started, ret>>

\* do_event, first half: the task is marked as one to be resumed.
Yield(w) ==
  LET i == task[w] IN
  /\ At(w, "run") /\ ~sync[w]
  /\ AIO_flg' = Set(AIO_flg, i, TRUE)
  /\ \E limited \in {TRUE, timeout[i]} : timeout' = Set(timeout, i, limited)
  /\ Goto(w, "yield")
  /\ UNCHANGED <<queueVars, connVars, fd, armed, events, lock, fiber, saved, link,
                 task, sync, started, ret>>

\* Mutant: the event is registered without task->lock.
YieldUnlocked(w) ==
  LET i == task[w] IN
  /\ At(w, "yield")
  /\ CanRegister(i)
  /\ Register(i)
  /\ Goto(w, "swap")
  /\ UNCHANGED <<queueVars, connVars, fd, timeout, fiberVars, task, sync, started, ret>>

\* Second half: under task->lock its descriptor is registered; it goes on if
\* epoll_ctl fails.
YieldLock(w) ==
  LET i == task[w] IN
  /\ At(w, "yield")
  /\ lock[i] = Nobody
  /\ \/ /\ CanRegister(i)
        /\ lock' = Set(lock, i, w)
        /\ Register(i)
        /\ Goto(w, "swap")
        /\ UNCHANGED <<AIO_flg, timeout>>
     \/ /\ AIO_flg' = Set(AIO_flg, i, FALSE)
        /\ timeout' = Set(timeout, i, FALSE)
        /\ Goto(w, "run")
        /\ UNCHANGED <<lock, armed, events>>
  /\ UNCHANGED <<queueVars, connVars, fd, fiber, saved, link, task, sync, started, ret>>

\* A worker left by its fiber goes on where its own context was saved last: at
\* its getcontext, or behind the swapcontext that started a fiber.  It finds
\* the task that ran in its variable task if that lives in memory.  In a
\* register, where gcc -O3 keeps it, it finds the value of that time: NULL at
\* getcontext, the task it started then behind swapcontext.
Found(w) == IF InMemory THEN task[w] ELSE started[w]

\* Mutant: the task is taken for complete without a look at AIO_flg.
ReturnComplete(w) ==
  LET Recycled == {i \in TCBs : i = Found(w) /\ started[w] # Nobody}
      Unlocked == {i \in TCBs : i = Found(w)}
  IN
  /\ fiber' = [i \in TCBs |-> fiber[i] /\ i \notin Recycled]
  /\ link' = [i \in TCBs |-> IF i \in Recycled THEN Nobody ELSE link[i]]
  /\ lock' = [i \in TCBs |-> IF i \in Unlocked THEN Nobody ELSE lock[i]]
  /\ task' = Set(task, w, Nobody)
  /\ sync' = Set(sync, w, FALSE)
  /\ Goto(w, "loop")

\* Behind getcontext it unlocks that task.  Behind swapcontext it takes the
\* task for complete and recycles its stack, or unlocks it, by AIO_flg.
Return(w) ==
  LET Recycled == {i \in TCBs : i = Found(w) /\ started[w] # Nobody /\ ~AIO_flg[i]}
      Unlocked == {i \in TCBs : i = Found(w)} \ Recycled
  IN
  /\ fiber' = [i \in TCBs |-> fiber[i] /\ i \notin Recycled]
  /\ link' = [i \in TCBs |-> IF i \in Recycled THEN Nobody ELSE link[i]]
  /\ lock' = [i \in TCBs |-> IF i \in Unlocked THEN Nobody ELSE lock[i]]
  /\ task' = Set(task, w, Nobody)
  /\ sync' = Set(sync, w, FALSE)
  /\ Goto(w, "loop")

\* The fiber's context is saved and the worker back in its own.
Swap(w) ==
  /\ At(w, "swap")
  /\ saved' = Set(saved, task[w], TRUE)
  /\ Return(w)
  /\ UNCHANGED <<queueVars, connVars, eventVars, AIO_flg, started, ret>>

\* The service asks for a callback at the next event of its client.
SetCallback(w) ==
  LET i == task[w] IN
  /\ At(w, "run") /\ ~call_back[i] /\ status[i] # -1
  /\ call_back' = Set(call_back, i, TRUE)
  /\ \E limited \in BOOLEAN : timeout' = Set(timeout, i, limited)
  /\ UNCHANGED <<queueVars, open, status, fd, armed, events, fiberVars, workVars>>

\* unset_callback; or clr_event, which takes a client whose descriptor is its socket
\* for logged in and leaves the timeout, and else leaves what set_event gave.
ClearCallback(w) ==
  LET i == task[w] IN
  /\ At(w, "run") /\ call_back[i]
  /\ call_back' = Set(call_back, i, FALSE)
  /\ \/ timeout' = Set(timeout, i, TRUE) /\ UNCHANGED <<status, fd, armed, events>>
     \/ status' = Set(status, i, 0) /\ UNCHANGED eventVars
     \/ /\ CanRegister(i)
        /\ armed' = Set(armed, i, FALSE)
        /\ events' = Set(events, i, "none")
        /\ fd' = Set(fd, i, open[i])
        /\ timeout' = Set(timeout, i, TRUE)
        /\ UNCHANGED status
  /\ UNCHANGED <<queueVars, open, fiberVars, workVars>>

Answer(w, r) == ret' = Set(ret, w, r) /\ Goto(w, "finish")

\* A key was agreed, a request or a callback served: the client is waited for.
Reply(w) ==
  LET i == task[w] IN
  /\ At(w, "run")
  /\ status' = Set(status, i, IF call_back[i] THEN status[i] ELSE 0)
  /\ \E asked \in BOOLEAN :
       call_back' = Set(call_back, i, call_back[i] \/ (status[i] = -1 /\ asked))
  /\ Answer(w, "again")
  /\ UNCHANGED <<queueVars, open, eventVars, fiberVars, task, sync, started>>

\* The key exchange, the transfer or the service failed, or the client left.
Fail(w) ==
  /\ At(w, "run")
  /\ Answer(w, "close")
  /\ UNCHANGED <<queueVars, connVars, eventVars, fiberVars, task, sync, started>>

\* set_event, then THREAD_ESCAPE: a callback waits for a descriptor.
SetEvent(w) ==
  LET i == task[w] IN
  /\ At(w, "run") /\ status[i] # -1 /\ CanRegister(i)
  /\ call_back' = Set(call_back, i, TRUE)
  /\ timeout' = Set(timeout, i, TRUE)
  /\ Register(i)
  /\ Answer(w, "escape")
  /\ UNCHANGED <<queueVars, open, status, fd, fiberVars, task, sync, started>>

\* set_callback and TCB_add to a queue of the application, then THREAD_ESCAPE.
Park(w) ==
  LET i == task[w] IN
  /\ At(w, "run") /\ status[i] # -1 /\ ~InQueue(i)
  /\ call_back' = Set(call_back, i, TRUE)
  /\ timeout' = Set(timeout, i, TRUE)
  /\ parked' = parked \cup {i}
  /\ Answer(w, "escape")
  /\ UNCHANGED <<freeq, ready, open, status, fd, armed, events, fiberVars, task, sync, started>>

\* TCB_add to the ready queue, then THREAD_ESCAPE: the task is waited for again.
MakeReady(w) ==
  LET i == task[w] IN
  /\ At(w, "run") /\ status[i] # -1
  /\ ret' = Set(ret, w, "escape")
  /\ AddReady(i, [pc EXCEPT ![w] = "finish"])
  /\ UNCHANGED <<freeq, parked, connVars, eventVars, fiberVars, task, sync, started>>

\* A thread of the application takes a task off its queue and makes it ready.
Unpark(i) ==
  /\ i \in parked
  /\ parked' = parked \ {i}
  /\ ready' = Append(ready, i)
  /\ \/ Waiting = {} /\ UNCHANGED pc
     \/ \E w \in Waiting : Goto(w, "woken")
  /\ UNCHANGED <<freeq, connVars, eventVars, fiberVars, task, sync, started, ret>>
-----------------------------------------------------------------------------
(* do_work ends *)

\* Another worker may get the task as soon as its event is registered; the
\* client is given up if epoll_ctl fails.
Rearm(w) ==
  LET i == task[w] IN
  /\ At(w, "finish")
  /\ ret[w] = "again"
  /\ timeout' = Set(timeout, i, TRUE)
  /\ \/ CanRegister(i) /\ Register(i) /\ UNCHANGED status
     \/ /\ NotOvertaken(w)
        /\ status' = Set(status, i, -2)
        /\ UNCHANGED <<armed, events>>
  /\ ret' = Set(ret, w, "again")
  /\ Goto(w, "status")
  /\ UNCHANGED <<queueVars, open, call_back, fd, fiberVars, task, sync, started>>

\* The task is marked for deletion.
Doom(w) ==
  LET i == task[w] IN
  /\ At(w, "finish")
  /\ ret[w] = "close" /\ NotOvertaken(w)
  /\ timeout' = Set(timeout, i, TRUE)
  /\ status' = Set(status, i, -2)
  /\ IF CanRegister(i)
     THEN /\ fd' = Set(fd, i, FALSE)
          /\ armed' = Set(armed, i, FALSE)
          /\ events' = Set(events, i, "none")
     ELSE UNCHANGED <<fd, armed, events>>
  /\ ret' = Set(ret, w, "again")
  /\ Goto(w, "status")
  /\ UNCHANGED <<queueVars, open, call_back, fiberVars, task, sync, started>>

\* THREAD_ESCAPE: the task is in other hands.
Escape(w) ==
  /\ At(w, "finish")
  /\ ret[w] = "escape"
  /\ timeout' = Set(timeout, task[w], TRUE)
  /\ ret' = Set(ret, w, "again")
  /\ Goto(w, "status")
  /\ UNCHANGED <<queueVars, connVars, fd, armed, events, fiberVars, task, sync, started>>

\* client_del, when the task is marked by now.
CheckStatus(w) ==
  LET i == task[w] IN
  /\ At(w, "status")
  /\ \/ status[i] = -2 /\ CloseClient(i) /\ Goto(w, "enqueue")
     \/ status[i] # -2 /\ Goto(w, "end") /\ UNCHANGED <<open, status, AIO_flg, eventVars>>
  /\ UNCHANGED <<queueVars, call_back, lock, fiber, saved, link, task, sync, started, ret>>

Enqueue(w) ==
  /\ At(w, "enqueue")
  /\ AddFree(task[w])
  /\ Goto(w, "end")
  /\ UNCHANGED <<ready, parked, connVars, eventVars, fiberVars, task, sync, started, ret>>

\* do_work returns, on the worker's own stack or, by uc_link, to its context.
End(w) ==
  /\ At(w, "end")
  /\ \/ link[task[w]] = w /\ Return(w)
     \/ /\ link[task[w]] # w
        /\ task' = Set(task, w, Nobody)
        /\ sync' = Set(sync, w, FALSE)
        /\ Goto(w, "loop")
        /\ UNCHANGED <<lock, fiber, link>>
  /\ UNCHANGED <<queueVars, connVars, eventVars, AIO_flg, saved, started, ret>>
-----------------------------------------------------------------------------
Serve(w) ==
  \/ Yield(w) \/ SetCallback(w) \/ ClearCallback(w)
  \/ Reply(w) \/ Fail(w) \/ SetEvent(w) \/ Park(w) \/ MakeReady(w)

Serving(w) == Reply(w) \/ Fail(w)

Step(w) ==
  \/ TakeReady(w) \/ Sleep(w) \/ Picked(w) \/ Dispatch(w) \/ Resume(w)
  \/ Work(w) \/ YieldLock(w) \/ Swap(w)
  \/ Rearm(w) \/ Doom(w) \/ Escape(w) \/ CheckStatus(w) \/ Enqueue(w) \/ End(w)

Next ==
  \/ Accept \/ AcceptFails
  \/ \E i \in TCBs : ExpireCallback(i) \/ ExpireFiber(i) \/ ExpireClient(i) \/ Unpark(i)
  \/ \E w \in Workers : Step(w) \/ Serve(w)
  \/ \E w \in Workers, i \in TCBs : Event(w, i)

Spec == Init /\ [][Next]_vars

\* A worker that can go on does so, and the services return: the main thread,
\* the clients and the timers owe nothing.
Fairness == \A w \in Workers : WF_vars(Step(w)) /\ WF_vars(Serving(w))

FairSpec == Spec /\ Fairness
-----------------------------------------------------------------------------
TypeOK ==
  /\ freeq \in Seq(TCBs) /\ ready \in Seq(TCBs) /\ parked \subseteq TCBs
  /\ open \in [TCBs -> BOOLEAN] /\ fd \in [TCBs -> BOOLEAN]
  /\ armed \in [TCBs -> BOOLEAN] /\ events \in [TCBs -> {"none", "io", "timeout"}]
  /\ timeout \in [TCBs -> BOOLEAN] /\ status \in [TCBs -> {-2, -1, 0}]
  /\ call_back \in [TCBs -> BOOLEAN] /\ AIO_flg \in [TCBs -> BOOLEAN]
  /\ lock \in [TCBs -> Workers \cup {Nobody}] /\ link \in [TCBs -> Workers \cup {Nobody}]
  /\ fiber \in [TCBs -> BOOLEAN] /\ saved \in [TCBs -> BOOLEAN]
  /\ pc \in [Workers -> HasTask \cup {"loop", "woken", "condwait", "epoll"}]
  /\ task \in [Workers -> TCBs \cup {Nobody}]
  /\ sync \in [Workers -> BOOLEAN] /\ started \in [Workers -> TCBs \cup {Nobody}]
  /\ ret \in [Workers -> {"again", "close", "escape"}]

Runs(w) == pc[w] \in {"work", "run", "yield", "swap"}

\* A service of one client runs in one worker at a time, though a callback may
\* start before the worker that asked for it has left do_work (760), and a
\* fiber be resumed as soon as its event is registered.
OneRunner ==
  \A v, w \in Workers :
    /\ v # w /\ task[v] = task[w] /\ task[v] # Nobody
    => /\ ~(Runs(v) /\ Runs(w))
       /\ At(w, "lock") /\ Runs(v) => At(v, "swap")

\* A task in the free list has no client, no event on its way, no fiber that
\* waits, and no worker that would still serve or delete it.
FreeIsIdle ==
  \A i \in TCBs : In(freeq, i) =>
    /\ ~open[i] /\ ~armed[i] /\ ~AIO_flg[i] /\ status[i] = -1
    /\ \A w \in Holders(i) : pc[w] = "end"

\* Every client can be heard: its event is registered, or its task is in a
\* queue or in a worker's hands; the task of a client that is gone is free or
\* about to be.
NoneForgotten ==
  \A i \in TCBs :
    /\ open[i] => armed[i] \/ In(ready, i) \/ i \in parked \/ \E w \in Holders(i) : pc[w] # "end"
    /\ ~open[i] => In(freeq, i) \/ \E w \in Holders(i) : pc[w] = "enqueue"

\* A ready task has a worker that will look at the queue, though the others
\* sleep in epoll_wait or in pthread_cond_wait.
ReadyHasWorker == ready # <<>> => \E w \in Workers : pc[w] \notin {"condwait", "epoll"}

\* A task is free or has a client that can be heard, whatever the order in which
\* it is closed, expired and taken (505, 685, 724).
TasksKept == TypeOK /\ FreeIsIdle /\ NoneForgotten /\ ReadyHasWorker

\* task->lock is held only by the worker that leaves its fiber just now: nobody
\* takes it along to another task or to sleep.
LockOnLeaving ==
  \A i \in TCBs : lock[i] # Nobody => task[lock[i]] = i /\ At(lock[i], "swap")

\* task->lock keeps other threads from entering a fiber early (756, 864): no
\* worker switches to a stack another one still runs on, and nobody takes the
\* lock along to another task or to sleep.
FiberIntact ==
  /\ []LockOnLeaving
  /\ [][\A w \in Workers : At(w, "lock") /\ pc'[w] = "run" => saved[task[w]]]_vars

\* Whatever the services do, as long as they return, every ready task is taken.
ReadyServed == \A i \in TCBs : In(ready, i) ~> ~In(ready, i)

\* A fiber's stack is recycled when its own service is complete (804, 805).
RecycledComplete ==
  [][\A i \in TCBs : fiber[i] /\ ~fiber'[i] =>
       \E w \in Workers : task[w] = i /\ At(w, "end") /\ ~At(w, "end")']_vars

\* A service runs in synchronous mode, unable to yield, only because its task
\* was broken in upon while another worker still has it (760).
SyncOnlyBrokenIn ==
  [][\A w \in Workers : At(w, "dispatch") /\ sync'[w] => Holders(task[w]) # {w}]_vars
=============================================================================

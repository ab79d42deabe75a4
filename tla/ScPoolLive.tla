----------------------------- MODULE ScPoolLive -----------------------------
(***************************************************************************)
(* ScPool with a bounded number of calls, so that the question whether a   *)
(* call returns is not answered by an unbounded stream of other callers    *)
(* that are always faster (the mutexes promise no order).                  *)
(***************************************************************************)
EXTENDS ScPool

CONSTANT MaxCalls   \* the calls every thread makes

ASSUME MaxCallsAssumption == MaxCalls \in Nat

VARIABLE left       \* left[t]: the calls thread t will still make

liveVars == <<vars, left>>

LiveInit == Init /\ left = [t \in Threads |-> MaxCalls]

BeginCall(t) ==
  /\ left[t] > 0
  /\ left' = [left EXCEPT ![t] = @ - 1]
  /\ \/ \E p \in Paths, f \in PathFlags : CallPath(t, p, f)
     \/ \E f \in PoolFlags : CallPool(t, f)

\* The rest of a call, and what the application does with the connection.
Proceed(t) == Step(t) /\ UNCHANGED left
PutBack(t) == Release(t) /\ UNCHANGED left

LiveNext ==
  \/ \E t \in Threads : BeginCall(t) \/ Proceed(t) \/ PutBack(t)
  \/ (\E t \in Threads : CallFails(t) \/ SpuriousWakeup(t)) /\ UNCHANGED left
  \/ (\E r \in Resources : CloseIdle(r)) /\ UNCHANGED left

\* The system schedules every thread, a timed wait ends, a connect attempt is
\* answered or fails, and an application returns the connection it was lent.
\* Strong fairness: a thread that wants a mutex which is free again and again
\* gets it in the end, as the futexes below a pthread mutex see to.
Fairness == \A t \in Threads : SF_liveVars(Proceed(t)) /\ SF_liveVars(PutBack(t))

LiveSpec == LiveInit /\ [][LiveNext]_liveVars /\ Fairness

\* Every call returns, with a connection or without: no waiting thread is
\* forgotten, whatever happens to the connections of the others.
Returned(t) == pc[t] \in Outside \cup {"use"}
CallsReturn == \A t \in Threads : []<>Returned(t)

\* A caller that waits for ever gets a connection in the end, as long as one
\* path of the pool leads to a server that can be reached.
WaitersServed ==
  \A t \in Threads : (flg[t] = -1 /\ ~Returned(t)) ~> At(t, "use")
=============================================================================

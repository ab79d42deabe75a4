------------------------------ MODULE ConnPool ------------------------------
(***************************************************************************)
(* What the connection pool of sccli/scpool.c promises to the threads of   *)
(* the application: a connection is lent to one thread at a time and goes  *)
(* back to the pool only from the thread that has it.  How the pool finds, *)
(* opens, closes or balances connections is of no concern here.            *)
(***************************************************************************)

CONSTANTS Threads,    (* the threads of the application            *)
          Resources,  (* the connections the pool owns             *)
          InPool      (* no thread: nobody has the connection *)

VARIABLE owner        (* owner[r]: the thread that has r, or InPool *)

Init == owner = [r \in Resources |-> InPool]

\* A thread is lent a connection that nobody has.
Lend(t, r) ==
  /\ owner[r] = InPool
  /\ owner' = [owner EXCEPT ![r] = t]

\* The thread that has a connection gives it back.
GiveBack(t, r) ==
  /\ owner[r] = t
  /\ owner' = [owner EXCEPT ![r] = InPool]

Next == \E t \in Threads, r \in Resources : Lend(t, r) \/ GiveBack(t, r)

Spec == Init /\ [][Next]_owner
=============================================================================

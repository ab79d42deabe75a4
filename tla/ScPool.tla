------------------------------- MODULE ScPool -------------------------------
(***************************************************************************)
(* One pool (sc_path) of sccli/scpool.c: the paths (path_lnk) that lead to *)
(* equivalent servers, the connections (resource) of every path, the       *)
(* threads that take and return them, and the periodic scpool_check.       *)
(*                                                                         *)
(* A critical section under pl->mut is one action, enabled while the mutex *)
(* is free.  The mutex stays locked across actions only where the code     *)
(* sleeps with it (scpool.c:429); the variable mut records that.           *)
(***************************************************************************)
EXTENDS Integers, Sequences, FiniteSets

CONSTANTS
  Threads,    \* the threads that use the pool
  Num,        \* Num[p]: the connections of path p (pl->resource_num)
  PathFlags,  \* the flg values get_path_resource is called with
  PoolFlags,  \* the flg values get_SC_connect is called with
  Faults,     \* Faults[p]: what may go wrong while connecting on path p
  AppErrors,  \* the negative Errno values an application can leave
  Nobody      \* no thread

Paths == DOMAIN Num

ASSUME PoolAssumption ==
  /\ Nobody \notin Threads
  /\ Num \in Seq(Nat \ {0}) /\ Num # <<>>
  /\ PathFlags \subseteq {0, 1}
  /\ PoolFlags \subseteq Nat \cup {-1}
  /\ Faults \in [Paths -> SUBSET {"connect", "clikey", "svclist", "refused"}]
  /\ AppErrors \subseteq {-1, -2}

\* Connection i of path p; conn->pos is the pair packed into an int.
Resources == UNION {{p} \X (1 .. Num[p]) : p \in Paths}
PathOf(r) == r[1]
NoConn == <<0, 0>>

VARIABLES
  mut,         \* mut[p]: the thread that sleeps with pl->mut locked
  freeq,       \* freeq[p]: the ring free_q, first to be taken first
  weight,      \* weight[p]: pl->weight, -1 when the path is out of order
  srvn,        \* srvn[p]: 0 no service table, -1 being loaded, 1 loaded
  usage,       \* usage[p]: svc_tbl.usage
  hashed,      \* hashed[p]: srvlist and srv_hash have been built
  sock,        \* sock[r]: "none" (Socket<0), "open", "broken", "stale"
  Errno,       \* Errno[r]: cli.Errno, 0 or negative
  attached,    \* attached[r]: freeing r runs free_srv_list
  weightLock,  \* the holder of scp->weightLock
  pc,          \* pc[t]: where thread t is
  from,        \* from[t]: where get_SC_resource is called, see HasWeightLock
  path,        \* path[t]: the path a call looks at
  flg,         \* flg[t]: the parameter flg of a call
  repeat,      \* repeat[t]: how often get_SC_by_weight will still wait
  bad,         \* bad[t]: no path was found that is only busy
  seen,        \* seen[t]: the weights scanned so far
  res,         \* res[t]: the connection it has
  given        \* given[t]: the connection it is returning, once unlocked

pathVars == <<mut, freeq, weight>>
svcVars  == <<srvn, usage, hashed>>
connVars == <<sock, Errno, attached>>
callVars == <<from, path, flg, repeat, bad, seen>>
vars == <<pathVars, svcVars, connVars, callVars, weightLock, pc, res, given>>

\* A thread outside the pool, with the result of its last call: none yet or a
\* returned connection, NULL, or -1.
Outside == {"idle", "null", "bad"}

Init ==
  /\ mut = [p \in Paths |-> Nobody]
  /\ freeq = [p \in Paths |-> [i \in 1 .. Num[p] |-> <<p, i>>]]
  /\ weight = [p \in Paths |-> Num[p]]
  /\ srvn = [p \in Paths |-> 0]
  /\ usage = [p \in Paths |-> 0]
  /\ hashed = [p \in Paths |-> FALSE]
  /\ sock = [r \in Resources |-> "none"]
  /\ Errno = [r \in Resources |-> -1]
  /\ attached = [r \in Resources |-> FALSE]
  /\ weightLock = Nobody
  /\ pc = [t \in Threads |-> "idle"]
  /\ from = [t \in Threads |-> "path"]
  /\ path = [t \in Threads |-> 1]
  /\ flg = [t \in Threads |-> 0]
  /\ repeat = [t \in Threads |-> 0]
  /\ bad = [t \in Threads |-> TRUE]
  /\ seen = [t \in Threads |-> <<>>]
  /\ res = [t \in Threads |-> NoConn]
  /\ given = [t \in Threads |-> NoConn]
-----------------------------------------------------------------------------
(* Helpers *)

InQueue(r) == \E i \in DOMAIN freeq[PathOf(r)] : freeq[PathOf(r)][i] = r

\* add_lnk: a live connection becomes the first to be taken, a closed one the
\* last; what is in the ring already stays where it is.
add_lnk(r) ==
  LET p == PathOf(r) IN
  freeq' = [freeq EXCEPT ![p] = IF InQueue(r) THEN @
                                ELSE IF sock'[r] = "none" THEN Append(@, r)
                                ELSE <<r>> \o @]

\* The weight add_lnk leaves behind.
Heavier(r) ==
  LET p == PathOf(r) IN
  IF InQueue(r) \/ weight[p] < 0 THEN weight[p] ELSE weight[p] + 1

\* Mutants of disconnect: a user too few or the table freed a user too early.
disconnectAlways(r) ==
  LET p == PathOf(r) IN
  /\ sock' = [sock EXCEPT ![r] = "none"]
  /\ attached' = [attached EXCEPT ![r] = FALSE]
  /\ IF usage[p] > 0
     THEN usage' = [usage EXCEPT ![p] = @ - 1] /\ UNCHANGED <<srvn, hashed>>
     ELSE UNCHANGED svcVars
disconnectEarly(r) ==
  LET p == PathOf(r) IN
  /\ sock' = [sock EXCEPT ![r] = "none"]
  /\ attached' = [attached EXCEPT ![r] = FALSE]
  /\ IF attached[r] /\ usage[p] > 1
     THEN usage' = [usage EXCEPT ![p] = @ - 1] /\ UNCHANGED <<srvn, hashed>>
     ELSE IF attached[r]
     THEN /\ srvn' = [srvn EXCEPT ![p] = 0]
          /\ hashed' = [hashed EXCEPT ![p] = FALSE]
          /\ UNCHANGED usage
     ELSE UNCHANGED svcVars

\* disconnect: close the socket and, when the connection counts as a user of
\* the service table, free_srv_list: one user less, or the table is freed.
disconnect(r) ==
  LET p == PathOf(r) IN
  /\ sock' = [sock EXCEPT ![r] = "none"]
  /\ attached' = [attached EXCEPT ![r] = FALSE]
  /\ IF attached[r] /\ usage[p] > 0
     THEN usage' = [usage EXCEPT ![p] = @ - 1] /\ UNCHANGED <<srvn, hashed>>
     ELSE IF attached[r]
     THEN /\ srvn' = [srvn EXCEPT ![p] = 0]
          /\ hashed' = [hashed EXCEPT ![p] = FALSE]
          /\ UNCHANGED usage
     ELSE UNCHANGED svcVars

Goto(t, l) == pc' = [pc EXCEPT ![t] = l]
At(t, l) == pc[t] = l
Unlocked(p) == mut[p] = Nobody

\* The local variables of a call as it begins; EndCall forgets them.
SetCall(t, c, p, f) ==
  /\ from' = [from EXCEPT ![t] = c]
  /\ path' = [path EXCEPT ![t] = p]
  /\ flg' = [flg EXCEPT ![t] = f]
  /\ repeat' = [repeat EXCEPT ![t] = f]
  /\ bad' = [bad EXCEPT ![t] = TRUE]
  /\ seen' = [seen EXCEPT ![t] = <<>>]
EndCall(t) == SetCall(t, "path", 1, 0)

\* get_SC_resource was called with Lock, that is from get_SC_by_weight.
HasWeightLock(t) == from[t] # "path"

\* pthread_cond_signal wakes one of the waiting threads, if there are any.
OneOf(S) == IF S = {} THEN {{}} ELSE {{u} : u \in S}
CondWaiters(p) == {u \in Threads : pc[u] = "condwait" /\ path[u] = p}
WeightWaiters == {u \in Threads : pc[u] = "weightwait"}
Woken(l) == IF l = "condwait" THEN "get" ELSE "rescan"
SignalAndGoto(t, W, l) ==
  pc' = [u \in Threads |-> IF u = t THEN l
                           ELSE IF u \in W THEN Woken(pc[u]) ELSE pc[u]]
-----------------------------------------------------------------------------
(* get_path_resource and get_SC_by_weight: the callers of get_SC_resource *)

\* get_path_resource asks for a connection of one path.
CallPath(t, p, f) ==
  /\ pc[t] \in Outside
  /\ SetCall(t, "path", p, f)
  /\ Goto(t, "get")
  /\ UNCHANGED <<pathVars, svcVars, connVars, weightLock, res, given>>

\* get_SC_connect asks for a connection of any path.
CallPool(t, f) ==
  /\ pc[t] \in Outside
  /\ SetCall(t, "scan", 1, f)
  /\ Goto(t, "rescan")
  /\ UNCHANGED <<pathVars, svcVars, connVars, weightLock, res, given>>

\* weightLock is locked, first on entry, later by the return from the wait.
LockWeight(t) ==
  /\ At(t, "rescan")
  /\ weightLock = Nobody
  /\ weightLock' = t
  /\ from' = [from EXCEPT ![t] = "scan"]
  /\ Goto(t, "scan")
  /\ UNCHANGED <<pathVars, svcVars, connVars, path, flg, repeat, bad, seen, res, given>>

\* Path n is the first of those with the greatest relative weight.
Share(w, p) == (w[p] * 512) \div Num[p]
Heaviest(w, n) ==
  /\ w[n] > 0
  /\ \A p \in DOMAIN w : w[p] > 0 =>
       IF p < n THEN Share(w, p) < Share(w, n) ELSE Share(w, p) <= Share(w, n)

\* One iteration of the scan, under the mutex of the path; after the last one
\* the thread goes for the heaviest path or starts to probe the broken ones.
ScanPath(t) ==
  LET w == Append(seen[t], weight[Len(seen[t]) + 1]) IN
  /\ At(t, "scan")
  /\ Unlocked(Len(w))
  /\ \/ /\ Len(w) < Len(Num)
        /\ seen' = [seen EXCEPT ![t] = w]
        /\ UNCHANGED <<pc, from, path, bad>>
     \/ /\ Len(w) = Len(Num)
        /\ \E n \in Paths : Heaviest(w, n) /\ path' = [path EXCEPT ![t] = n]
        /\ seen' = [seen EXCEPT ![t] = <<>>]
        /\ Goto(t, "get")
        /\ UNCHANGED <<from, bad>>
     \/ /\ Len(w) = Len(Num)
        /\ \A p \in Paths : w[p] <= 0
        /\ seen' = [seen EXCEPT ![t] = <<>>]
        /\ path' = [path EXCEPT ![t] = 1]
        /\ bad' = [bad EXCEPT ![t] = TRUE]
        /\ from' = [from EXCEPT ![t] = "probe"]
        /\ Goto(t, "probe")
  /\ UNCHANGED <<pathVars, svcVars, connVars, flg, repeat, weightLock, res, given>>

\* Mutant: a busy path counts as a broken one.
ProbePathBad(t) ==
  LET p == path[t] IN
  /\ At(t, "probe")
  /\ p \in Paths
  /\ IF weight[p] >= 0 THEN path' = [path EXCEPT ![t] = p + 1] /\ UNCHANGED pc
                       ELSE Goto(t, "get") /\ UNCHANGED path
  /\ UNCHANGED <<pathVars, svcVars, connVars, from, flg, repeat, bad, seen,
                 weightLock, res, given>>

\* The probe of one path: one that is only busy clears bad, a broken one is
\* tried.  The weight is read without the mutex of the path.
ProbePath(t) ==
  LET p == path[t] IN
  /\ At(t, "probe")
  /\ p \in Paths
  /\ \/ /\ weight[p] >= 0
        /\ bad' = [bad EXCEPT ![t] = FALSE]
        /\ path' = [path EXCEPT ![t] = p + 1]
        /\ UNCHANGED pc
     \/ weight[p] < 0 /\ Goto(t, "get") /\ UNCHANGED <<bad, path>>
  /\ UNCHANGED <<pathVars, svcVars, connVars, from, flg, repeat, seen,
                 weightLock, res, given>>

\* Mutant: the lock is not released on the way out.
GiveUpLocked(t) ==
  /\ At(t, "probe")
  /\ path[t] \notin Paths
  /\ flg[t] = 0 \/ bad[t] \/ repeat[t] = 0
  /\ Goto(t, IF bad[t] /\ flg[t] > 0 THEN "bad" ELSE "null")
  /\ EndCall(t)
  /\ UNCHANGED <<pathVars, svcVars, connVars, weightLock, res, given>>

\* All probed: NULL when the caller does not wait or has waited flg times, -1
\* when every path was found broken; for flg=-1 get_SC_connect turns it to NULL.
GiveUp(t) ==
  /\ At(t, "probe")
  /\ path[t] \notin Paths
  /\ flg[t] = 0 \/ bad[t] \/ repeat[t] = 0
  /\ weightLock' = Nobody
  /\ Goto(t, IF bad[t] /\ flg[t] > 0 THEN "bad" ELSE "null")
  /\ EndCall(t)
  /\ UNCHANGED <<pathVars, svcVars, connVars, res, given>>

\* All probed and the caller may wait: the lock is released with the wait.
WaitWeight(t) ==
  /\ At(t, "probe")
  /\ path[t] \notin Paths
  /\ flg[t] # 0 /\ ~bad[t] /\ repeat[t] # 0
  /\ weightLock' = Nobody
  /\ Goto(t, "weightwait")
  /\ UNCHANGED <<pathVars, svcVars, connVars, callVars, res, given>>

\* pthread_cond_timedwait runs out after 6 seconds: repeat--.
WaitTimeout(t) ==
  /\ At(t, "weightwait")
  /\ Goto(t, "rescan")
  /\ repeat' = [repeat EXCEPT ![t] = IF @ > 0 THEN @ - 1 ELSE @]
  /\ UNCHANGED <<pathVars, svcVars, connVars, from, path, flg, bad, seen,
                 weightLock, res, given>>
-----------------------------------------------------------------------------
(* get_SC_resource *)

\* Mutant: the ring keeps its last connection.
TakeKeep(t) ==
  LET p == path[t] IN
  /\ At(t, "get")
  /\ Unlocked(p)
  /\ freeq[p] # <<>>
  /\ res' = [res EXCEPT ![t] = Head(freeq[p])]
  /\ freeq' = [freeq EXCEPT ![p] = IF Len(@) = 1 THEN @ ELSE Tail(@)]
  /\ weight' = [weight EXCEPT ![p] = IF @ > 0 THEN @ - 1 ELSE @]
  /\ Goto(t, "check")
  /\ UNCHANGED <<mut, svcVars, connVars, weightLock, callVars, given>>

\* get_lnk_no: the first connection of the ring is taken.
Take(t) ==
  LET p == path[t] IN
  /\ At(t, "get")
  /\ Unlocked(p)
  /\ freeq[p] # <<>>
  /\ res' = [res EXCEPT ![t] = Head(freeq[p])]
  /\ freeq' = [freeq EXCEPT ![p] = Tail(@)]
  /\ weight' = [weight EXCEPT ![p] = IF @ > 0 THEN @ - 1 ELSE @]
  /\ Goto(t, "check")
  /\ UNCHANGED <<mut, svcVars, connVars, weightLock, callVars, given>>

\* What get_SC_by_weight does when get_SC_resource returns NULL or -1: after a
\* scan it scans again, while probing it goes on to the next path.
NextPath(t) ==
  IF from[t] = "scan"
  THEN Goto(t, "scan") /\ UNCHANGED callVars
  ELSE /\ Goto(t, "probe")
       /\ path' = [path EXCEPT ![t] = @ + 1]
       /\ UNCHANGED <<from, flg, repeat, bad, seen>>

\* There is no free connection: a thread that may wait waits for one, with
\* flg # 0 get_SC_resource returns NULL.
TakeNothing(t) ==
  LET p == path[t] IN
  /\ At(t, "get")
  /\ Unlocked(p)
  /\ freeq[p] = <<>>
  /\ \/ HasWeightLock(t) /\ NextPath(t)
     \/ ~HasWeightLock(t) /\ flg[t] # 0 /\ Goto(t, "null") /\ EndCall(t)
     \/ ~HasWeightLock(t) /\ flg[t] = 0 /\ Goto(t, "condwait") /\ UNCHANGED callVars
  /\ UNCHANGED <<pathVars, svcVars, connVars, weightLock, res, given>>

\* A connection that is closed, or was marked by its last user, is connected
\* first, and weightLock is not kept meanwhile.
CheckConn(t) ==
  LET r == res[t] IN
  /\ At(t, "check")
  /\ IF sock[r] = "none" \/ Errno[r] < 0
     THEN /\ Goto(t, "connect")
          /\ weightLock' = IF HasWeightLock(t) THEN Nobody ELSE weightLock
     ELSE Goto(t, "ready") /\ UNCHANGED weightLock
  /\ UNCHANGED <<pathVars, svcVars, connVars, callVars, res, given>>

\* Net_Connect and the login.  initconnect forgets socket and freevar without
\* closing or calling them.  No connection or a refused login leave no socket;
\* when get_clikey fails its number stays in conn->Socket though it is closed.
Connect(t) ==
  LET r == res[t] IN
  /\ At(t, "connect")
  /\ \/ sock' = [sock EXCEPT ![r] = "open"] /\ Goto(t, "service")
     \/ /\ "connect" \in Faults[PathOf(r)]
        /\ sock' = [sock EXCEPT ![r] = "none"] /\ Goto(t, "failed")
     \/ /\ "clikey" \in Faults[PathOf(r)]
        /\ sock' = [sock EXCEPT ![r] = "stale"] /\ Goto(t, "failed")
  /\ attached' = [attached EXCEPT ![r] = FALSE]
  /\ UNCHANGED <<pathVars, svcVars, Errno, callVars, weightLock, res, given>>

\* The thread becomes a user of the loaded service table.
UseTable(p, r) ==
  /\ usage' = [usage EXCEPT ![p] = @ + 1]
  /\ attached' = [attached EXCEPT ![r] = TRUE]
  /\ UNCHANGED <<srvn, hashed, sock, Errno>>

\* The thread announces that it will load the service table.
StartLoad(p) ==
  /\ srvn' = [srvn EXCEPT ![p] = -1]
  /\ UNCHANGED <<usage, hashed, connVars>>

\* The look at the service table under pl->mut.  While another thread loads it
\* the mutex stays locked.
CheckTable(t) ==
  LET r == res[t]
      p == PathOf(r)
  IN  /\ At(t, "service")
      /\ Unlocked(p)
      /\ \/ srvn[p] = 0 /\ StartLoad(p) /\ Goto(t, "load") /\ UNCHANGED mut
         \/ srvn[p] > 0 /\ UseTable(p, r) /\ Goto(t, "relock") /\ UNCHANGED mut
         \/ /\ srvn[p] < 0
            /\ mut' = [mut EXCEPT ![p] = t]
            /\ Goto(t, "spin")
            /\ UNCHANGED <<svcVars, connVars>>
      /\ UNCHANGED <<freeq, weight, callVars, weightLock, res, given>>

\* while(srvn<0) usleep(1000) ends: the table is used, or loaded after all.
SpinEnds(t) ==
  LET r == res[t]
      p == PathOf(r)
  IN  /\ At(t, "spin")
      /\ \/ srvn[p] > 0 /\ UseTable(p, r) /\ Goto(t, "relock")
         \/ srvn[p] = 0 /\ StartLoad(p) /\ Goto(t, "load")
      /\ mut' = [mut EXCEPT ![p] = Nobody]
      /\ UNCHANGED <<freeq, weight, callVars, weightLock, res, given>>

\* init_svc_no receives the service list and publishes its length, which is not 0:
\* get_srvname lists every service but the first and cannot answer without one.
LoadPublish(t) ==
  LET r == res[t]
      p == PathOf(r)
  IN  /\ At(t, "load")
      /\ srvn' = [srvn EXCEPT ![p] = 1]
      /\ usage' = [usage EXCEPT ![p] = 0]
      /\ hashed' = [hashed EXCEPT ![p] = FALSE]
      /\ attached' = [attached EXCEPT ![r] = TRUE]
      /\ Goto(t, "build")
      /\ UNCHANGED <<pathVars, sock, Errno, callVars, weightLock, res, given>>

\* Mutants: usage counted down instead of reset, srvn not reset at all.
LoadFailsDecrement(t) ==
  LET r == res[t]
      p == PathOf(r)
  IN  /\ At(t, "load")
      /\ "svclist" \in Faults[p]
      /\ srvn' = [srvn EXCEPT ![p] = 0]
      /\ usage' = [usage EXCEPT ![p] = @ - 1]
      /\ hashed' = [hashed EXCEPT ![p] = FALSE]
      /\ sock' = [sock EXCEPT ![r] = "none"]
      /\ Goto(t, "failed")
      /\ UNCHANGED <<pathVars, Errno, attached, callVars, weightLock, res, given>>
LoadFailsNoReset(t) ==
  LET r == res[t]
      p == PathOf(r)
  IN  /\ At(t, "load")
      /\ "svclist" \in Faults[p]
      /\ usage' = [usage EXCEPT ![p] = -1]
      /\ hashed' = [hashed EXCEPT ![p] = FALSE]
      /\ sock' = [sock EXCEPT ![r] = "none"]
      /\ Goto(t, "failed")
      /\ UNCHANGED <<pathVars, srvn, Errno, attached, callVars, weightLock, res, given>>

\* init_svc_no fails and sc_connect disconnects.  A network error resets the
\* table; an answer with both error codes set leaves srvn as it is.
LoadFails(t) ==
  LET r == res[t]
      p == PathOf(r)
  IN  /\ At(t, "load")
      /\ \/ /\ "svclist" \in Faults[p]
            /\ srvn' = [srvn EXCEPT ![p] = 0]
            /\ usage' = [usage EXCEPT ![p] = -1]
         \/ "refused" \in Faults[p] /\ UNCHANGED <<srvn, usage>>
      /\ hashed' = [hashed EXCEPT ![p] = FALSE]
      /\ sock' = [sock EXCEPT ![r] = "none"]
      /\ Goto(t, "failed")
      /\ UNCHANGED <<pathVars, Errno, attached, callVars, weightLock, res, given>>

\* mk_srv_hash: srvlist and srv_hash are complete.
LoadBuild(t) ==
  LET p == PathOf(res[t]) IN
  /\ At(t, "build")
  /\ hashed' = [hashed EXCEPT ![p] = TRUE]
  /\ Goto(t, "relock")
  /\ UNCHANGED <<pathVars, srvn, usage, connVars, callVars, weightLock, res, given>>

\* Back from sc_connect the caller's weightLock is locked again.
Relock(t) ==
  /\ pc[t] \in {"relock", "failed"}
  /\ IF HasWeightLock(t) THEN weightLock = Nobody /\ weightLock' = t
                         ELSE UNCHANGED weightLock
  /\ Errno' = [Errno EXCEPT ![res[t]] = IF At(t, "failed") THEN -1 ELSE 0]
  /\ Goto(t, IF At(t, "failed") THEN "refill" ELSE "recover")
  /\ UNCHANGED <<pathVars, svcVars, sock, attached, callVars, res, given>>

\* Mutant: the connection that failed is forgotten.
FailBackForget(t) ==
  LET p == PathOf(res[t]) IN
  /\ At(t, "refill")
  /\ Unlocked(p)
  /\ weight' = [weight EXCEPT ![p] = -1]
  /\ res' = [res EXCEPT ![t] = NoConn]
  /\ IF HasWeightLock(t) THEN NextPath(t)
     ELSE Goto(t, "bad") /\ EndCall(t)
  /\ UNCHANGED <<mut, freeq, svcVars, connVars, weightLock, given>>

\* The connection that could not be made goes back to the ring, the path is
\* out of order and get_SC_resource returns -1.  Nobody is signalled.
FailBack(t) ==
  LET r == res[t]
      p == PathOf(r)
  IN  /\ At(t, "refill")
      /\ Unlocked(p)
      /\ UNCHANGED <<sock, Errno, attached>>
      /\ add_lnk(r)
      /\ weight' = [weight EXCEPT ![p] = -1]
      /\ res' = [res EXCEPT ![t] = NoConn]
      /\ IF HasWeightLock(t) THEN NextPath(t)
         ELSE Goto(t, "bad") /\ EndCall(t)
      /\ UNCHANGED <<mut, svcVars, weightLock, given>>

\* Mutant: the full weight is restored instead of the connections counted.
RecoverFull(t) ==
  LET p == PathOf(res[t]) IN
  /\ At(t, "recover")
  /\ Unlocked(p)
  /\ weight' = [weight EXCEPT ![p] = IF @ < 0 THEN Num[p] ELSE @]
  /\ Goto(t, "signal")
  /\ UNCHANGED <<mut, freeq, svcVars, connVars, callVars, weightLock, res, given>>

\* A path that was out of order gets its weight back: the connections in the
\* ring are counted.
Recover(t) ==
  LET p == PathOf(res[t]) IN
  /\ At(t, "recover")
  /\ Unlocked(p)
  /\ weight' = [weight EXCEPT ![p] = IF @ < 0 THEN Len(freeq[p]) ELSE @]
  /\ Goto(t, "signal")
  /\ UNCHANGED <<mut, freeq, svcVars, connVars, callVars, weightLock, res, given>>

\* pthread_cond_signal(&scp->weightCond) after a successful connect.
SignalConnected(t) ==
  /\ At(t, "signal")
  /\ \E W \in OneOf(WeightWaiters) : SignalAndGoto(t, W, "ready")
  /\ UNCHANGED <<pathVars, svcVars, connVars, callVars, weightLock, res, given>>

\* The connection is handed to the caller, with Errno cleared.
Ready(t) ==
  /\ At(t, "ready")
  /\ Errno' = [Errno EXCEPT ![res[t]] = 0]
  /\ weightLock' = IF HasWeightLock(t) THEN Nobody ELSE weightLock
  /\ EndCall(t)
  /\ Goto(t, "use")
  /\ UNCHANGED <<pathVars, svcVars, sock, attached, res, given>>
-----------------------------------------------------------------------------
(* The application, release_SC_connect and scpool_check *)

\* A client call finds the connection broken (Errno=-1), also once more when Errno
\* was cleared behind its back, or the server answers with a negative code.
CallFails(t) ==
  LET r == res[t] IN
  /\ At(t, "use")
  /\ sock[r] \in {"open", "broken"} /\ Errno[r] = 0
  /\ \E e \in AppErrors :
       /\ e = -1 \/ sock[r] = "open"
       /\ Errno' = [Errno EXCEPT ![r] = e]
       /\ sock' = IF e = -1 THEN [sock EXCEPT ![r] = "broken"] ELSE sock
  /\ UNCHANGED <<pathVars, svcVars, attached, weightLock, pc, callVars, res, given>>

\* Mutant: a marked connection goes back without being closed.
ReleaseOpen(t) ==
  LET r == res[t]
      p == PathOf(r)
  IN  /\ At(t, "use")
      /\ Unlocked(p)
      /\ UNCHANGED <<svcVars, sock, attached>>
      /\ add_lnk(r)
      /\ weight' = [weight EXCEPT ![p] = Heavier(r)]
      /\ res' = [res EXCEPT ![t] = NoConn]
      /\ given' = [given EXCEPT ![t] = r]
      /\ Goto(t, "released")
      /\ UNCHANGED <<mut, Errno, weightLock, callVars>>

\* A connection marked with -1 is closed, and it goes back to the ring.
Release(t) ==
  LET r == res[t]
      p == PathOf(r)
  IN  /\ At(t, "use")
      /\ Unlocked(p)
      /\ IF Errno[r] = -1 THEN disconnect(r)
         ELSE UNCHANGED <<svcVars, sock, attached>>
      /\ add_lnk(r)
      /\ weight' = [weight EXCEPT ![p] = Heavier(r)]
      /\ res' = [res EXCEPT ![t] = NoConn]
      /\ given' = [given EXCEPT ![t] = r]
      /\ Goto(t, "released")
      /\ UNCHANGED <<mut, Errno, weightLock, callVars>>

\* Mutant: only the threads that wait for any path are woken.
SignalReleasedWeight(t) ==
  /\ At(t, "released")
  /\ \E V \in OneOf(WeightWaiters) : SignalAndGoto(t, V, "clear")
  /\ UNCHANGED <<pathVars, svcVars, connVars, callVars, weightLock, res, given>>

\* Both conditions are signalled after the unlock.
SignalReleased(t) ==
  /\ At(t, "released")
  /\ \E W \in OneOf(CondWaiters(PathOf(given[t]))), V \in OneOf(WeightWaiters) :
       SignalAndGoto(t, W \cup V, "clear")
  /\ UNCHANGED <<pathVars, svcVars, connVars, callVars, weightLock, res, given>>

\* The last statements of release_SC_connect clear Errno, without any lock.
ClearErrno(t) ==
  /\ At(t, "clear")
  /\ Errno' = [Errno EXCEPT ![given[t]] = 0]
  /\ given' = [given EXCEPT ![t] = NoConn]
  /\ Goto(t, "idle")
  /\ UNCHANGED <<pathVars, svcVars, sock, attached, weightLock, callVars, res>>

\* scpool_check closes a connection that has been in the ring for too long.
CloseIdle(r) ==
  /\ Unlocked(PathOf(r))
  /\ InQueue(r)
  /\ sock[r] # "none"
  /\ disconnect(r)
  /\ UNCHANGED <<pathVars, Errno, weightLock, pc, callVars, res, given>>

\* POSIX lets a waiting thread return without a signal.
SpuriousWakeup(t) ==
  /\ pc[t] \in {"condwait", "weightwait"}
  /\ Goto(t, Woken(pc[t]))
  /\ UNCHANGED <<pathVars, svcVars, connVars, callVars, weightLock, res, given>>
-----------------------------------------------------------------------------
\* The steps a thread takes inside the pool by itself.
Step(t) ==
  \/ LockWeight(t) \/ ScanPath(t) \/ ProbePath(t) \/ GiveUp(t) \/ WaitWeight(t)
  \/ WaitTimeout(t) \/ Take(t) \/ TakeNothing(t) \/ CheckConn(t) \/ Connect(t)
  \/ CheckTable(t) \/ SpinEnds(t) \/ LoadPublish(t) \/ LoadFails(t)
  \/ LoadBuild(t) \/ Relock(t) \/ FailBack(t) \/ Recover(t)
  \/ SignalConnected(t) \/ Ready(t) \/ SignalReleased(t) \/ ClearErrno(t)

Next ==
  \/ \E t \in Threads :
       \/ \E p \in Paths, f \in PathFlags : CallPath(t, p, f)
       \/ \E f \in PoolFlags : CallPool(t, f)
       \/ Step(t)
       \/ CallFails(t)
       \/ Release(t)
       \/ SpuriousWakeup(t)
  \/ \E r \in Resources : CloseIdle(r)

Spec == Init /\ [][Next]_vars
-----------------------------------------------------------------------------
(* Properties *)

Labels == Outside \cup
  {"rescan", "scan", "probe", "weightwait", "condwait", "get", "check", "connect",
   "service", "spin", "load", "build", "relock", "failed", "refill", "recover",
   "signal", "ready", "use", "released", "clear"}

\* The labels at which a thread has a connection of its own.
Holding == {"check", "connect", "service", "spin", "load", "build", "relock",
            "failed", "refill", "recover", "signal", "ready", "use"}

PathTypes ==
  /\ mut \in [Paths -> Threads \cup {Nobody}]
  /\ freeq \in [Paths -> Seq(Resources)]
  /\ weight \in [Paths -> Nat \cup {-1}]
SvcTypes ==
  /\ srvn \in [Paths -> {-1, 0, 1}]
  /\ usage \in [Paths -> Nat \cup {-1}]
  /\ hashed \in [Paths -> BOOLEAN]
ConnTypes ==
  /\ sock \in [Resources -> {"none", "open", "broken", "stale"}]
  /\ Errno \in [Resources -> {0, -1, -2}]
  /\ attached \in [Resources -> BOOLEAN]
ThreadTypes ==
  /\ weightLock \in Threads \cup {Nobody}
  /\ pc \in [Threads -> Labels]
  /\ res \in [Threads -> Resources \cup {NoConn}]
  /\ given \in [Threads -> Resources \cup {NoConn}]
CallTypes ==
  /\ from \in [Threads -> {"path", "scan", "probe"}]
  /\ path \in [Threads -> Nat \ {0}]
  /\ flg \in [Threads -> Nat \cup {-1}]
  /\ repeat \in [Threads -> Nat \cup {-1}]
  /\ bad \in [Threads -> BOOLEAN]
  /\ seen \in [Threads -> Seq(Nat \cup {-1})]
HeldAtLabels == \A t \in Threads : (res[t] # NoConn) <=> (pc[t] \in Holding)

\* Type invariant: the variables stay in their ranges, and a thread has a
\* connection exactly at the labels between get_lnk_no and add_lnk.
TypeOK == /\ PathTypes /\ SvcTypes /\ ConnTypes
          /\ ThreadTypes /\ CallTypes /\ HeldAtLabels

\* A connection is in the ring of its own path, once, or with one thread.
NoDuplicates ==
  \A p \in Paths : \A i, j \in DOMAIN freeq[p] :
    /\ PathOf(freeq[p][i]) = p
    /\ i # j => freeq[p][i] # freeq[p][j]
HeldOnce ==
  \A t, u \in Threads :
    res[t] # NoConn => ~InQueue(res[t]) /\ (t # u => res[t] # res[u])
Exclusive == NoDuplicates /\ HeldOnce

\* No connection gets lost: whoever is not in the ring is with a thread.
NoneLost == \A r \in Resources : InQueue(r) \/ \E t \in Threads : res[t] = r

\* The weight by which get_SC_by_weight balances the paths is the number of
\* connections that can be taken, or -1, whatever the paths went through.
WeightCounts == \A p \in Paths : weight[p] \in {-1, Len(freeq[p])}

\* svc_tbl.usage counts the users of a loaded service table but one, so that
\* free_srv_list frees it with the last user and not before.
Users(p) == {r \in Resources : PathOf(r) = p /\ attached[r]}
UsageCounts ==
  \A p \in Paths : Cardinality(Users(p)) = IF srvn[p] > 0 THEN usage[p] + 1 ELSE 0

\* The same bound from one side, for applications that leave other negative
\* codes: the table is never freed under a connection that uses it.
TableOutlivesUse ==
  \A p \in Paths : Cardinality(Users(p)) <= IF srvn[p] > 0 THEN usage[p] + 1 ELSE 0

\* The service table is marked as being loaded only while one thread loads it:
\* the threads that spin for it with pl->mut locked are not kept for ever.
Loaders(p) == {t \in Threads : pc[t] = "load" /\ PathOf(res[t]) = p}
LoadingHasLoader ==
  \A p \in Paths : Cardinality(Loaders(p)) = IF srvn[p] < 0 THEN 1 ELSE 0

\* While a thread waits on pl->cond, every free connection of the path has a
\* signal or a thread about to take it on its way.
Signalling(p) == {u \in Threads : pc[u] = "released" /\ PathOf(given[u]) = p}
Taking(p) == {u \in Threads : pc[u] = "get" /\ path[u] = p}
NoLostWakeup ==
  \A p \in Paths : CondWaiters(p) # {} =>
    Len(freeq[p]) <= Cardinality(Signalling(p)) + Cardinality(Taking(p))

\* Net_Connect never overwrites a socket that is open: no descriptor leaks.
NoSocketLeak ==
  [][\A t \in Threads : At(t, "connect") /\ pc'[t] # "connect"
       => sock[res[t]] \notin {"open", "broken"}]_vars

\* A connection that is handed out is connected, as far as its users noticed.
HandedOutLive ==
  [][\A t \in Threads : At(t, "ready") /\ pc'[t] = "use" => sock[res[t]] = "open"]_vars

\* A thread that has a connection can look up services in its table.
TableReady == \A t \in Threads : pc[t] = "use" => hashed[PathOf(res[t])]

\* A caller with flg=-1 waits until it gets a connection; the code keeps this
\* only while one of the paths cannot fail.
ForeverMeansForever ==
  [][\A t \in Threads : pc'[t] \in {"null", "bad"} => flg[t] # -1]_vars

\* The pool implements what ConnPool promises: the owner of a connection is
\* the thread between get_lnk_no and add_lnk for it.
Owner(r) == IF \E t \in Threads : res[t] = r
            THEN CHOOSE t \in Threads : res[t] = r ELSE Nobody
Abs == INSTANCE ConnPool WITH InPool <- Nobody, owner <- [r \in Resources |-> Owner(r)]
ImplementsConnPool == Abs!Spec
=============================================================================

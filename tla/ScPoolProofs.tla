---------------------------- MODULE ScPoolProofs ----------------------------
(***************************************************************************)
(* Type correctness of ScPool and what becomes of its connections, for any *)
(* number of threads, paths and connections.  Only three steps move a      *)
(* connection: every result after the first follows from the shape of      *)
(* these moves.                                                            *)
(***************************************************************************)
EXTENDS ScPool, SequenceTheorems, FiniteSetTheorems, TLAPS

-----------------------------------------------------------------------------
(* Type correctness *)

\* Where the local variables of a call have a meaning they are in range.
LocalOK ==
  \A t \in Threads :
    /\ pc[t] \in {"get", "condwait"} => path[t] \in Paths
    /\ pc[t] = "scan" => Len(seen[t]) < Len(Num)
    /\ pc[t] # "scan" => seen[t] = <<>>
    /\ pc[t] \in {"released", "clear"} => given[t] \in Resources

TypeInv == TypeOK /\ LocalOK

LEMMA PathFacts ==
  /\ Paths = 1 .. Len(Num) /\ Len(Num) \in Nat \ {0}
  /\ \A p \in Paths : Num[p] \in Nat \ {0}
  /\ 1 \in Paths
BY PoolAssumption DEF Paths

\* Every connection belongs to a path; NoConn is not a connection.
LEMMA ResourceFacts ==
  /\ \A r \in Resources : PathOf(r) \in Paths
  /\ NoConn \notin Resources
  /\ \A p \in Paths : \A i \in 1 .. Num[p] : <<p, i>> \in Resources
<1>1. ASSUME NEW r \in Resources
      PROVE  PathOf(r) \in Paths /\ r # NoConn
  <2>1. PICK p \in Paths : r \in {p} \X (1 .. Num[p])
    BY DEF Resources
  <2>2. PICK i \in 1 .. Num[p] : r = <<p, i>>
    BY <2>1
  <2>3. p # 0
    BY PathFacts
  <2>. QED
    BY <2>2, <2>3 DEF PathOf, NoConn
<1>2. ASSUME NEW p \in Paths, NEW i \in 1 .. Num[p]
      PROVE  <<p, i>> \in Resources
  <2>1. <<p, i>> \in {p} \X (1 .. Num[p])
    OBVIOUS
  <2>. QED
    BY <2>1 DEF Resources
<1>. QED
  BY <1>1, <1>2

\* A thread at one of the labels in Holding has a connection of some path.
LEMMA HeldConn ==
  ASSUME ThreadTypes, HeldAtLabels, NEW t \in Threads, pc[t] \in Holding
  PROVE  res[t] \in Resources /\ PathOf(res[t]) \in Paths
BY ResourceFacts DEF ThreadTypes, HeldAtLabels

\* The helpers keep the types of the variables they change.
LEMMA EndCallTypes ==
  ASSUME CallTypes, NEW t \in Threads, EndCall(t)
  PROVE  CallTypes'
BY DEF CallTypes, EndCall, SetCall

LEMMA NextPathTypes ==
  ASSUME CallTypes, NEW t \in Threads, NextPath(t)
  PROVE  CallTypes'
<1>1. CASE from[t] = "scan"
  BY <1>1 DEF CallTypes, NextPath, callVars
<1>2. CASE from[t] # "scan"
  <2>1. path[t] + 1 \in Nat \ {0}
    <3>1. path[t] \in Nat \ {0}
      BY DEF CallTypes
    <3>. QED
      BY <3>1
  <2>2. path' = [path EXCEPT ![t] = path[t] + 1]
    BY <1>2 DEF NextPath
  <2>3. path' \in [Threads -> Nat \ {0}]
    BY <2>1, <2>2 DEF CallTypes
  <2>. QED
    BY <1>2, <2>3 DEF CallTypes, NextPath
<1>. QED
  BY <1>1, <1>2

LEMMA DisconnectTypes ==
  ASSUME SvcTypes, NEW r \in Resources, disconnect(r)
  PROVE  SvcTypes'
<1>. DEFINE p == PathOf(r)
<1>1. p \in Paths /\ usage[p] \in Nat \cup {-1}
  BY ResourceFacts DEF SvcTypes
<1>2. CASE attached[r] /\ usage[p] > 0
  <2>1. usage[p] - 1 \in Nat
    BY <1>1, <1>2
  <2>2. usage' = [usage EXCEPT ![p] = usage[p] - 1] /\ UNCHANGED <<srvn, hashed>>
    BY <1>2 DEF disconnect
  <2>. QED
    BY <2>1, <2>2 DEF SvcTypes
<1>3. CASE ~(attached[r] /\ usage[p] > 0)
  BY <1>3 DEF SvcTypes, disconnect, svcVars
<1>. QED
  BY <1>2, <1>3

\* Initially every path has all of its connections in the ring.
LEMMA TypeInit == Init => TypeInv
<1>. SUFFICES ASSUME Init PROVE TypeInv
  OBVIOUS
<1>1. PathTypes
  <2>1. ASSUME NEW p \in Paths
        PROVE  [i \in 1 .. Num[p] |-> <<p, i>>] \in Seq(Resources)
    BY PathFacts, ResourceFacts
  <2>. QED
    BY <2>1, PathFacts DEF PathTypes, Init
<1>2. SvcTypes /\ ConnTypes
  BY DEF SvcTypes, ConnTypes, Init
<1>3. ThreadTypes /\ HeldAtLabels
  BY DEF ThreadTypes, HeldAtLabels, Init, Labels, Outside, Holding
<1>4. CallTypes /\ LocalOK
  BY DEF CallTypes, LocalOK, Init
<1>. QED
  BY <1>1, <1>2, <1>3, <1>4 DEF TypeInv, TypeOK

\* Every step keeps the type invariant.
LEMMA TypeStep == TypeInv /\ [Next]_vars => TypeInv'
<1>. SUFFICES ASSUME TypeInv, [Next]_vars
              PROVE  TypeInv'
  OBVIOUS
<1>. USE DEF TypeInv, TypeOK
<1>1. ASSUME NEW t \in Threads, NEW p \in Paths, NEW f \in PathFlags,
             CallPath(t, p, f)
      PROVE  TypeInv'
  <2>1. PathTypes' /\ SvcTypes' /\ ConnTypes'
    BY <1>1
    DEF PathTypes, SvcTypes, ConnTypes, CallPath, pathVars, svcVars,
        connVars, callVars
  <2>2. ThreadTypes'
    BY <1>1
    DEF ThreadTypes, CallPath, SetCall, Goto, At, Labels, Outside,
        pathVars, svcVars, connVars, callVars
  <2>3. CallTypes'
    BY <1>1, PathFacts, PoolAssumption
    DEF CallTypes, CallPath, SetCall, pathVars, svcVars, connVars,
        callVars
  <2>4. HeldAtLabels'
    BY <1>1
    DEF HeldAtLabels, CallPath, SetCall, Goto, At, Labels, Outside,
        Holding, ThreadTypes, pathVars, svcVars, connVars, callVars
  <2>5. LocalOK'
    BY <1>1, PathFacts
    DEF LocalOK, CallPath, SetCall, Goto, At, Labels, Outside,
        ThreadTypes, CallTypes, pathVars, svcVars, connVars, callVars
  <2>. QED
    BY <2>1, <2>2, <2>3, <2>4, <2>5
<1>2. ASSUME NEW t \in Threads, NEW f \in PoolFlags, CallPool(t, f)
      PROVE  TypeInv'
  <2>1. PathTypes' /\ SvcTypes' /\ ConnTypes'
    BY <1>2
    DEF PathTypes, SvcTypes, ConnTypes, CallPool, pathVars, svcVars,
        connVars, callVars
  <2>2. ThreadTypes'
    BY <1>2
    DEF ThreadTypes, CallPool, SetCall, Goto, At, Labels, Outside,
        pathVars, svcVars, connVars, callVars
  <2>3. CallTypes'
    BY <1>2, PathFacts, PoolAssumption
    DEF CallTypes, CallPool, SetCall, pathVars, svcVars, connVars,
        callVars
  <2>4. HeldAtLabels'
    BY <1>2
    DEF HeldAtLabels, CallPool, SetCall, Goto, At, Labels, Outside,
        Holding, ThreadTypes, pathVars, svcVars, connVars, callVars
  <2>5. LocalOK'
    BY <1>2, PathFacts
    DEF LocalOK, CallPool, SetCall, Goto, At, Labels, Outside,
        ThreadTypes, CallTypes, pathVars, svcVars, connVars, callVars
  <2>. QED
    BY <2>1, <2>2, <2>3, <2>4, <2>5
<1>3. ASSUME NEW t \in Threads, LockWeight(t)
      PROVE  TypeInv'
  <2>1. PathTypes' /\ SvcTypes' /\ ConnTypes'
    BY <1>3
    DEF PathTypes, SvcTypes, ConnTypes, LockWeight, pathVars, svcVars,
        connVars, callVars
  <2>2. ThreadTypes'
    BY <1>3
    DEF ThreadTypes, LockWeight, Goto, At, Labels, Outside, pathVars,
        svcVars, connVars, callVars
  <2>3. CallTypes'
    BY <1>3, PathFacts, PoolAssumption
    DEF CallTypes, LockWeight, pathVars, svcVars, connVars, callVars
  <2>4. HeldAtLabels'
    BY <1>3
    DEF HeldAtLabels, LockWeight, Goto, At, Labels, Outside, Holding,
        ThreadTypes, pathVars, svcVars, connVars, callVars
  <2>5. LocalOK'
    BY <1>3, PathFacts
    DEF LocalOK, LockWeight, Goto, At, Labels, Outside, ThreadTypes,
        CallTypes, pathVars, svcVars, connVars, callVars
  <2>. QED
    BY <2>1, <2>2, <2>3, <2>4, <2>5
<1>4. ASSUME NEW t \in Threads, ScanPath(t)
      PROVE  TypeInv'
  <2>1. PathTypes' /\ SvcTypes' /\ ConnTypes'
    BY <1>4
    DEF PathTypes, SvcTypes, ConnTypes, ScanPath, pathVars, svcVars,
        connVars, callVars
  <2>2. ThreadTypes'
    BY <1>4
    DEF ThreadTypes, ScanPath, Goto, At, Labels, Outside, pathVars,
        svcVars, connVars, callVars
  <2>3. CallTypes'
    <3>1. seen[t] \in Seq(Nat \cup {-1}) /\ Len(seen[t]) + 1 \in Paths
      BY <1>4, PathFacts DEF CallTypes, LocalOK, ScanPath, At
    <3>2. Append(seen[t], weight[Len(seen[t]) + 1]) \in Seq(Nat \cup {-1})
      BY <3>1 DEF PathTypes
    <3>3. seen' \in [Threads -> Seq(Nat \cup {-1})]
      <4>1. \/ seen' = [seen EXCEPT ![t] = Append(@, weight[Len(@) + 1])]
            \/ seen' = [seen EXCEPT ![t] = <<>>]
        BY <1>4 DEF ScanPath
      <4>2. seen \in [Threads -> Seq(Nat \cup {-1})]
        BY DEF CallTypes
      <4>. HIDE DEF TypeInv
      <4>3. \A s \in Seq(Nat \cup {-1}) :
              [seen EXCEPT ![t] = s] \in [Threads -> Seq(Nat \cup {-1})]
        BY <4>2
      <4>4. <<>> \in Seq(Nat \cup {-1})
        OBVIOUS
      <4>. QED
        BY <4>1, <4>3, <4>4, <3>2
    <3>4. path' \in [Threads -> Nat \ {0}]
      BY <1>4, PathFacts DEF CallTypes, ScanPath
    <3>5. /\ from' \in [Threads -> {"path", "scan", "probe"}]
          /\ bad' \in [Threads -> BOOLEAN]
          /\ UNCHANGED <<flg, repeat>>
      BY <1>4 DEF CallTypes, ScanPath
    <3>. QED
      BY <3>3, <3>4, <3>5 DEF CallTypes
  <2>4. HeldAtLabels'
    BY <1>4
    DEF HeldAtLabels, ScanPath, Goto, At, Labels, Outside, Holding,
        ThreadTypes, pathVars, svcVars, connVars, callVars
  <2>5. LocalOK'
    BY <1>4, PathFacts
    DEF LocalOK, ScanPath, Goto, At, Labels, Outside, ThreadTypes,
        CallTypes, pathVars, svcVars, connVars, callVars
  <2>. QED
    BY <2>1, <2>2, <2>3, <2>4, <2>5
<1>5. ASSUME NEW t \in Threads, ProbePath(t)
      PROVE  TypeInv'
  <2>1. PathTypes' /\ SvcTypes' /\ ConnTypes'
    BY <1>5
    DEF PathTypes, SvcTypes, ConnTypes, ProbePath, pathVars, svcVars,
        connVars, callVars
  <2>2. ThreadTypes'
    BY <1>5
    DEF ThreadTypes, ProbePath, Goto, At, Labels, Outside, pathVars,
        svcVars, connVars, callVars
  <2>3. CallTypes'
    <3>1. path[t] + 1 \in Nat \ {0}
      BY PathFacts, <1>5 DEF ProbePath
    <3>2. path' \in [Threads -> Nat \ {0}]
      BY <1>5, <3>1 DEF CallTypes, ProbePath
    <3>. QED
      BY <1>5, <3>2 DEF CallTypes, ProbePath
  <2>4. HeldAtLabels'
    BY <1>5
    DEF HeldAtLabels, ProbePath, Goto, At, Labels, Outside, Holding,
        ThreadTypes, pathVars, svcVars, connVars, callVars
  <2>5. LocalOK'
    BY <1>5, PathFacts
    DEF LocalOK, ProbePath, Goto, At, Labels, Outside, ThreadTypes,
        CallTypes, pathVars, svcVars, connVars, callVars
  <2>. QED
    BY <2>1, <2>2, <2>3, <2>4, <2>5
<1>6. ASSUME NEW t \in Threads, GiveUp(t)
      PROVE  TypeInv'
  <2>1. PathTypes' /\ SvcTypes' /\ ConnTypes'
    BY <1>6
    DEF PathTypes, SvcTypes, ConnTypes, GiveUp, pathVars, svcVars,
        connVars, callVars
  <2>2. ThreadTypes'
    BY <1>6
    DEF ThreadTypes, GiveUp, EndCall, SetCall, Goto, At, Labels, Outside,
        pathVars, svcVars, connVars, callVars
  <2>3. CallTypes'
    BY <1>6, PathFacts, PoolAssumption
    DEF CallTypes, GiveUp, EndCall, SetCall, pathVars, svcVars, connVars,
        callVars
  <2>4. HeldAtLabels'
    BY <1>6
    DEF HeldAtLabels, GiveUp, EndCall, SetCall, Goto, At, Labels, Outside,
        Holding, ThreadTypes, pathVars, svcVars, connVars, callVars
  <2>5. LocalOK'
    BY <1>6, PathFacts
    DEF LocalOK, GiveUp, EndCall, SetCall, Goto, At, Labels, Outside,
        ThreadTypes, CallTypes, pathVars, svcVars, connVars, callVars
  <2>. QED
    BY <2>1, <2>2, <2>3, <2>4, <2>5
<1>7. ASSUME NEW t \in Threads, WaitWeight(t)
      PROVE  TypeInv'
  <2>1. PathTypes' /\ SvcTypes' /\ ConnTypes' /\ CallTypes'
    BY <1>7
    DEF PathTypes, SvcTypes, ConnTypes, CallTypes, WaitWeight, pathVars,
        svcVars, connVars, callVars
  <2>2. ThreadTypes'
    BY <1>7
    DEF ThreadTypes, WaitWeight, Goto, At, Labels, Outside, pathVars,
        svcVars, connVars, callVars
  <2>3. HeldAtLabels'
    BY <1>7
    DEF HeldAtLabels, WaitWeight, Goto, At, Labels, Outside, Holding,
        ThreadTypes, pathVars, svcVars, connVars, callVars
  <2>4. LocalOK'
    BY <1>7
    DEF LocalOK, WaitWeight, Goto, At, Labels, Outside, ThreadTypes,
        pathVars, svcVars, connVars, callVars
  <2>. QED
    BY <2>1, <2>2, <2>3, <2>4
<1>8. ASSUME NEW t \in Threads, WaitTimeout(t)
      PROVE  TypeInv'
  <2>1. PathTypes' /\ SvcTypes' /\ ConnTypes'
    BY <1>8
    DEF PathTypes, SvcTypes, ConnTypes, WaitTimeout, pathVars, svcVars,
        connVars, callVars
  <2>2. ThreadTypes'
    BY <1>8
    DEF ThreadTypes, WaitTimeout, Goto, At, Labels, Outside, pathVars,
        svcVars, connVars, callVars
  <2>3. CallTypes'
    BY <1>8, PathFacts, PoolAssumption
    DEF CallTypes, WaitTimeout, pathVars, svcVars, connVars, callVars
  <2>4. HeldAtLabels'
    BY <1>8
    DEF HeldAtLabels, WaitTimeout, Goto, At, Labels, Outside, Holding,
        ThreadTypes, pathVars, svcVars, connVars, callVars
  <2>5. LocalOK'
    BY <1>8, PathFacts
    DEF LocalOK, WaitTimeout, Goto, At, Labels, Outside, ThreadTypes,
        CallTypes, pathVars, svcVars, connVars, callVars
  <2>. QED
    BY <2>1, <2>2, <2>3, <2>4, <2>5
<1>9. ASSUME NEW t \in Threads, Take(t)
      PROVE  TypeInv'
  <2>1. SvcTypes' /\ ConnTypes' /\ CallTypes'
    BY <1>9
    DEF SvcTypes, ConnTypes, CallTypes, Take, pathVars, svcVars, connVars,
        callVars
  <2>2. PathTypes'
    BY <1>9, ResourceFacts
    DEF PathTypes, Take, At, LocalOK, pathVars, svcVars, connVars,
        callVars
  <2>3. ThreadTypes'
    BY <1>9
    DEF ThreadTypes, Take, Goto, At, Labels, Outside, PathTypes, LocalOK,
        pathVars, svcVars, connVars, callVars
  <2>4. HeldAtLabels'
    BY <1>9, ResourceFacts
    DEF HeldAtLabels, Take, Goto, At, Labels, Outside, Holding,
        ThreadTypes, PathTypes, LocalOK, pathVars, svcVars, connVars,
        callVars
  <2>5. LocalOK'
    BY <1>9
    DEF LocalOK, Take, Goto, At, Labels, Outside, ThreadTypes, pathVars,
        svcVars, connVars, callVars
  <2>. QED
    BY <2>1, <2>2, <2>3, <2>4, <2>5
<1>10. ASSUME NEW t \in Threads, TakeNothing(t)
      PROVE  TypeInv'
  <2>1. PathTypes' /\ SvcTypes' /\ ConnTypes'
    BY <1>10
    DEF PathTypes, SvcTypes, ConnTypes, TakeNothing, pathVars, svcVars,
        connVars, callVars
  <2>2. ThreadTypes'
    BY <1>10
    DEF ThreadTypes, TakeNothing, NextPath, HasWeightLock, EndCall,
        SetCall, Goto, At, Labels, Outside, pathVars, svcVars, connVars,
        callVars
  <2>3. CallTypes'
    BY <1>10, NextPathTypes, EndCallTypes
    DEF CallTypes, TakeNothing, callVars
  <2>4. HeldAtLabels'
    BY <1>10
    DEF HeldAtLabels, TakeNothing, NextPath, HasWeightLock, EndCall,
        SetCall, Goto, At, Labels, Outside, Holding, ThreadTypes,
        pathVars, svcVars, connVars, callVars
  <2>5. LocalOK'
    BY <1>10, PathFacts
    DEF LocalOK, TakeNothing, NextPath, HasWeightLock, EndCall, SetCall,
        Goto, At, Labels, Outside, ThreadTypes, CallTypes, pathVars,
        svcVars, connVars, callVars
  <2>. QED
    BY <2>1, <2>2, <2>3, <2>4, <2>5
<1>11. ASSUME NEW t \in Threads, CheckConn(t)
      PROVE  TypeInv'
  <2>. res[t] \in Resources /\ PathOf(res[t]) \in Paths
    BY <1>11, HeldConn DEF CheckConn, At, Holding
  <2>1. PathTypes' /\ SvcTypes' /\ ConnTypes' /\ CallTypes'
    BY <1>11
    DEF PathTypes, SvcTypes, ConnTypes, CallTypes, CheckConn, pathVars,
        svcVars, connVars, callVars
  <2>2. ThreadTypes'
    BY <1>11
    DEF ThreadTypes, CheckConn, Goto, At, Labels, Outside, pathVars,
        svcVars, connVars, callVars
  <2>3. HeldAtLabels'
    BY <1>11
    DEF HeldAtLabels, CheckConn, Goto, At, Labels, Outside, Holding,
        ThreadTypes, pathVars, svcVars, connVars, callVars
  <2>4. LocalOK'
    BY <1>11
    DEF LocalOK, CheckConn, Goto, At, Labels, Outside, ThreadTypes,
        pathVars, svcVars, connVars, callVars
  <2>. QED
    BY <2>1, <2>2, <2>3, <2>4
<1>12. ASSUME NEW t \in Threads, Connect(t)
      PROVE  TypeInv'
  <2>. res[t] \in Resources /\ PathOf(res[t]) \in Paths
    BY <1>12, HeldConn DEF Connect, At, Holding
  <2>1. PathTypes' /\ SvcTypes' /\ CallTypes'
    BY <1>12
    DEF PathTypes, SvcTypes, CallTypes, Connect, pathVars, svcVars,
        connVars, callVars
  <2>2. ConnTypes'
    BY <1>12
    DEF ConnTypes, Connect, pathVars, svcVars, connVars, callVars
  <2>3. ThreadTypes'
    BY <1>12
    DEF ThreadTypes, Connect, Goto, At, Labels, Outside, pathVars,
        svcVars, connVars, callVars
  <2>4. HeldAtLabels'
    BY <1>12
    DEF HeldAtLabels, Connect, Goto, At, Labels, Outside, Holding,
        ThreadTypes, pathVars, svcVars, connVars, callVars
  <2>5. LocalOK'
    BY <1>12
    DEF LocalOK, Connect, Goto, At, Labels, Outside, ThreadTypes,
        pathVars, svcVars, connVars, callVars
  <2>. QED
    BY <2>1, <2>2, <2>3, <2>4, <2>5
<1>13. ASSUME NEW t \in Threads, CheckTable(t)
      PROVE  TypeInv'
  <2>. res[t] \in Resources /\ PathOf(res[t]) \in Paths
    BY <1>13, HeldConn DEF CheckTable, At, Holding
  <2>1. CallTypes'
    BY <1>13
    DEF CallTypes, CheckTable, pathVars, svcVars, connVars, callVars,
        UseTable, StartLoad
  <2>2. PathTypes'
    BY <1>13, ResourceFacts
    DEF PathTypes, CheckTable, UseTable, StartLoad, At, pathVars, svcVars,
        connVars, callVars
  <2>3. SvcTypes'
    BY <1>13
    DEF SvcTypes, CheckTable, UseTable, StartLoad, pathVars, svcVars,
        connVars, callVars
  <2>4. ConnTypes'
    BY <1>13
    DEF ConnTypes, CheckTable, UseTable, StartLoad, pathVars, svcVars,
        connVars, callVars
  <2>5. ThreadTypes'
    BY <1>13
    DEF ThreadTypes, CheckTable, UseTable, StartLoad, Goto, At, Labels,
        Outside, pathVars, svcVars, connVars, callVars
  <2>6. HeldAtLabels'
    BY <1>13
    DEF HeldAtLabels, CheckTable, UseTable, StartLoad, Goto, At, Labels,
        Outside, Holding, ThreadTypes, pathVars, svcVars, connVars,
        callVars
  <2>7. LocalOK'
    BY <1>13
    DEF LocalOK, CheckTable, UseTable, StartLoad, Goto, At, Labels,
        Outside, ThreadTypes, pathVars, svcVars, connVars, callVars
  <2>. QED
    BY <2>1, <2>2, <2>3, <2>4, <2>5, <2>6, <2>7
<1>14. ASSUME NEW t \in Threads, SpinEnds(t)
      PROVE  TypeInv'
  <2>. res[t] \in Resources /\ PathOf(res[t]) \in Paths
    BY <1>14, HeldConn DEF SpinEnds, At, Holding
  <2>1. CallTypes'
    BY <1>14
    DEF CallTypes, SpinEnds, pathVars, svcVars, connVars, callVars,
        UseTable, StartLoad
  <2>2. PathTypes'
    BY <1>14, ResourceFacts
    DEF PathTypes, SpinEnds, UseTable, StartLoad, At, pathVars, svcVars,
        connVars, callVars
  <2>3. SvcTypes'
    BY <1>14
    DEF SvcTypes, SpinEnds, UseTable, StartLoad, pathVars, svcVars,
        connVars, callVars
  <2>4. ConnTypes'
    BY <1>14
    DEF ConnTypes, SpinEnds, UseTable, StartLoad, pathVars, svcVars,
        connVars, callVars
  <2>5. ThreadTypes'
    BY <1>14
    DEF ThreadTypes, SpinEnds, UseTable, StartLoad, Goto, At, Labels,
        Outside, pathVars, svcVars, connVars, callVars
  <2>6. HeldAtLabels'
    BY <1>14
    DEF HeldAtLabels, SpinEnds, UseTable, StartLoad, Goto, At, Labels,
        Outside, Holding, ThreadTypes, pathVars, svcVars, connVars,
        callVars
  <2>7. LocalOK'
    BY <1>14
    DEF LocalOK, SpinEnds, UseTable, StartLoad, Goto, At, Labels, Outside,
        ThreadTypes, pathVars, svcVars, connVars, callVars
  <2>. QED
    BY <2>1, <2>2, <2>3, <2>4, <2>5, <2>6, <2>7
<1>15. ASSUME NEW t \in Threads, LoadPublish(t)
      PROVE  TypeInv'
  <2>. res[t] \in Resources /\ PathOf(res[t]) \in Paths
    BY <1>15, HeldConn DEF LoadPublish, At, Holding
  <2>1. PathTypes' /\ CallTypes'
    BY <1>15
    DEF PathTypes, CallTypes, LoadPublish, pathVars, svcVars, connVars,
        callVars
  <2>2. SvcTypes'
    BY <1>15
    DEF SvcTypes, LoadPublish, pathVars, svcVars, connVars, callVars
  <2>3. ConnTypes'
    BY <1>15
    DEF ConnTypes, LoadPublish, pathVars, svcVars, connVars, callVars
  <2>4. ThreadTypes'
    BY <1>15
    DEF ThreadTypes, LoadPublish, Goto, At, Labels, Outside, pathVars,
        svcVars, connVars, callVars
  <2>5. HeldAtLabels'
    BY <1>15
    DEF HeldAtLabels, LoadPublish, Goto, At, Labels, Outside, Holding,
        ThreadTypes, pathVars, svcVars, connVars, callVars
  <2>6. LocalOK'
    BY <1>15
    DEF LocalOK, LoadPublish, Goto, At, Labels, Outside, ThreadTypes,
        pathVars, svcVars, connVars, callVars
  <2>. QED
    BY <2>1, <2>2, <2>3, <2>4, <2>5, <2>6
<1>16. ASSUME NEW t \in Threads, LoadFails(t)
      PROVE  TypeInv'
  <2>. res[t] \in Resources /\ PathOf(res[t]) \in Paths
    BY <1>16, HeldConn DEF LoadFails, At, Holding
  <2>1. PathTypes' /\ CallTypes'
    BY <1>16
    DEF PathTypes, CallTypes, LoadFails, pathVars, svcVars, connVars,
        callVars
  <2>2. SvcTypes'
    BY <1>16
    DEF SvcTypes, LoadFails, pathVars, svcVars, connVars, callVars
  <2>3. ConnTypes'
    BY <1>16
    DEF ConnTypes, LoadFails, pathVars, svcVars, connVars, callVars
  <2>4. ThreadTypes'
    BY <1>16
    DEF ThreadTypes, LoadFails, Goto, At, Labels, Outside, pathVars,
        svcVars, connVars, callVars
  <2>5. HeldAtLabels'
    BY <1>16
    DEF HeldAtLabels, LoadFails, Goto, At, Labels, Outside, Holding,
        ThreadTypes, pathVars, svcVars, connVars, callVars
  <2>6. LocalOK'
    BY <1>16
    DEF LocalOK, LoadFails, Goto, At, Labels, Outside, ThreadTypes,
        pathVars, svcVars, connVars, callVars
  <2>. QED
    BY <2>1, <2>2, <2>3, <2>4, <2>5, <2>6
<1>17. ASSUME NEW t \in Threads, LoadBuild(t)
      PROVE  TypeInv'
  <2>. res[t] \in Resources /\ PathOf(res[t]) \in Paths
    BY <1>17, HeldConn DEF LoadBuild, At, Holding
  <2>1. PathTypes' /\ ConnTypes' /\ CallTypes'
    BY <1>17
    DEF PathTypes, ConnTypes, CallTypes, LoadBuild, pathVars, svcVars,
        connVars, callVars
  <2>2. SvcTypes'
    BY <1>17
    DEF SvcTypes, LoadBuild, pathVars, svcVars, connVars, callVars
  <2>3. ThreadTypes'
    BY <1>17
    DEF ThreadTypes, LoadBuild, Goto, At, Labels, Outside, pathVars,
        svcVars, connVars, callVars
  <2>4. HeldAtLabels'
    BY <1>17
    DEF HeldAtLabels, LoadBuild, Goto, At, Labels, Outside, Holding,
        ThreadTypes, pathVars, svcVars, connVars, callVars
  <2>5. LocalOK'
    BY <1>17
    DEF LocalOK, LoadBuild, Goto, At, Labels, Outside, ThreadTypes,
        pathVars, svcVars, connVars, callVars
  <2>. QED
    BY <2>1, <2>2, <2>3, <2>4, <2>5
<1>18. ASSUME NEW t \in Threads, Relock(t)
      PROVE  TypeInv'
  <2>. res[t] \in Resources /\ PathOf(res[t]) \in Paths
    BY <1>18, HeldConn DEF Relock, At, Holding
  <2>1. PathTypes' /\ SvcTypes' /\ CallTypes'
    BY <1>18
    DEF PathTypes, SvcTypes, CallTypes, Relock, pathVars, svcVars,
        connVars, callVars
  <2>2. ConnTypes'
    BY <1>18
    DEF ConnTypes, Relock, pathVars, svcVars, connVars, callVars
  <2>3. ThreadTypes'
    BY <1>18
    DEF ThreadTypes, Relock, Goto, At, Labels, Outside, pathVars, svcVars,
        connVars, callVars
  <2>4. HeldAtLabels'
    BY <1>18
    DEF HeldAtLabels, Relock, Goto, At, Labels, Outside, Holding,
        ThreadTypes, pathVars, svcVars, connVars, callVars
  <2>5. LocalOK'
    BY <1>18
    DEF LocalOK, Relock, Goto, At, Labels, Outside, ThreadTypes, pathVars,
        svcVars, connVars, callVars
  <2>. QED
    BY <2>1, <2>2, <2>3, <2>4, <2>5
<1>19. ASSUME NEW t \in Threads, FailBack(t)
      PROVE  TypeInv'
  <2>. res[t] \in Resources /\ PathOf(res[t]) \in Paths
    BY <1>19, HeldConn DEF FailBack, At, Holding
  <2>1. SvcTypes' /\ ConnTypes'
    BY <1>19
    DEF SvcTypes, ConnTypes, FailBack, pathVars, svcVars, connVars,
        callVars
  <2>2. PathTypes'
    BY <1>19, ResourceFacts
    DEF PathTypes, FailBack, add_lnk, NextPath, EndCall, SetCall, At,
        pathVars, svcVars, connVars, callVars
  <2>3. ThreadTypes'
    BY <1>19
    DEF ThreadTypes, FailBack, add_lnk, NextPath, EndCall, SetCall, Goto,
        At, Labels, Outside, pathVars, svcVars, connVars, callVars
  <2>4. CallTypes'
    BY <1>19, NextPathTypes, EndCallTypes DEF FailBack
  <2>5. HeldAtLabels'
    BY <1>19, ResourceFacts
    DEF HeldAtLabels, FailBack, add_lnk, NextPath, EndCall, SetCall, Goto,
        At, Labels, Outside, Holding, ThreadTypes, pathVars, svcVars,
        connVars, callVars
  <2>6. LocalOK'
    BY <1>19, PathFacts
    DEF LocalOK, FailBack, add_lnk, NextPath, EndCall, SetCall, Goto, At,
        Labels, Outside, ThreadTypes, CallTypes, pathVars, svcVars,
        connVars, callVars
  <2>. QED
    BY <2>1, <2>2, <2>3, <2>4, <2>5, <2>6
<1>20. ASSUME NEW t \in Threads, Recover(t)
      PROVE  TypeInv'
  <2>. res[t] \in Resources /\ PathOf(res[t]) \in Paths
    BY <1>20, HeldConn DEF Recover, At, Holding
  <2>1. SvcTypes' /\ ConnTypes' /\ CallTypes'
    BY <1>20
    DEF SvcTypes, ConnTypes, CallTypes, Recover, pathVars, svcVars,
        connVars, callVars
  <2>2. PathTypes'
    BY <1>20, ResourceFacts
    DEF PathTypes, Recover, At, pathVars, svcVars, connVars, callVars
  <2>3. ThreadTypes'
    BY <1>20
    DEF ThreadTypes, Recover, Goto, At, Labels, Outside, pathVars,
        svcVars, connVars, callVars
  <2>4. HeldAtLabels'
    BY <1>20
    DEF HeldAtLabels, Recover, Goto, At, Labels, Outside, Holding,
        ThreadTypes, pathVars, svcVars, connVars, callVars
  <2>5. LocalOK'
    BY <1>20
    DEF LocalOK, Recover, Goto, At, Labels, Outside, ThreadTypes,
        pathVars, svcVars, connVars, callVars
  <2>. QED
    BY <2>1, <2>2, <2>3, <2>4, <2>5
<1>21. ASSUME NEW t \in Threads, SignalConnected(t)
      PROVE  TypeInv'
  <2>. res[t] \in Resources /\ PathOf(res[t]) \in Paths
    BY <1>21, HeldConn DEF SignalConnected, At, Holding
  <2>1. PathTypes' /\ SvcTypes' /\ ConnTypes' /\ CallTypes'
    BY <1>21
    DEF PathTypes, SvcTypes, ConnTypes, CallTypes, SignalConnected,
        pathVars, svcVars, connVars, callVars
  <2>2. ThreadTypes'
    BY <1>21
    DEF ThreadTypes, SignalConnected, SignalAndGoto, OneOf, WeightWaiters,
        Woken, Goto, At, Labels, Outside, pathVars, svcVars, connVars,
        callVars
  <2>3. HeldAtLabels'
    BY <1>21
    DEF HeldAtLabels, SignalConnected, SignalAndGoto, OneOf,
        WeightWaiters, Woken, Goto, At, Labels, Outside, Holding,
        ThreadTypes, pathVars, svcVars, connVars, callVars
  <2>4. LocalOK'
    BY <1>21
    DEF LocalOK, SignalConnected, SignalAndGoto, OneOf, WeightWaiters,
        Woken, Goto, At, Labels, Outside, ThreadTypes, pathVars, svcVars,
        connVars, callVars
  <2>. QED
    BY <2>1, <2>2, <2>3, <2>4
<1>22. ASSUME NEW t \in Threads, Ready(t)
      PROVE  TypeInv'
  <2>. res[t] \in Resources /\ PathOf(res[t]) \in Paths
    BY <1>22, HeldConn DEF Ready, At, Holding
  <2>1. PathTypes' /\ SvcTypes'
    BY <1>22
    DEF PathTypes, SvcTypes, Ready, pathVars, svcVars, connVars, callVars
  <2>2. ConnTypes'
    BY <1>22
    DEF ConnTypes, Ready, EndCall, SetCall, pathVars, svcVars, connVars,
        callVars
  <2>3. ThreadTypes'
    BY <1>22
    DEF ThreadTypes, Ready, EndCall, SetCall, Goto, At, Labels, Outside,
        pathVars, svcVars, connVars, callVars
  <2>4. CallTypes'
    BY <1>22, PathFacts, PoolAssumption
    DEF CallTypes, Ready, EndCall, SetCall, pathVars, svcVars, connVars,
        callVars
  <2>5. HeldAtLabels'
    BY <1>22
    DEF HeldAtLabels, Ready, EndCall, SetCall, Goto, At, Labels, Outside,
        Holding, ThreadTypes, pathVars, svcVars, connVars, callVars
  <2>6. LocalOK'
    BY <1>22, PathFacts
    DEF LocalOK, Ready, EndCall, SetCall, Goto, At, Labels, Outside,
        ThreadTypes, CallTypes, pathVars, svcVars, connVars, callVars
  <2>. QED
    BY <2>1, <2>2, <2>3, <2>4, <2>5, <2>6
<1>23. ASSUME NEW t \in Threads, CallFails(t)
      PROVE  TypeInv'
  <2>. res[t] \in Resources /\ PathOf(res[t]) \in Paths
    BY <1>23, HeldConn DEF CallFails, At, Holding
  <2>1. PathTypes' /\ SvcTypes' /\ ThreadTypes' /\ CallTypes' /\ HeldAtLabels' /\ LocalOK'
    BY <1>23
    DEF PathTypes, SvcTypes, ThreadTypes, CallTypes, HeldAtLabels,
        LocalOK, CallFails, pathVars, svcVars, connVars, callVars
  <2>2. ConnTypes'
    BY <1>23, PoolAssumption
    DEF ConnTypes, CallFails, pathVars, svcVars, connVars, callVars
  <2>. QED
    BY <2>1, <2>2
<1>24. ASSUME NEW t \in Threads, Release(t)
      PROVE  TypeInv'
  <2>. res[t] \in Resources /\ PathOf(res[t]) \in Paths
    BY <1>24, HeldConn DEF Release, At, Holding
  <2>1. CallTypes'
    BY <1>24
    DEF CallTypes, Release, pathVars, svcVars, connVars, callVars
  <2>2. PathTypes'
    BY <1>24, ResourceFacts
    DEF PathTypes, Release, disconnect, add_lnk, Heavier, At, pathVars,
        svcVars, connVars, callVars
  <2>3. SvcTypes'
    BY <1>24, DisconnectTypes DEF SvcTypes, Release, svcVars
  <2>4. ConnTypes'
    BY <1>24
    DEF ConnTypes, Release, disconnect, add_lnk, Heavier, pathVars,
        svcVars, connVars, callVars
  <2>5. ThreadTypes'
    BY <1>24
    DEF ThreadTypes, Release, disconnect, add_lnk, Heavier, Goto, At,
        Labels, Outside, pathVars, svcVars, connVars, callVars
  <2>6. HeldAtLabels'
    BY <1>24, ResourceFacts
    DEF HeldAtLabels, Release, disconnect, add_lnk, Heavier, Goto, At,
        Labels, Outside, Holding, ThreadTypes, pathVars, svcVars,
        connVars, callVars
  <2>7. LocalOK'
    BY <1>24
    DEF LocalOK, Release, disconnect, add_lnk, Heavier, Goto, At, Labels,
        Outside, ThreadTypes, pathVars, svcVars, connVars, callVars
  <2>. QED
    BY <2>1, <2>2, <2>3, <2>4, <2>5, <2>6, <2>7
<1>25. ASSUME NEW t \in Threads, SignalReleased(t)
      PROVE  TypeInv'
  <2>1. PathTypes' /\ SvcTypes' /\ ConnTypes' /\ CallTypes'
    BY <1>25
    DEF PathTypes, SvcTypes, ConnTypes, CallTypes, SignalReleased,
        pathVars, svcVars, connVars, callVars
  <2>2. ThreadTypes'
    BY <1>25
    DEF ThreadTypes, SignalReleased, SignalAndGoto, OneOf, WeightWaiters,
        CondWaiters, Woken, Goto, At, Labels, Outside, pathVars, svcVars,
        connVars, callVars
  <2>3. HeldAtLabels'
    BY <1>25
    DEF HeldAtLabels, SignalReleased, SignalAndGoto, OneOf, WeightWaiters,
        CondWaiters, Woken, Goto, At, Labels, Outside, Holding,
        ThreadTypes, pathVars, svcVars, connVars, callVars
  <2>4. LocalOK'
    BY <1>25
    DEF LocalOK, SignalReleased, SignalAndGoto, OneOf, WeightWaiters,
        CondWaiters, Woken, Goto, At, Labels, Outside, ThreadTypes,
        pathVars, svcVars, connVars, callVars
  <2>. QED
    BY <2>1, <2>2, <2>3, <2>4
<1>26. ASSUME NEW t \in Threads, ClearErrno(t)
      PROVE  TypeInv'
  <2>1. PathTypes' /\ SvcTypes' /\ CallTypes'
    BY <1>26
    DEF PathTypes, SvcTypes, CallTypes, ClearErrno, pathVars, svcVars,
        connVars, callVars
  <2>2. ConnTypes'
    BY <1>26
    DEF ConnTypes, ClearErrno, pathVars, svcVars, connVars, callVars
  <2>3. ThreadTypes'
    BY <1>26
    DEF ThreadTypes, ClearErrno, Goto, At, Labels, Outside, pathVars,
        svcVars, connVars, callVars
  <2>4. HeldAtLabels'
    BY <1>26
    DEF HeldAtLabels, ClearErrno, Goto, At, Labels, Outside, Holding,
        ThreadTypes, pathVars, svcVars, connVars, callVars
  <2>5. LocalOK'
    BY <1>26
    DEF LocalOK, ClearErrno, Goto, At, Labels, Outside, ThreadTypes,
        pathVars, svcVars, connVars, callVars
  <2>. QED
    BY <2>1, <2>2, <2>3, <2>4, <2>5
<1>27. ASSUME NEW r \in Resources, CloseIdle(r)
      PROVE  TypeInv'
  <2>1. PathTypes' /\ ThreadTypes' /\ CallTypes' /\ HeldAtLabels' /\ LocalOK'
    BY <1>27
    DEF PathTypes, ThreadTypes, CallTypes, HeldAtLabels, LocalOK,
        CloseIdle, pathVars, svcVars, connVars, callVars
  <2>2. SvcTypes'
    BY <1>27, DisconnectTypes DEF CloseIdle
  <2>3. ConnTypes'
    BY <1>27, ResourceFacts
    DEF ConnTypes, CloseIdle, disconnect, pathVars, svcVars, connVars,
        callVars
  <2>. QED
    BY <2>1, <2>2, <2>3
<1>28. ASSUME NEW t \in Threads, SpuriousWakeup(t)
      PROVE  TypeInv'
  <2>1. PathTypes' /\ SvcTypes' /\ ConnTypes' /\ CallTypes'
    BY <1>28
    DEF PathTypes, SvcTypes, ConnTypes, CallTypes, SpuriousWakeup,
        pathVars, svcVars, connVars, callVars
  <2>2. ThreadTypes'
    BY <1>28
    DEF ThreadTypes, SpuriousWakeup, Woken, Goto, At, Labels, Outside,
        pathVars, svcVars, connVars, callVars
  <2>3. HeldAtLabels'
    BY <1>28
    DEF HeldAtLabels, SpuriousWakeup, Woken, Goto, At, Labels, Outside,
        Holding, ThreadTypes, pathVars, svcVars, connVars, callVars
  <2>4. LocalOK'
    BY <1>28
    DEF LocalOK, SpuriousWakeup, Woken, Goto, At, Labels, Outside,
        ThreadTypes, pathVars, svcVars, connVars, callVars
  <2>. QED
    BY <2>1, <2>2, <2>3, <2>4
<1>29. CASE UNCHANGED vars
  BY <1>29 DEF vars, pathVars, svcVars, connVars, callVars, PathTypes, SvcTypes,
               ConnTypes, ThreadTypes, CallTypes, HeldAtLabels, LocalOK
<1>. QED
  BY <1>1, <1>2, <1>3, <1>4, <1>5, <1>6, <1>7, <1>8, <1>9, <1>10, <1>11,
      <1>12, <1>13, <1>14, <1>15, <1>16, <1>17, <1>18, <1>19, <1>20, <1>21,
      <1>22, <1>23, <1>24, <1>25, <1>26, <1>27, <1>28, <1>29
  DEF Next, Step

\* The variables of the pool keep their types, and a thread has a connection
\* exactly between get_lnk_no and add_lnk.
THEOREM TypeCorrect == Spec => []TypeOK
<1>1. TypeInv => TypeOK
  BY DEF TypeInv
<1>. QED
  BY <1>1, TypeInit, TypeStep, PTL DEF Spec

-----------------------------------------------------------------------------
(* Sequences without duplicates *)

In(q, x) == \E i \in DOMAIN q : q[i] = x
Distinct(q) == \A i, j \in DOMAIN q : i # j => q[i] # q[j]

\* get_lnk_no: the head leaves the sequence, nothing else does.
LEMMA TailOf ==
  ASSUME NEW S, NEW q \in Seq(S), q # <<>>, Distinct(q)
  PROVE  /\ Head(q) \in S /\ In(q, Head(q))
         /\ Distinct(Tail(q))
         /\ \A x : In(Tail(q), x) <=> In(q, x) /\ x # Head(q)
<1>1. /\ Len(q) \in Nat \ {0} /\ DOMAIN q = 1 .. Len(q) /\ Head(q) = q[1]
      /\ DOMAIN Tail(q) = 1 .. (Len(q) - 1)
      /\ \A i \in 1 .. (Len(q) - 1) : Tail(q)[i] = q[i + 1]
  OBVIOUS
<1>2. Head(q) \in S /\ In(q, Head(q))
  BY <1>1 DEF In
<1>3. Distinct(Tail(q))
  BY <1>1 DEF Distinct
<1>4. ASSUME NEW x, In(Tail(q), x)
      PROVE  In(q, x) /\ x # Head(q)
  BY <1>1, <1>4 DEF In, Distinct
<1>5. ASSUME NEW x, In(q, x), x # Head(q)
      PROVE  In(Tail(q), x)
  <2>1. PICK i \in DOMAIN q : q[i] = x
    BY <1>5 DEF In
  <2>2. i - 1 \in DOMAIN Tail(q) /\ Tail(q)[i - 1] = x
    BY <1>1, <1>5, <2>1
  <2>. QED
    BY <2>2 DEF In
<1>. QED
  BY <1>2, <1>3, <1>4, <1>5

\* add_lnk, for a closed connection: the new element comes last.
LEMMA AppendOf ==
  ASSUME NEW S, NEW q \in Seq(S), NEW y \in S, Distinct(q), ~In(q, y)
  PROVE  /\ Distinct(Append(q, y))
         /\ \A x : In(Append(q, y), x) <=> In(q, x) \/ x = y
<1>1. /\ Len(q) \in Nat /\ DOMAIN q = 1 .. Len(q)
      /\ DOMAIN Append(q, y) = 1 .. (Len(q) + 1)
      /\ \A i \in 1 .. Len(q) : Append(q, y)[i] = q[i]
      /\ Append(q, y)[Len(q) + 1] = y
  OBVIOUS
<1>2. Distinct(Append(q, y))
  BY <1>1 DEF Distinct, In
<1>3. ASSUME NEW x, In(Append(q, y), x)
      PROVE  In(q, x) \/ x = y
  BY <1>1, <1>3 DEF In
<1>4. ASSUME NEW x, In(q, x) \/ x = y
      PROVE  In(Append(q, y), x)
  BY <1>1, <1>4 DEF In
<1>. QED
  BY <1>2, <1>3, <1>4

\* add_lnk, for a live connection: the new element comes first.
LEMMA PushOf ==
  ASSUME NEW S, NEW q \in Seq(S), NEW y \in S, Distinct(q), ~In(q, y)
  PROVE  /\ Distinct(<<y>> \o q)
         /\ \A x : In(<<y>> \o q, x) <=> In(q, x) \/ x = y
<1>1. /\ Len(q) \in Nat /\ DOMAIN q = 1 .. Len(q)
      /\ DOMAIN (<<y>> \o q) = 1 .. (Len(q) + 1)
      /\ (<<y>> \o q)[1] = y
      /\ \A i \in 1 .. Len(q) : (<<y>> \o q)[i + 1] = q[i]
  OBVIOUS
<1>2. ASSUME NEW i \in DOMAIN (<<y>> \o q), i # 1
      PROVE  i - 1 \in DOMAIN q /\ (<<y>> \o q)[i] = q[i - 1]
  <2>1. i - 1 \in 1 .. Len(q) /\ (i - 1) + 1 = i
    BY <1>1, <1>2
  <2>. QED
    BY <1>1, <2>1
<1>3. Distinct(<<y>> \o q)
  <2>. SUFFICES ASSUME NEW i \in DOMAIN (<<y>> \o q), NEW j \in DOMAIN (<<y>> \o q),
                       i # j
                PROVE  (<<y>> \o q)[i] # (<<y>> \o q)[j]
    BY DEF Distinct
  <2>1. CASE i = 1
    BY <1>1, <1>2, <2>1 DEF In
  <2>2. CASE j = 1
    BY <1>1, <1>2, <2>2 DEF In
  <2>3. CASE i # 1 /\ j # 1
    <3>1. i - 1 # j - 1
      BY <1>1
    <3>. QED
      BY <1>2, <2>3, <3>1 DEF Distinct
  <2>. QED
    BY <2>1, <2>2, <2>3
<1>4. ASSUME NEW x, In(<<y>> \o q, x)
      PROVE  In(q, x) \/ x = y
  BY <1>1, <1>2, <1>4 DEF In
<1>5. ASSUME NEW x, In(q, x) \/ x = y
      PROVE  In(<<y>> \o q, x)
  <2>1. CASE x = y
    BY <1>1, <2>1 DEF In
  <2>2. CASE In(q, x)
    <3>1. PICK i \in DOMAIN q : q[i] = x
      BY <2>2 DEF In
    <3>2. i + 1 \in DOMAIN (<<y>> \o q) /\ (<<y>> \o q)[i + 1] = x
      BY <1>1, <3>1
    <3>. QED
      BY <3>2 DEF In
  <2>. QED
    BY <1>5, <2>1, <2>2
<1>. QED
  BY <1>3, <1>4, <1>5
-----------------------------------------------------------------------------
(* The moves of the connections *)

\* A connection goes from the ring of path p to thread t.
TakeMove(t, p) ==
  /\ p \in Paths /\ freeq[p] # <<>>
  /\ res[t] = NoConn
  /\ res' = [res EXCEPT ![t] = Head(freeq[p])]
  /\ freeq' = [freeq EXCEPT ![p] = Tail(@)]

\* The connection of thread t goes back to the ring of its path.
PutMove(t) ==
  LET r == res[t]
      p == PathOf(r)
  IN  /\ r \in Resources
      /\ res' = [res EXCEPT ![t] = NoConn]
      /\ \/ InQueue(r) /\ UNCHANGED freeq
         \/ /\ ~InQueue(r)
            /\ \/ freeq' = [freeq EXCEPT ![p] = Append(@, r)]
               \/ freeq' = [freeq EXCEPT ![p] = <<r>> \o @]

\* Every step is one of these moves or leaves the connections where they are.
LEMMA Moves ==
  ASSUME TypeInv, [Next]_vars
  PROVE  \/ UNCHANGED <<freeq, res>>
         \/ \E t \in Threads, p \in Paths : TakeMove(t, p)
         \/ \E t \in Threads : PutMove(t)
<1>1. ASSUME NEW t \in Threads, Take(t)
      PROVE  TakeMove(t, path[t])
  <2>1. path[t] \in Paths
    BY <1>1 DEF TypeInv, LocalOK, Take, At
  <2>2. res[t] = NoConn
    BY <1>1 DEF TypeInv, TypeOK, HeldAtLabels, Holding, Take, At
  <2>. QED
    BY <1>1, <2>1, <2>2 DEF Take, TakeMove
<1>2. ASSUME NEW t \in Threads, FailBack(t)
      PROVE  PutMove(t)
  <2>1. res[t] \in Resources
    BY <1>2, HeldConn DEF TypeInv, TypeOK, FailBack, At, Holding
  <2>2. PathOf(res[t]) \in Paths
    BY <2>1, ResourceFacts
  <2>. QED
    BY <1>2, <2>1, <2>2 DEF FailBack, PutMove, add_lnk, TypeInv, TypeOK, PathTypes
<1>3. ASSUME NEW t \in Threads, Release(t)
      PROVE  PutMove(t)
  <2>1. res[t] \in Resources
    BY <1>3, HeldConn DEF TypeInv, TypeOK, Release, At, Holding
  <2>2. PathOf(res[t]) \in Paths
    BY <2>1, ResourceFacts
  <2>. QED
    BY <1>3, <2>1, <2>2 DEF Release, PutMove, add_lnk, TypeInv, TypeOK, PathTypes
<1>4. ASSUME NEW t \in Threads,
             \/ LockWeight(t) \/ ScanPath(t) \/ ProbePath(t) \/ GiveUp(t)
             \/ WaitWeight(t) \/ WaitTimeout(t) \/ TakeNothing(t) \/ CheckConn(t)
      PROVE  UNCHANGED <<freeq, res>>
  BY <1>4 DEF LockWeight, ScanPath, ProbePath, GiveUp, WaitWeight, WaitTimeout,
              TakeNothing, CheckConn, pathVars
<1>5. ASSUME NEW t \in Threads,
             \/ Connect(t) \/ CheckTable(t) \/ SpinEnds(t) \/ LoadPublish(t)
             \/ LoadFails(t) \/ LoadBuild(t) \/ Relock(t) \/ Recover(t)
             \/ SignalConnected(t) \/ Ready(t) \/ SignalReleased(t) \/ ClearErrno(t)
      PROVE  UNCHANGED <<freeq, res>>
  BY <1>5 DEF Connect, CheckTable, SpinEnds, LoadPublish, LoadFails, LoadBuild,
              Relock, Recover, SignalConnected, Ready, SignalReleased, ClearErrno,
              pathVars
<1>6. ASSUME NEW t \in Threads,
             \/ \E p \in Paths, f \in PathFlags : CallPath(t, p, f)
             \/ \E f \in PoolFlags : CallPool(t, f)
             \/ CallFails(t) \/ SpuriousWakeup(t)
      PROVE  UNCHANGED <<freeq, res>>
  BY <1>6 DEF CallPath, CallPool, CallFails, SpuriousWakeup, pathVars
<1>7. ASSUME NEW r \in Resources, CloseIdle(r)
      PROVE  UNCHANGED <<freeq, res>>
  BY <1>7 DEF CloseIdle, pathVars
<1>8. CASE UNCHANGED vars
  BY <1>8 DEF vars, pathVars
<1>9. ASSUME NEW t \in Threads, Take(t)
      PROVE  \E u \in Threads, p \in Paths : TakeMove(u, p)
  <2>1. path[t] \in Paths
    BY <1>9 DEF TypeInv, LocalOK, Take, At
  <2>. QED
    BY <1>1, <1>9, <2>1
<1>. QED
  BY <1>2, <1>3, <1>4, <1>5, <1>6, <1>7, <1>8, <1>9 DEF Next, Step
-----------------------------------------------------------------------------
(* A connection has one place at a time *)

\* What a step that takes a connection does to the places of all of them.
LEMMA TakeMoves ==
  ASSUME TypeInv, Exclusive, NEW t \in Threads, NEW p \in Paths, TakeMove(t, p)
  PROVE  LET r == Head(freeq[p]) IN
         /\ r \in Resources /\ PathOf(r) = p /\ InQueue(r)
         /\ \A s \in Resources : InQueue(s)' <=> InQueue(s) /\ s # r
         /\ NoDuplicates'
<1>. DEFINE q == freeq[p]
            r == Head(q)
<1>1. q \in Seq(Resources) /\ q # <<>> /\ freeq \in [Paths -> Seq(Resources)]
  BY DEF TypeInv, TypeOK, PathTypes, TakeMove
<1>2. Distinct(q) /\ \A s : In(q, s) => PathOf(s) = p
  BY DEF Exclusive, NoDuplicates, Distinct, In
<1>3. /\ r \in Resources /\ In(q, r) /\ Distinct(Tail(q))
      /\ \A s : In(Tail(q), s) <=> In(q, s) /\ s # r
  BY <1>1, <1>2, TailOf
<1>4. PathOf(r) = p
  BY <1>2, <1>3
<1>5. freeq'[p] = Tail(q) /\ \A o \in Paths : o # p => freeq'[o] = freeq[o]
  BY <1>1 DEF TakeMove
<1>6. ASSUME NEW s \in Resources
      PROVE  InQueue(s)' <=> InQueue(s) /\ s # r
  <2>1. PathOf(s) \in Paths
    BY ResourceFacts
  <2>2. InQueue(s)' <=> In(freeq'[PathOf(s)], s)
    BY DEF InQueue, In
  <2>3. InQueue(s) <=> In(freeq[PathOf(s)], s)
    BY DEF InQueue, In
  <2>. QED
    BY <1>3, <1>4, <1>5, <2>1, <2>2, <2>3
<1>7. NoDuplicates'
  <2>1. \A o \in Paths : Distinct(freeq'[o]) /\ \A s : In(freeq'[o], s) => PathOf(s) = o
    <3>1. \A o \in Paths : Distinct(freeq[o]) /\ \A s : In(freeq[o], s) => PathOf(s) = o
      BY DEF Exclusive, NoDuplicates, Distinct, In
    <3>. QED
      BY <1>3, <1>5, <3>1
  <2>. QED
    BY <2>1 DEF NoDuplicates, Distinct, In
<1>8. InQueue(r)
  BY <1>3, <1>4 DEF InQueue, In
<1>. QED
  BY <1>3, <1>4, <1>6, <1>7, <1>8

\* What a step that puts a connection back does to the places of all of them.
LEMMA PutMoves ==
  ASSUME TypeInv, Exclusive, NEW t \in Threads, PutMove(t)
  PROVE  LET r == res[t] IN
         /\ r \in Resources /\ ~InQueue(r)
         /\ Len(freeq'[PathOf(r)]) = Len(freeq[PathOf(r)]) + 1
         /\ \A o \in Paths : o # PathOf(r) => freeq'[o] = freeq[o]
         /\ \A s \in Resources : InQueue(s)' <=> InQueue(s) \/ s = r
         /\ NoDuplicates'
<1>. DEFINE r == res[t]
            p == PathOf(r)
            q == freeq[p]
<1>1. r \in Resources /\ p \in Paths /\ r # NoConn
  BY ResourceFacts DEF PutMove
<1>2. q \in Seq(Resources) /\ freeq \in [Paths -> Seq(Resources)]
  BY <1>1 DEF TypeInv, TypeOK, PathTypes
<1>3. Distinct(q) /\ \A s : In(q, s) => PathOf(s) = p
  BY <1>1 DEF Exclusive, NoDuplicates, Distinct, In
<1>4. ~InQueue(r) /\ ~In(q, r)
  BY <1>1 DEF Exclusive, HeldOnce, InQueue, In
<1>5. PICK new \in {Append(q, r), <<r>> \o q} : freeq' = [freeq EXCEPT ![p] = new]
  BY <1>4 DEF PutMove
<1>6. Distinct(new) /\ \A s : In(new, s) <=> In(q, s) \/ s = r
  <2>. HIDE DEF q, r
  <2>1. CASE new = Append(q, r)
    BY <1>1, <1>2, <1>3, <1>4, <2>1, AppendOf
  <2>2. CASE new = <<r>> \o q
    BY <1>1, <1>2, <1>3, <1>4, <2>2, PushOf
  <2>. QED
    BY <2>1, <2>2
<1>7. Len(new) = Len(q) + 1
  BY <1>1, <1>2
<1>8. freeq'[p] = new /\ \A o \in Paths : o # p => freeq'[o] = freeq[o]
  BY <1>1, <1>2, <1>5
<1>9. ASSUME NEW s \in Resources
      PROVE  InQueue(s)' <=> InQueue(s) \/ s = r
  <2>1. PathOf(s) \in Paths
    BY ResourceFacts
  <2>2. InQueue(s)' <=> In(freeq'[PathOf(s)], s)
    BY DEF InQueue, In
  <2>3. InQueue(s) <=> In(freeq[PathOf(s)], s)
    BY DEF InQueue, In
  <2>. QED
    BY <1>6, <1>8, <2>1, <2>2, <2>3
<1>10. NoDuplicates'
  <2>1. \A o \in Paths : Distinct(freeq'[o]) /\ \A s : In(freeq'[o], s) => PathOf(s) = o
    <3>1. \A o \in Paths : Distinct(freeq[o]) /\ \A s : In(freeq[o], s) => PathOf(s) = o
      BY DEF Exclusive, NoDuplicates, Distinct, In
    <3>. QED
      BY <1>3, <1>6, <1>8, <3>1
  <2>. QED
    BY <2>1 DEF NoDuplicates, Distinct, In
<1>. QED
  BY <1>1, <1>4, <1>7, <1>8, <1>9, <1>10

LEMMA ExclusiveInit == Init => Exclusive
<1>. SUFFICES ASSUME Init PROVE Exclusive
  OBVIOUS
<1>1. NoDuplicates
  BY PathFacts DEF NoDuplicates, Init, PathOf
<1>2. HeldOnce
  BY DEF HeldOnce, Init
<1>. QED
  BY <1>1, <1>2 DEF Exclusive

LEMMA ExclusiveStep == TypeInv /\ Exclusive /\ [Next]_vars => Exclusive'
<1>. SUFFICES ASSUME TypeInv, Exclusive, [Next]_vars
              PROVE  Exclusive'
  OBVIOUS
<1>1. res \in [Threads -> Resources \cup {NoConn}] /\ NoConn \notin Resources
  BY ResourceFacts DEF TypeInv, TypeOK, ThreadTypes
<1>2. CASE UNCHANGED <<freeq, res>>
  BY <1>2 DEF Exclusive, NoDuplicates, HeldOnce, InQueue
<1>3. ASSUME NEW t \in Threads, NEW p \in Paths, TakeMove(t, p)
      PROVE  Exclusive'
  <2>1. PICK r \in Resources :
          /\ r = Head(freeq[p]) /\ InQueue(r)
          /\ \A s \in Resources : InQueue(s)' <=> InQueue(s) /\ s # r
          /\ NoDuplicates'
    BY <1>3, TakeMoves
  <2>2. res' = [res EXCEPT ![t] = r]
    BY <1>3, <2>1 DEF TakeMove
  <2>3. \A u \in Threads : res[u] # r
    BY <1>1, <2>1 DEF Exclusive, HeldOnce
  <2>4. ASSUME NEW u \in Threads, NEW s \in Resources, res'[u] = s
        PROVE  ~InQueue(s)' /\ \A v \in Threads : u # v => res'[v] # s
    BY <1>1, <2>1, <2>2, <2>3, <2>4 DEF Exclusive, HeldOnce
  <2>5. res' \in [Threads -> Resources \cup {NoConn}]
    BY <1>1, <2>2
  <2>6. HeldOnce'
    BY <2>4, <2>5 DEF HeldOnce, InQueue
  <2>. QED
    BY <2>1, <2>6 DEF Exclusive
<1>4. ASSUME NEW t \in Threads, PutMove(t)
      PROVE  Exclusive'
  <2>1. PICK r \in Resources :
          /\ r = res[t]
          /\ \A s \in Resources : InQueue(s)' <=> InQueue(s) \/ s = r
          /\ NoDuplicates'
    BY <1>4, PutMoves
  <2>2. res' = [res EXCEPT ![t] = NoConn]
    BY <1>4 DEF PutMove
  <2>3. ASSUME NEW u \in Threads, NEW s \in Resources, res'[u] = s
        PROVE  ~InQueue(s)' /\ \A v \in Threads : u # v => res'[v] # s
    <3>1. u # t /\ res[u] = s
      BY <1>1, <2>2, <2>3
    <3>. QED
      BY <1>1, <2>1, <2>2, <3>1 DEF Exclusive, HeldOnce
  <2>4. res' \in [Threads -> Resources \cup {NoConn}]
    BY <1>1, <2>2
  <2>5. HeldOnce'
    BY <2>3, <2>4 DEF HeldOnce, InQueue
  <2>. QED
    BY <2>1, <2>5 DEF Exclusive
<1>. QED
  BY <1>2, <1>3, <1>4, Moves

\* get_lnk_no and add_lnk never give a connection to two threads, never keep it
\* in the ring while a thread has it, and never put it into a ring twice.
THEOREM ConnectionsExclusive == Spec => []Exclusive
<1>1. Init => TypeInv /\ Exclusive
  BY TypeInit, ExclusiveInit
<1>2. (TypeInv /\ Exclusive) /\ [Next]_vars => (TypeInv /\ Exclusive)'
  BY TypeStep, ExclusiveStep
<1>. QED
  BY <1>1, <1>2, PTL DEF Spec
-----------------------------------------------------------------------------
(* No connection gets lost *)

LEMMA NoneLostInit == Init => NoneLost
<1>. SUFFICES ASSUME Init, NEW r \in Resources
              PROVE  InQueue(r)
  BY DEF NoneLost
<1>1. PICK p \in Paths : r \in {p} \X (1 .. Num[p])
  BY DEF Resources
<1>2. PICK i \in 1 .. Num[p] : r = <<p, i>>
  BY <1>1
<1>3. freeq[p] = [j \in 1 .. Num[p] |-> <<p, j>>]
  BY DEF Init
<1>4. PathOf(r) = p /\ freeq[p][i] = r
  BY <1>2, <1>3 DEF PathOf
<1>. QED
  BY <1>3, <1>4 DEF InQueue

LEMMA NoneLostStep == TypeInv /\ Exclusive /\ NoneLost /\ [Next]_vars => NoneLost'
<1>. SUFFICES ASSUME TypeInv, Exclusive, NoneLost, [Next]_vars
              PROVE  NoneLost'
  OBVIOUS
<1>1. res \in [Threads -> Resources \cup {NoConn}] /\ NoConn \notin Resources
  BY ResourceFacts DEF TypeInv, TypeOK, ThreadTypes
<1>2. CASE UNCHANGED <<freeq, res>>
  BY <1>2 DEF NoneLost, InQueue
<1>3. ASSUME NEW t \in Threads, NEW p \in Paths, TakeMove(t, p)
      PROVE  NoneLost'
  <2>1. PICK r \in Resources :
          /\ r = Head(freeq[p])
          /\ \A s \in Resources : InQueue(s)' <=> InQueue(s) /\ s # r
    BY <1>3, TakeMoves
  <2>2. res[t] = NoConn /\ res' = [res EXCEPT ![t] = r]
    BY <1>3, <2>1 DEF TakeMove
  <2>3. \A s \in Resources : InQueue(s)' \/ \E u \in Threads : res'[u] = s
    BY <1>1, <2>1, <2>2 DEF NoneLost
  <2>. QED
    BY <2>3 DEF NoneLost
<1>4. ASSUME NEW t \in Threads, PutMove(t)
      PROVE  NoneLost'
  <2>1. PICK r \in Resources :
          /\ r = res[t]
          /\ \A s \in Resources : InQueue(s)' <=> InQueue(s) \/ s = r
    BY <1>4, PutMoves
  <2>2. res' = [res EXCEPT ![t] = NoConn]
    BY <1>4 DEF PutMove
  <2>3. \A s \in Resources : InQueue(s)' \/ \E u \in Threads : res'[u] = s
    BY <1>1, <2>1, <2>2 DEF NoneLost
  <2>. QED
    BY <2>3 DEF NoneLost
<1>. QED
  BY <1>2, <1>3, <1>4, Moves

\* The ways out of get_SC_resource and release_SC_connect leave no connection
\* behind, whatever goes wrong while it is being connected.
THEOREM ConnectionsKept == Spec => []NoneLost
<1>. DEFINE I == TypeInv /\ Exclusive /\ NoneLost
<1>1. Init => I
  BY TypeInit, ExclusiveInit, NoneLostInit
<1>2. I /\ [Next]_vars => I'
  BY TypeStep, ExclusiveStep, NoneLostStep
<1>3. I => NoneLost
  OBVIOUS
<1>. QED
  BY <1>1, <1>2, <1>3, PTL DEF Spec
-----------------------------------------------------------------------------
(* The weight of a path *)

LEMMA WeightInit == Init => WeightCounts
BY PathFacts DEF Init, WeightCounts

LEMMA WeightStep == TypeInv /\ Exclusive /\ WeightCounts /\ [Next]_vars => WeightCounts'
<1>. SUFFICES ASSUME TypeInv, Exclusive, WeightCounts, [Next]_vars
              PROVE  WeightCounts'
  OBVIOUS
<1>1. /\ freeq \in [Paths -> Seq(Resources)]
      /\ weight \in [Paths -> Nat \cup {-1}]
  BY DEF TypeInv, TypeOK, PathTypes
<1>2. \A p \in Paths : Len(freeq[p]) \in Nat /\ weight[p] \in {-1, Len(freeq[p])}
  BY <1>1 DEF WeightCounts
<1>3. CASE UNCHANGED <<freeq, weight>>
  BY <1>3 DEF WeightCounts
<1>4. ASSUME NEW t \in Threads, Take(t)
      PROVE  WeightCounts'
  <2>. DEFINE p == path[t]
  <2>1. p \in Paths /\ freeq[p] # <<>>
    BY <1>4 DEF TypeInv, LocalOK, Take, At
  <2>2. Len(freeq[p]) > 0 /\ Len(Tail(freeq[p])) = Len(freeq[p]) - 1
    BY <1>1, <2>1
  <2>3. weight' = [weight EXCEPT ![p] = IF weight[p] > 0 THEN weight[p] - 1 ELSE weight[p]]
    BY <1>4 DEF Take
  <2>4. freeq' = [freeq EXCEPT ![p] = Tail(freeq[p])]
    BY <1>4 DEF Take
  <2>5. weight'[p] \in {-1, Len(freeq'[p])}
    BY <1>1, <1>2, <2>1, <2>2, <2>3, <2>4
  <2>6. \A o \in Paths : o # p => weight'[o] = weight[o] /\ freeq'[o] = freeq[o]
    BY <1>1, <2>3, <2>4
  <2>. QED
    BY <1>2, <2>5, <2>6 DEF WeightCounts
<1>5. ASSUME NEW t \in Threads, FailBack(t)
      PROVE  WeightCounts'
  <2>. DEFINE p == PathOf(res[t])
  <2>1. p \in Paths
    BY <1>5, HeldConn DEF TypeInv, TypeOK, FailBack, At, Holding
  <2>2. weight' = [weight EXCEPT ![p] = -1]
    BY <1>5 DEF FailBack
  <2>3. \A o \in Paths : o # p => freeq'[o] = freeq[o]
    BY <1>1, <1>5 DEF FailBack, add_lnk
  <2>. QED
    BY <1>1, <1>2, <2>1, <2>2, <2>3 DEF WeightCounts
<1>6. ASSUME NEW t \in Threads, Recover(t)
      PROVE  WeightCounts'
  BY <1>1, <1>2, <1>6 DEF Recover, WeightCounts
<1>7. ASSUME NEW t \in Threads, Release(t)
      PROVE  WeightCounts'
  <2>. DEFINE r == res[t]
              p == PathOf(r)
  <2>1. r \in Resources /\ p \in Paths /\ r # NoConn
    BY <1>7, HeldConn, ResourceFacts DEF TypeInv, TypeOK, Release, At, Holding
  <2>2. PutMove(t)
    BY <1>1, <1>7, <2>1 DEF Release, PutMove, add_lnk
  <2>3. /\ ~InQueue(r) /\ Len(freeq'[p]) = Len(freeq[p]) + 1
        /\ \A o \in Paths : o # p => freeq'[o] = freeq[o]
    BY <2>2, PutMoves
  <2>4. weight' = [weight EXCEPT ![p] = IF weight[p] < 0 THEN weight[p] ELSE weight[p] + 1]
    BY <1>7, <2>3 DEF Release, Heavier
  <2>5. weight'[p] \in {-1, Len(freeq'[p])}
    BY <1>1, <1>2, <2>1, <2>3, <2>4
  <2>6. \A o \in Paths : o # p => weight'[o] = weight[o]
    BY <1>1, <2>4
  <2>. QED
    BY <1>2, <2>3, <2>5, <2>6 DEF WeightCounts
<1>8. ASSUME NEW t \in Threads,
             \/ LockWeight(t) \/ ScanPath(t) \/ ProbePath(t) \/ GiveUp(t)
             \/ WaitWeight(t) \/ WaitTimeout(t) \/ TakeNothing(t) \/ CheckConn(t)
             \/ Connect(t) \/ CheckTable(t) \/ SpinEnds(t) \/ LoadPublish(t)
      PROVE  UNCHANGED <<freeq, weight>>
  BY <1>8 DEF LockWeight, ScanPath, ProbePath, GiveUp, WaitWeight, WaitTimeout,
              TakeNothing, CheckConn, Connect, CheckTable, SpinEnds, LoadPublish,
              pathVars
<1>9. ASSUME NEW t \in Threads,
             \/ LoadFails(t) \/ LoadBuild(t) \/ Relock(t) \/ SignalConnected(t)
             \/ Ready(t) \/ SignalReleased(t) \/ ClearErrno(t)
             \/ CallFails(t) \/ SpuriousWakeup(t)
             \/ \E p \in Paths, f \in PathFlags : CallPath(t, p, f)
             \/ \E f \in PoolFlags : CallPool(t, f)
      PROVE  UNCHANGED <<freeq, weight>>
  BY <1>9 DEF LoadFails, LoadBuild, Relock, SignalConnected, Ready, SignalReleased,
              ClearErrno, CallFails, SpuriousWakeup, CallPath, CallPool, pathVars
<1>10. ASSUME NEW r \in Resources, CloseIdle(r)
       PROVE  UNCHANGED <<freeq, weight>>
  BY <1>10 DEF CloseIdle, pathVars
<1>11. CASE UNCHANGED vars
  BY <1>3, <1>11 DEF vars, pathVars
<1>. QED
  BY <1>3, <1>4, <1>5, <1>6, <1>7, <1>8, <1>9, <1>10, <1>11 DEF Next, Step

\* The counter that balances the paths agrees with the ring through failures,
\* recovery and the closing of idle connections.
THEOREM WeightCorrect == Spec => []WeightCounts
<1>. DEFINE I == TypeInv /\ Exclusive /\ WeightCounts
<1>1. Init => I
  BY TypeInit, ExclusiveInit, WeightInit
<1>2. I /\ [Next]_vars => I'
  BY TypeStep, ExclusiveStep, WeightStep
<1>3. I => WeightCounts
  OBVIOUS
<1>. QED
  BY <1>1, <1>2, <1>3, PTL DEF Spec
-----------------------------------------------------------------------------
(* The pool implements ConnPool *)

\* The owner of a connection is the thread that has it.
LEMMA OwnerOf ==
  ASSUME Exclusive, NEW r \in Resources
  PROVE  /\ \A t \in Threads : res[t] = r => Owner(r) = t
         /\ (\A t \in Threads : res[t] # r) => Owner(r) = Nobody
<1>1. ASSUME NEW t \in Threads, res[t] = r
      PROVE  Owner(r) = t
  <2>1. \A u \in Threads : res[u] = r => u = t
    BY <1>1, ResourceFacts DEF Exclusive, HeldOnce
  <2>. QED
    BY <1>1, <2>1 DEF Owner
<1>2. ASSUME \A t \in Threads : res[t] # r
      PROVE  Owner(r) = Nobody
  BY <1>2 DEF Owner
<1>. QED
  BY <1>1, <1>2

\* The refinement mapping.
OwnerMap == [r \in Resources |-> Owner(r)]

LEMMA AbsInit == Init => Abs!Init
<1>. SUFFICES ASSUME Init, NEW r \in Resources
              PROVE  Owner(r) = Nobody
  BY DEF Abs!Init
<1>1. \A t \in Threads : res[t] # r
  BY ResourceFacts DEF Init
<1>. QED
  BY <1>1 DEF Owner

\* Taking is Lend, putting back is GiveBack, anything else stutters.
LEMMA AbsStep ==
  ASSUME TypeInv, Exclusive, [Next]_vars
  PROVE  [Abs!Next]_OwnerMap
<1>1. Exclusive'
  BY ExclusiveStep
<1>2. res \in [Threads -> Resources \cup {NoConn}] /\ NoConn \notin Resources
  BY ResourceFacts DEF TypeInv, TypeOK, ThreadTypes
<1>3. CASE UNCHANGED <<freeq, res>>
  BY <1>3 DEF OwnerMap, Owner
<1>4. ASSUME NEW t \in Threads, NEW p \in Paths, TakeMove(t, p)
      PROVE  Abs!Next
  <2>1. PICK r \in Resources : r = Head(freeq[p]) /\ InQueue(r)
    BY <1>4, TakeMoves
  <2>2. res[t] = NoConn /\ res' = [res EXCEPT ![t] = r]
    BY <1>4, <2>1 DEF TakeMove
  <2>3. \A u \in Threads : res[u] # r
    BY <1>2, <2>1 DEF Exclusive, HeldOnce
  <2>4. Owner(r) = Nobody
    BY <2>3, OwnerOf
  <2>5. Owner(r)' = t
    <3>1. res'[t] = r
      BY <1>2, <2>2
    <3>2. \A u \in Threads : res'[u] = r => u = t
      BY <1>2, <2>2, <2>3
    <3>. QED
      BY <3>1, <3>2 DEF Owner
  <2>6. ASSUME NEW s \in Resources, s # r
        PROVE  Owner(s)' = Owner(s)
    <3>1. \A u \in Threads : res'[u] = s <=> res[u] = s
      BY <1>2, <2>2, <2>6
    <3>. QED
      BY <3>1 DEF Owner
  <2>7. OwnerMap' = [OwnerMap EXCEPT ![r] = t]
    BY <2>5, <2>6 DEF OwnerMap
  <2>8. Abs!Lend(t, r)
    BY <2>4, <2>7 DEF Abs!Lend, OwnerMap
  <2>. QED
    BY <2>8 DEF Abs!Next
<1>5. ASSUME NEW t \in Threads, PutMove(t)
      PROVE  Abs!Next
  <2>. DEFINE r == res[t]
  <2>1. r \in Resources /\ res' = [res EXCEPT ![t] = NoConn]
    BY <1>5 DEF PutMove
  <2>2. Owner(r) = t
    BY <2>1, OwnerOf
  <2>3. \A s \in Resources : s = r => Owner(s)' = Nobody
    <3>1. \A u \in Threads : res'[u] # r
      BY <1>2, <2>1 DEF Exclusive, HeldOnce
    <3>. QED
      BY <3>1 DEF Owner
  <2>4. ASSUME NEW s \in Resources, s # r
        PROVE  Owner(s)' = Owner(s)
    <3>1. \A u \in Threads : res'[u] = s <=> res[u] = s
      BY <1>2, <2>1, <2>4
    <3>. QED
      BY <3>1 DEF Owner
  <2>5. OwnerMap' = [OwnerMap EXCEPT ![r] = Nobody]
    BY <2>1, <2>3, <2>4 DEF OwnerMap
  <2>6. Abs!GiveBack(t, r)
    BY <2>1, <2>2, <2>5 DEF Abs!GiveBack, OwnerMap
  <2>. QED
    BY <2>1, <2>6 DEF Abs!Next
<1>. QED
  BY <1>3, <1>4, <1>5, Moves

\* For its users the pool is ConnPool: a connection is lent to one thread, and
\* comes back only from that thread.
THEOREM PoolImplementsConnPool == Spec => ImplementsConnPool
<1>1. Init => TypeInv /\ Exclusive
  BY TypeInit, ExclusiveInit
<1>2. (TypeInv /\ Exclusive) /\ [Next]_vars => (TypeInv /\ Exclusive)'
  BY TypeStep, ExclusiveStep
<1>3. (TypeInv /\ Exclusive) /\ [Next]_vars => [Abs!Next]_OwnerMap
  BY AbsStep
<1>. QED
  BY <1>1, <1>2, <1>3, AbsInit, PTL DEF Spec, ImplementsConnPool, Abs!Spec, OwnerMap
-----------------------------------------------------------------------------
(* No thread waits beside a free connection *)

\* Connecting does not fail: a connection that could not be made is put back
\* without a signal (scpool.c:478-482).
NothingFails == \A p \in Paths : Faults[p] = {}
FiniteThreads == IsFiniteSet(Threads)

NoneFailed == \A t \in Threads : pc[t] \notin {"failed", "refill"}

WakeInv == TypeInv /\ Exclusive /\ NoneFailed /\ NoLostWakeup

\* The threads that are about to signal or to take are finitely many; one more
\* or less counts one.
LEMMA Counted ==
  ASSUME FiniteThreads, NEW S \in SUBSET Threads, NEW T \in SUBSET Threads, NEW t \in Threads
  PROVE  /\ Cardinality(S) \in Nat
         /\ S \subseteq T => Cardinality(S) <= Cardinality(T)
         /\ t \in S => Cardinality(S \ {t}) = Cardinality(S) - 1
         /\ t \notin S => Cardinality(S \cup {t}) = Cardinality(S) + 1
<1>1. IsFiniteSet(S) /\ IsFiniteSet(T)
  BY FS_Subset DEF FiniteThreads
<1> QED BY <1>1, FS_CardinalityType, FS_Subset, FS_AddElement, FS_RemoveElement

\* What a step may do to the free connections of path p and to those who are
\* about to signal or to take.
Undisturbed(p) ==
  /\ Len(freeq'[p]) = Len(freeq[p])
  /\ Signalling(p) \subseteq Signalling(p)' /\ Taking(p) \subseteq Taking(p)'
  /\ CondWaiters(p)' # {} => CondWaiters(p) # {}
Pointless(p) == CondWaiters(p)' = {} \/ Len(freeq'[p]) = 0
Fetched(p, t) ==
  /\ Len(freeq'[p]) = Len(freeq[p]) - 1
  /\ Signalling(p)' = Signalling(p) /\ t \in Taking(p) /\ Taking(p)' = Taking(p) \ {t}
  /\ CondWaiters(p)' = CondWaiters(p)
Returned(p, t) ==
  /\ Len(freeq'[p]) = Len(freeq[p]) + 1
  /\ t \notin Signalling(p) /\ Signalling(p)' = Signalling(p) \cup {t} /\ Taking(p)' = Taking(p)
  /\ CondWaiters(p)' = CondWaiters(p)
Signalled(p, t, u) ==
  /\ Len(freeq'[p]) = Len(freeq[p])
  /\ t \in Signalling(p) /\ Signalling(p)' = Signalling(p) \ {t}
  /\ u \in CondWaiters(p) /\ u \notin Taking(p) /\ Taking(p)' = Taking(p) \cup {u}
WakeMove(p) ==
  \/ Undisturbed(p) \/ Pointless(p)
  \/ \E t \in Threads : Fetched(p, t) \/ Returned(p, t) \/ \E u \in Threads : Signalled(p, t, u)

LEMMA WakeKept ==
  ASSUME FiniteThreads, WakeInv, TypeInv', \A p \in Paths : WakeMove(p)
  PROVE  NoLostWakeup'
<1> SUFFICES ASSUME NEW p \in Paths, CondWaiters(p)' # {}
             PROVE  Len(freeq'[p]) <= Cardinality(Signalling(p)') + Cardinality(Taking(p)')
  BY DEF NoLostWakeup
<1>1. /\ Len(freeq[p]) \in Nat /\ Len(freeq'[p]) \in Nat
      /\ Signalling(p) \in SUBSET Threads /\ Taking(p) \in SUBSET Threads
      /\ Signalling(p)' \in SUBSET Threads /\ Taking(p)' \in SUBSET Threads
  BY DEF WakeInv, TypeInv, TypeOK, PathTypes, Signalling, Taking
<1>2. /\ Cardinality(Signalling(p)) \in Nat /\ Cardinality(Taking(p)) \in Nat
      /\ Cardinality(Signalling(p)') \in Nat /\ Cardinality(Taking(p)') \in Nat
  <2>1. ASSUME NEW S \in SUBSET Threads PROVE Cardinality(S) \in Nat
    <3>1. IsFiniteSet(S)
      BY FS_Subset DEF FiniteThreads
    <3> QED BY <3>1, FS_CardinalityType
  <2> QED BY <1>1, <2>1
<1>3. CondWaiters(p) # {} => Len(freeq[p]) <= Cardinality(Signalling(p)) + Cardinality(Taking(p))
  BY DEF WakeInv, NoLostWakeup
<1>4. CASE Undisturbed(p)
  <2>1. \A S, T \in SUBSET Threads : S \subseteq T => Cardinality(S) <= Cardinality(T)
    <3> SUFFICES ASSUME NEW S \in SUBSET Threads, NEW T \in SUBSET Threads, S \subseteq T
                 PROVE  Cardinality(S) <= Cardinality(T)
      OBVIOUS
    <3>1. IsFiniteSet(T)
      BY FS_Subset DEF FiniteThreads
    <3> QED BY <3>1, FS_Subset
  <2>2. Cardinality(Signalling(p)) <= Cardinality(Signalling(p)')
    BY <1>1, <1>4, <2>1 DEF Undisturbed
  <2>3. Cardinality(Taking(p)) <= Cardinality(Taking(p)')
    BY <1>1, <1>4, <2>1 DEF Undisturbed
  <2> QED BY <1>1, <1>2, <1>3, <1>4, <2>2, <2>3 DEF Undisturbed
<1>5. CASE Pointless(p)
  BY <1>2, <1>5 DEF Pointless
<1>6. ASSUME NEW t \in Threads, Fetched(p, t)
      PROVE  Len(freeq'[p]) <= Cardinality(Signalling(p)') + Cardinality(Taking(p)')
  <2>1. Cardinality(Taking(p)') = Cardinality(Taking(p)) - 1
    BY <1>1, <1>6, Counted DEF Fetched
  <2> QED BY <1>1, <1>2, <1>3, <1>6, <2>1 DEF Fetched
<1>7. ASSUME NEW t \in Threads, Returned(p, t)
      PROVE  Len(freeq'[p]) <= Cardinality(Signalling(p)') + Cardinality(Taking(p)')
  <2>1. Cardinality(Signalling(p)') = Cardinality(Signalling(p)) + 1
    BY <1>1, <1>7, Counted DEF Returned
  <2> QED BY <1>1, <1>2, <1>3, <1>7, <2>1 DEF Returned
<1>8. ASSUME NEW t \in Threads, NEW u \in Threads, Signalled(p, t, u)
      PROVE  Len(freeq'[p]) <= Cardinality(Signalling(p)') + Cardinality(Taking(p)')
  <2>1. Cardinality(Signalling(p)') = Cardinality(Signalling(p)) - 1
    BY <1>1, <1>8, Counted DEF Signalled
  <2>2. Cardinality(Taking(p)') = Cardinality(Taking(p)) + 1
    BY <1>1, <1>8, Counted DEF Signalled
  <2> QED BY <1>1, <1>2, <1>3, <1>8, <2>1, <2>2 DEF Signalled
<1> QED BY <1>4, <1>5, <1>6, <1>7, <1>8 DEF WakeMove

\* A step in which no thread begins to wait and none that signals or takes moves.
LEMMA Aside ==
  ASSUME TypeInv, UNCHANGED freeq,
         \A u \in Threads : \/ pc'[u] = pc[u] /\ path'[u] = path[u] /\ given'[u] = given[u]
                            \/ pc[u] \notin {"get", "released"} /\ pc'[u] # "condwait"
  PROVE  \A p \in Paths : WakeMove(p)
<1>1. \A p \in Paths : Undisturbed(p)
  BY DEF Undisturbed, Signalling, Taking, CondWaiters
<1> QED BY <1>1 DEF WakeMove

LEMMA AsideSteps ==
  ASSUME TypeInv, NEW t \in Threads,
         \/ LockWeight(t) \/ ScanPath(t) \/ ProbePath(t) \/ GiveUp(t) \/ WaitWeight(t)
         \/ WaitTimeout(t) \/ CheckConn(t) \/ Connect(t) \/ CheckTable(t) \/ SpinEnds(t)
         \/ LoadPublish(t) \/ LoadFails(t) \/ LoadBuild(t) \/ Relock(t) \/ Recover(t)
         \/ SignalConnected(t) \/ Ready(t) \/ ClearErrno(t)
         \/ CallFails(t) \/ SpuriousWakeup(t)
         \/ \E p \in Paths, f \in PathFlags : CallPath(t, p, f)
         \/ \E f \in PoolFlags : CallPool(t, f)
  PROVE  \A p \in Paths : WakeMove(p)
<1> USE DEF Goto, At, TypeInv, TypeOK, ThreadTypes, CallTypes, EndCall, SetCall, callVars, pathVars
<1>1. CASE \/ LockWeight(t) \/ ScanPath(t) \/ ProbePath(t) \/ GiveUp(t) \/ WaitWeight(t)
           \/ WaitTimeout(t) \/ CheckConn(t) \/ Ready(t)
  BY <1>1, Aside DEF LockWeight, ScanPath, ProbePath, GiveUp, WaitWeight, WaitTimeout, CheckConn,
     Ready
<1>2. CASE \/ Connect(t) \/ CheckTable(t) \/ SpinEnds(t) \/ LoadPublish(t) \/ LoadFails(t)
           \/ LoadBuild(t) \/ Relock(t) \/ Recover(t)
  BY <1>2, Aside DEF Connect, CheckTable, SpinEnds, LoadPublish, LoadFails, LoadBuild, Relock,
     Recover
<1>3. CASE ClearErrno(t) \/ CallFails(t)
  BY <1>3, Aside DEF ClearErrno, CallFails
<1>4. CASE SpuriousWakeup(t)
  BY <1>4, Aside DEF SpuriousWakeup, Woken
<1>5. CASE \/ \E p \in Paths, f \in PathFlags : CallPath(t, p, f)
           \/ \E f \in PoolFlags : CallPool(t, f)
  BY <1>5, Aside DEF CallPath, CallPool, Outside
<1>6. CASE SignalConnected(t)
  <2>1. PICK V \in OneOf(WeightWaiters) : SignalAndGoto(t, V, "ready")
    BY <1>6 DEF SignalConnected
  <2>2. \A u \in V : pc[u] = "weightwait"
    BY DEF OneOf, WeightWaiters
  <2>3. \A u \in Threads : pc'[u] = IF u = t THEN "ready" ELSE IF u \in V THEN "rescan" ELSE pc[u]
    BY <2>1, <2>2 DEF SignalAndGoto, Woken
  <2> QED BY <1>6, <2>2, <2>3, Aside DEF SignalConnected
<1> QED BY <1>1, <1>2, <1>3, <1>4, <1>5, <1>6

LEMMA TakingSteps ==
  ASSUME TypeInv, NEW t \in Threads, Take(t) \/ TakeNothing(t)
  PROVE  \A p \in Paths : WakeMove(p)
<1> DEFINE q == path[t]
<1>0. /\ q \in Paths /\ pc[t] = "get" /\ freeq \in [Paths -> Seq(Resources)]
      /\ pc \in [Threads -> Labels] /\ path \in [Threads -> Nat \ {0}]
  BY DEF TypeInv, LocalOK, TypeOK, PathTypes, ThreadTypes, CallTypes, Take, TakeNothing, At
<1>1. CASE Take(t)
  <2>1. /\ UNCHANGED <<path, given>> /\ pc' = [pc EXCEPT ![t] = "check"]
        /\ freeq' = [freeq EXCEPT ![q] = Tail(@)] /\ freeq[q] # <<>>
    BY <1>1 DEF Take, callVars, Goto
  <2>2. freeq'[q] = Tail(freeq[q]) /\ Len(Tail(freeq[q])) = Len(freeq[q]) - 1
    BY <1>0, <2>1
  <2>3. Fetched(q, t)
    BY <1>0, <2>1, <2>2 DEF Fetched, Signalling, Taking, CondWaiters
  <2>4. \A p \in Paths : p # q => Undisturbed(p)
    BY <1>0, <2>1 DEF Undisturbed, Signalling, Taking, CondWaiters
  <2> QED BY <2>3, <2>4 DEF WakeMove
<1>2. CASE TakeNothing(t)
  <2>1. UNCHANGED <<freeq, given>> /\ freeq[q] = <<>>
    BY <1>2 DEF TakeNothing, pathVars
  <2>2. Pointless(q)
    BY <2>1 DEF Pointless
  <2>3. ASSUME NEW p \in Paths, p # q PROVE Undisturbed(p)
    <3>1. /\ \A u \in Threads : u # t => path'[u] = path[u] /\ pc'[u] = pc[u]
          /\ pc'[t] \in {"scan", "probe", "null", "condwait"}
          /\ pc'[t] = "condwait" => path'[t] = q
      BY <1>0, <1>2 DEF TakeNothing, NextPath, EndCall, SetCall, callVars, Goto
    <3> QED BY <1>0, <2>1, <2>3, <3>1 DEF Undisturbed, Signalling, Taking, CondWaiters
  <2> QED BY <2>2, <2>3 DEF WakeMove
<1> QED BY <1>1, <1>2

LEMMA ReturningSteps ==
  ASSUME TypeInv, Exclusive, NEW t \in Threads, Release(t)
  PROVE  \A p \in Paths : WakeMove(p)
<1>. PICK r \in Resources, q \in Paths : r = res[t] /\ q = PathOf(r)
  BY HeldConn DEF TypeInv, TypeOK, Release, At, Holding
<1>0. /\ pc[t] = "use" /\ r # NoConn
      /\ freeq \in [Paths -> Seq(Resources)]
      /\ pc \in [Threads -> Labels] /\ given \in [Threads -> Resources \cup {NoConn}]
  BY HeldConn, ResourceFacts DEF TypeInv, TypeOK, ThreadTypes, PathTypes, Release, At, Holding
<1>1. PutMove(t)
  BY <1>0 DEF Release, PutMove, add_lnk
<1>2. Len(freeq'[q]) = Len(freeq[q]) + 1 /\ \A p \in Paths : p # q => freeq'[p] = freeq[p]
  BY <1>1, PutMoves
<1>3. UNCHANGED path /\ pc' = [pc EXCEPT ![t] = "released"] /\ given' = [given EXCEPT ![t] = r]
  BY DEF Release, Goto, callVars
<1>4. Returned(q, t)
  BY <1>0, <1>2, <1>3 DEF Returned, Signalling, Taking, CondWaiters
<1>5. \A p \in Paths : p # q => Undisturbed(p)
  BY <1>0, <1>2, <1>3 DEF Undisturbed, Signalling, Taking, CondWaiters
<1> QED BY <1>4, <1>5 DEF WakeMove

LEMMA SignallingSteps ==
  ASSUME TypeInv, NEW t \in Threads, SignalReleased(t)
  PROVE  \A p \in Paths : WakeMove(p)
<1> DEFINE q == PathOf(given[t])
<1>0. /\ pc[t] = "released" /\ pc \in [Threads -> Labels] /\ UNCHANGED <<freeq, path, given>>
  BY DEF TypeInv, TypeOK, ThreadTypes, SignalReleased, At, pathVars, callVars
<1>1. PICK W \in OneOf(CondWaiters(q)), V \in OneOf(WeightWaiters) : SignalAndGoto(t, W \cup V, "clear")
  BY DEF SignalReleased
<1>2. /\ \A u \in V : pc[u] = "weightwait"
      /\ W \subseteq CondWaiters(q) /\ (W = {} \/ \E u \in CondWaiters(q) : W = {u})
      /\ W = {} => CondWaiters(q) = {}
  BY DEF OneOf, WeightWaiters
<1>3. \A u \in Threads : pc'[u] = IF u = t THEN "clear" ELSE IF u \in W THEN "get"
                                  ELSE IF u \in V THEN "rescan" ELSE pc[u]
  BY <1>1, <1>2 DEF SignalAndGoto, Woken, CondWaiters
<1>4. WakeMove(q)
  <2>1. CASE W = {}
    <3>1. CondWaiters(q)' = {}
      BY <1>0, <1>2, <1>3, <2>1 DEF CondWaiters
    <3> QED BY <3>1 DEF WakeMove, Pointless
  <2>2. CASE W # {}
    <3>1. PICK u \in CondWaiters(q) : W = {u}
      BY <1>2, <2>2
    <3>2. u \in Threads /\ u # t /\ pc[u] = "condwait" /\ path[u] = q /\ u \notin V
      BY <1>0, <1>2, <3>1 DEF CondWaiters
    <3>3. Signalled(q, t, u)
      BY <1>0, <1>2, <1>3, <3>1, <3>2 DEF Signalled, Signalling, Taking
    <3> QED BY <3>2, <3>3 DEF WakeMove
  <2> QED BY <2>1, <2>2
<1>5. \A p \in Paths : p # q => Undisturbed(p)
  BY <1>0, <1>2, <1>3 DEF Undisturbed, Signalling, Taking, CondWaiters
<1> QED BY <1>4, <1>5 DEF WakeMove

LEMMA WakeInit == Init => WakeInv
<1> SUFFICES ASSUME Init PROVE WakeInv
  OBVIOUS
<1>1. NoneFailed
  BY DEF Init, NoneFailed
<1>2. \A p \in Paths : CondWaiters(p) = {}
  BY DEF Init, CondWaiters
<1> QED BY <1>1, <1>2, TypeInit, ExclusiveInit DEF WakeInv, NoLostWakeup

\* Without faults nobody gets to where a connection is put back silently.
LEMMA NoneFailedStep ==
  ASSUME NothingFails, TypeInv, NoneFailed, [Next]_vars
  PROVE  NoneFailed'
<1> USE DEF NoneFailed, Goto, At, TypeInv, TypeOK, ThreadTypes
<1>1. ASSUME NEW t \in Threads,
             \/ LockWeight(t) \/ ScanPath(t) \/ ProbePath(t) \/ GiveUp(t) \/ WaitWeight(t)
             \/ WaitTimeout(t) \/ Take(t) \/ TakeNothing(t) \/ CheckConn(t)
             \/ CheckTable(t) \/ SpinEnds(t) \/ LoadPublish(t)
      PROVE  NoneFailed'
  BY <1>1 DEF LockWeight, ScanPath, ProbePath, GiveUp, WaitWeight, WaitTimeout, Take, TakeNothing,
              NextPath, CheckConn, CheckTable, SpinEnds, LoadPublish
<1>2. ASSUME NEW t \in Threads,
             \/ LoadBuild(t) \/ Relock(t) \/ FailBack(t) \/ Recover(t) \/ Ready(t) \/ ClearErrno(t)
             \/ CallFails(t) \/ SpuriousWakeup(t) \/ Release(t)
             \/ \E p \in Paths, f \in PathFlags : CallPath(t, p, f)
             \/ \E f \in PoolFlags : CallPool(t, f)
      PROVE  NoneFailed'
  BY <1>2 DEF LoadBuild, Relock, FailBack, NextPath, Recover, Ready, ClearErrno, CallFails,
     SpuriousWakeup, Woken,
              Release, CallPath, CallPool
<1>3. ASSUME NEW t \in Threads, Connect(t) \/ LoadFails(t)
      PROVE  NoneFailed'
  <2>1. PathOf(res[t]) \in Paths
    BY <1>3, HeldConn DEF Connect, LoadFails, Holding
  <2>2. Faults[PathOf(res[t])] = {}
    BY <2>1 DEF NothingFails
  <2> QED BY <1>3, <2>2 DEF Connect, LoadFails
<1>4. ASSUME NEW t \in Threads, SignalConnected(t) \/ SignalReleased(t)
      PROVE  NoneFailed'
  BY <1>4 DEF SignalConnected, SignalReleased, SignalAndGoto, Woken
<1>5. CASE UNCHANGED vars \/ \E r \in Resources : CloseIdle(r)
  BY <1>5 DEF vars, CloseIdle
<1> QED BY <1>1, <1>2, <1>3, <1>4, <1>5 DEF Next, Step

LEMMA WakeStep ==
  ASSUME FiniteThreads, NothingFails, WakeInv, [Next]_vars
  PROVE  WakeInv'
<1>1. TypeInv' /\ Exclusive' /\ NoneFailed'
  BY TypeStep, ExclusiveStep, NoneFailedStep DEF WakeInv
<1>2. \A p \in Paths : WakeMove(p)
  <2>1. CASE UNCHANGED vars \/ \E r \in Resources : CloseIdle(r)
    BY <2>1, Aside DEF WakeInv, vars, CloseIdle, pathVars, callVars
  <2>2. \A t \in Threads : ~FailBack(t)
    BY DEF WakeInv, NoneFailed, FailBack, At
  <2> QED BY <2>1, <2>2, AsideSteps, TakingSteps, ReturningSteps, SignallingSteps DEF WakeInv,
             Next, Step
<1> QED BY <1>1, <1>2, WakeKept DEF WakeInv

\* While a thread waits on pl->cond, somebody is on the way to every free
\* connection of its path: a thread that will take it or one that will signal
\* (scpool.c:455-463, 650-653).
THEOREM WakeupsKept == FiniteThreads /\ NothingFails /\ Spec => []NoLostWakeup
<1> SUFFICES ASSUME FiniteThreads, NothingFails PROVE Spec => []NoLostWakeup
  OBVIOUS
<1>1. Init => WakeInv
  BY WakeInit
<1>2. WakeInv /\ [Next]_vars => WakeInv'
  BY WakeStep
<1>3. WakeInv => NoLostWakeup
  BY DEF WakeInv
<1> QED BY <1>1, <1>2, <1>3, PTL DEF Spec
-----------------------------------------------------------------------------
(* The service table that the connections of a path share: one thread loads *)
(* it at a time, and it is there as long as a connection uses it.            *)

\* No server answers with both error codes set (getsvc.c:156).
NoneRefused == \A p \in Paths : "refused" \notin Faults[p]

LoadsFor(t, p) == pc[t] = "load" /\ PathOf(res[t]) = p

\* A thread that loads a table has marked it, and is alone in that.
OneLoads ==
  /\ \A t \in Threads : pc[t] = "load" => srvn[PathOf(res[t])] = -1
  /\ \A t, u \in Threads, p \in Paths : LoadsFor(t, p) /\ LoadsFor(u, p) => t = u

\* A table that is marked is being loaded.
MarkedIsLoaded == \A p \in Paths : srvn[p] < 0 => \E t \in Threads : LoadsFor(t, p)

TableInv == TypeInv /\ OneLoads /\ TableOutlivesUse
-----------------------------------------------------------------------------
(* The users of a table are counted. *)

\* They are finitely many; one user more or less counts one.
LEMMA UsersOf ==
  ASSUME NEW p \in Paths, NEW S \in SUBSET {r \in Resources : PathOf(r) = p}, NEW r
  PROVE  /\ IsFiniteSet(S) /\ Cardinality(S) \in Nat
         /\ Cardinality(S \cup {r}) <= Cardinality(S) + 1
         /\ r \in S => Cardinality(S \ {r}) = Cardinality(S) - 1 /\ Cardinality(S) > 0
         /\ r \notin S => S \ {r} = S
         /\ Cardinality(S) = 0 <=> S = {}
<1>1. S \subseteq {p} \X (1 .. Num[p])
  BY DEF Resources, PathOf
<1>2. IsFiniteSet({p} \X (1 .. Num[p]))
  <2>1. IsFiniteSet({p})
    BY FS_Singleton
  <2>2. IsFiniteSet(1 .. Num[p])
    <3>1. 1 \in Int /\ Num[p] \in Int
      BY PathFacts
    <3> QED BY <3>1, FS_Interval
  <2> QED BY <2>1, <2>2, FS_Product
<1>3. IsFiniteSet(S)
  BY <1>1, <1>2, FS_Subset
<1>4. Cardinality(S) \in Nat
  BY <1>3, FS_CardinalityType
<1>5. Cardinality(S) = 0 <=> S = {}
  BY <1>3, FS_EmptySet
<1>6. Cardinality(S \cup {r}) <= Cardinality(S) + 1
  BY <1>3, <1>4, FS_AddElement
<1>7. r \in S => Cardinality(S \ {r}) = Cardinality(S) - 1
  BY <1>3, FS_RemoveElement
<1>8. r \notin S => S \ {r} = S
  OBVIOUS
<1> QED BY <1>3, <1>4, <1>5, <1>6, <1>7, <1>8

LEMMA UsersFacts ==
  ASSUME TypeInv, NEW p \in Paths
  PROVE  /\ Users(p) \in SUBSET {r \in Resources : PathOf(r) = p}
         /\ Cardinality(Users(p)) \in Nat
         /\ srvn[p] \in {-1, 0, 1} /\ usage[p] \in Nat \cup {-1}
<1>1. Users(p) \in SUBSET {r \in Resources : PathOf(r) = p}
  BY DEF Users
<1> QED BY <1>1, UsersOf DEF TypeInv, TypeOK, SvcTypes
-----------------------------------------------------------------------------
(* The moves. *)

\* No thread begins or ends to load.
SameLoaders == \A t \in Threads :
  /\ pc'[t] = "load" <=> pc[t] = "load"
  /\ pc[t] = "load" => res'[t] = res[t]

OnlyLoads(t, l) ==
  /\ (pc'[t] = "load") = l
  /\ res' = res
  /\ \A u \in Threads \ {t} : pc'[u] = pc[u]

StillMove == SameLoaders /\ UNCHANGED <<srvn, usage, attached>>
ForgetMove(r) == SameLoaders /\ UNCHANGED <<srvn, usage>> /\ attached' = [attached EXCEPT ![r] = FALSE]
UseMove(r) ==
  LET p == PathOf(r) IN
  /\ SameLoaders /\ UNCHANGED srvn /\ srvn[p] > 0
  /\ usage' = [usage EXCEPT ![p] = @ + 1]
  /\ attached' = [attached EXCEPT ![r] = TRUE]
StartMove(t) ==
  LET p == PathOf(res[t]) IN
  /\ pc[t] # "load" /\ OnlyLoads(t, TRUE) /\ UNCHANGED <<usage, attached>> /\ srvn[p] = 0
  /\ srvn' = [srvn EXCEPT ![p] = -1]
PublishMove(t) ==
  LET p == PathOf(res[t]) IN
  /\ pc[t] = "load" /\ OnlyLoads(t, FALSE)
  /\ srvn' = [srvn EXCEPT ![p] = 1]
  /\ usage' = [usage EXCEPT ![p] = 0]
  /\ attached' = [attached EXCEPT ![res[t]] = TRUE]
FailMove(t) ==
  LET p == PathOf(res[t]) IN
  /\ pc[t] = "load" /\ OnlyLoads(t, FALSE) /\ UNCHANGED attached
  /\ \/ srvn' = [srvn EXCEPT ![p] = 0] /\ usage' = [usage EXCEPT ![p] = -1]
     \/ "refused" \in Faults[p] /\ UNCHANGED <<srvn, usage>>
CloseMove(r) == SameLoaders /\ disconnect(r)

\* The labels at which a thread's connection is or will be connected.
Connecting == {"service", "spin", "load"}
Unshared == {"connect", "failed", "refill"} \cup Connecting

TableMove ==
  \/ StillMove
  \/ \E r \in Resources : CloseMove(r)
  \/ \E t \in Threads : pc[t] \in Unshared /\ (ForgetMove(res[t]) \/ UseMove(res[t]))
  \/ \E t \in Threads : pc[t] \in Holding /\ (StartMove(t) \/ PublishMove(t) \/ FailMove(t))

\* A waiting thread that is woken does not load.
LEMMA WakingLoads ==
  ASSUME TypeInv, NEW t \in Threads, NEW W \in SUBSET Threads, NEW l,
         \A u \in W : pc[u] \in {"condwait", "weightwait"},
         pc[t] # "load", l # "load", SignalAndGoto(t, W, l), UNCHANGED res
  PROVE  SameLoaders
BY DEF SignalAndGoto, SameLoaders, Woken, TypeInv, TypeOK, ThreadTypes

LEMMA StillSteps ==
  ASSUME TypeInv, NEW t \in Threads,
         \/ LockWeight(t) \/ ScanPath(t) \/ ProbePath(t) \/ GiveUp(t) \/ WaitWeight(t)
         \/ WaitTimeout(t) \/ Take(t) \/ TakeNothing(t) \/ CheckConn(t)
         \/ LoadBuild(t) \/ Relock(t) \/ FailBack(t) \/ Recover(t)
         \/ SignalConnected(t) \/ Ready(t) \/ SignalReleased(t) \/ ClearErrno(t)
         \/ CallFails(t) \/ SpuriousWakeup(t)
         \/ \E p \in Paths, f \in PathFlags : CallPath(t, p, f)
         \/ \E f \in PoolFlags : CallPool(t, f)
  PROVE  StillMove
<1> USE DEF StillMove, SameLoaders, Goto, At, TypeInv, TypeOK, ThreadTypes, pathVars, svcVars, connVars
<1>1. CASE LockWeight(t) \/ ScanPath(t) \/ ProbePath(t) \/ GiveUp(t) \/ WaitWeight(t) \/ WaitTimeout(t)
  BY <1>1 DEF LockWeight, ScanPath, ProbePath, GiveUp, WaitWeight, WaitTimeout
<1>2. CASE Take(t) \/ TakeNothing(t) \/ CheckConn(t)
  BY <1>2 DEF Take, TakeNothing, CheckConn, NextPath
<1>3. CASE LoadBuild(t) \/ Relock(t) \/ FailBack(t) \/ Recover(t)
  BY <1>3 DEF LoadBuild, Relock, FailBack, Recover, NextPath
<1>4. CASE SignalConnected(t)
  <2>1. PICK W \in OneOf(WeightWaiters) : SignalAndGoto(t, W, "ready")
    BY <1>4 DEF SignalConnected
  <2>2. W \in SUBSET Threads /\ \A u \in W : pc[u] \in {"condwait", "weightwait"}
    BY DEF OneOf, WeightWaiters
  <2> QED BY <1>4, <2>1, <2>2, WakingLoads DEF SignalConnected
<1>5. CASE SignalReleased(t)
  <2>1. PICK W \in OneOf(CondWaiters(PathOf(given[t]))), V \in OneOf(WeightWaiters) :
          SignalAndGoto(t, W \cup V, "clear")
    BY <1>5 DEF SignalReleased
  <2>2. W \cup V \in SUBSET Threads /\ \A u \in W \cup V : pc[u] \in {"condwait", "weightwait"}
    BY DEF OneOf, WeightWaiters, CondWaiters
  <2> QED BY <1>5, <2>1, <2>2, WakingLoads DEF SignalReleased
<1>6. CASE Ready(t) \/ ClearErrno(t) \/ CallFails(t)
  BY <1>6 DEF Ready, ClearErrno, CallFails
<1>7. CASE SpuriousWakeup(t)
  BY <1>7 DEF SpuriousWakeup, Woken
<1>8. CASE \/ \E p \in Paths, f \in PathFlags : CallPath(t, p, f)
           \/ \E f \in PoolFlags : CallPool(t, f)
  BY <1>8 DEF CallPath, CallPool, Outside
<1> QED BY <1>1, <1>2, <1>3, <1>4, <1>5, <1>6, <1>7, <1>8

LEMMA TableSteps ==
  ASSUME TypeInv, NEW t \in Threads,
         \/ Connect(t) \/ CheckTable(t) \/ SpinEnds(t) \/ LoadPublish(t) \/ LoadFails(t)
         \/ Release(t)
  PROVE  TableMove
<1> USE DEF Goto, At, TypeInv, TypeOK, ThreadTypes, pathVars, svcVars, connVars, SameLoaders, OnlyLoads
<1>a. pc[t] \in Holding /\ res[t] \in Resources
  BY HeldConn DEF Holding, Connect, CheckTable, SpinEnds, LoadPublish, LoadFails, Release
<1>b. Connect(t) \/ CheckTable(t) \/ SpinEnds(t) => pc[t] \in Unshared
  BY DEF Connect, CheckTable, SpinEnds, Unshared, Connecting
<1>1. CASE Connect(t)
  <2>1. ForgetMove(res[t])
    BY <1>1 DEF Connect, ForgetMove
  <2> QED BY <1>b, <1>1, <2>1 DEF TableMove
<1>2. ASSUME UseTable(PathOf(res[t]), res[t]), srvn[PathOf(res[t])] > 0,
             pc[t] # "load", pc[t] \in Unshared, pc' = [pc EXCEPT ![t] = "relock"], UNCHANGED res
      PROVE  TableMove
  <2>1. UseMove(res[t])
    BY <1>2 DEF UseTable, UseMove
  <2> QED BY <1>2, <2>1 DEF TableMove
<1>3. ASSUME StartLoad(PathOf(res[t])), srvn[PathOf(res[t])] = 0,
             pc[t] # "load", pc' = [pc EXCEPT ![t] = "load"], UNCHANGED res
      PROVE  TableMove
  <2>1. StartMove(t)
    BY <1>3 DEF StartLoad, StartMove
  <2> QED BY <1>a, <2>1 DEF TableMove
<1>4. CASE CheckTable(t)
  <2>1. CASE srvn[PathOf(res[t])] < 0
    <3>1. ~(srvn[PathOf(res[t])] = 0) /\ ~(srvn[PathOf(res[t])] > 0)
      BY <2>1, <1>a, ResourceFacts DEF SvcTypes
    <3>2. pc' = [pc EXCEPT ![t] = "spin"] /\ pc[t] = "service" /\ UNCHANGED <<res, svcVars, connVars>>
      BY <1>4, <3>1 DEF CheckTable
    <3>3. StillMove
      BY <3>2 DEF StillMove
    <3> QED BY <3>3 DEF TableMove
  <2> QED BY <1>b, <1>2, <1>3, <1>4, <2>1 DEF CheckTable
<1>5. CASE SpinEnds(t)
  BY <1>b, <1>2, <1>3, <1>5 DEF SpinEnds
<1>6. CASE LoadPublish(t)
  <2>1. PublishMove(t)
    BY <1>6 DEF LoadPublish, PublishMove
  <2> QED BY <1>a, <2>1 DEF TableMove
<1>7. CASE LoadFails(t)
  <2>1. FailMove(t)
    BY <1>7 DEF LoadFails, FailMove
  <2> QED BY <1>a, <2>1 DEF TableMove
<1>8. CASE Release(t)
  <2>1. SameLoaders
    BY <1>8 DEF Release
  <2>2. CASE Errno[res[t]] = -1
    BY <1>8, <1>a, <2>1, <2>2 DEF Release, TableMove, CloseMove
  <2>3. CASE Errno[res[t]] # -1
    BY <1>8, <2>1, <2>3 DEF Release, TableMove, StillMove
  <2> QED BY <2>2, <2>3
<1> QED BY <1>1, <1>4, <1>5, <1>6, <1>7, <1>8

\* Every step is one of the moves.
LEMMA TableMoves ==
  ASSUME TypeInv, [Next]_vars
  PROVE  TableMove
<1>1. ASSUME NEW r \in Resources, CloseIdle(r)
      PROVE  TableMove
  <2>1. CloseMove(r)
    BY <1>1 DEF CloseIdle, CloseMove, SameLoaders
  <2> QED BY <2>1 DEF TableMove
<1>2. CASE UNCHANGED vars
  BY <1>2 DEF vars, svcVars, connVars, TableMove, StillMove, SameLoaders
<1> QED BY <1>1, <1>2, StillSteps, TableSteps DEF Next, Step, TableMove
-----------------------------------------------------------------------------
(* The moves keep the invariants. *)

LEMMA LoadsStep ==
  ASSUME TableInv, TableMove
  PROVE  /\ OneLoads'
         /\ MarkedIsLoaded /\ NoneRefused => MarkedIsLoaded'
<1> USE ResourceFacts DEF TableInv, TypeInv, TypeOK, SvcTypes, ThreadTypes, OneLoads, LoadsFor
<1>a. \A t \in Threads : pc[t] \in Holding => PathOf(res[t]) \in Paths
  BY HeldConn
<1>b. \A t \in Threads : pc[t] = "load" => PathOf(res[t]) \in Paths
  BY <1>a DEF Holding
<1>1. CASE StillMove
  BY <1>1, <1>b DEF StillMove, SameLoaders, MarkedIsLoaded
<1>2. CASE \E t \in Threads : ForgetMove(res[t]) \/ UseMove(res[t])
  BY <1>2, <1>b DEF ForgetMove, UseMove, SameLoaders, MarkedIsLoaded
<1>3. ASSUME NEW r \in Resources, CloseMove(r)
      PROVE  /\ OneLoads'
             /\ MarkedIsLoaded /\ NoneRefused => MarkedIsLoaded'
  <2> DEFINE p == PathOf(r)
  <2>1. p \in Paths
    OBVIOUS
  <2>2. attached[r] => srvn[p] # -1
    <3>1. attached[r] => r \in Users(p)
      BY DEF Users
    <3>2. srvn[p] = -1 => Cardinality(Users(p)) <= 0
      BY <2>1 DEF TableOutlivesUse
    <3>3. r \in Users(p) => Cardinality(Users(p)) > 0 /\ Cardinality(Users(p)) \in Nat
      BY <2>1, UsersFacts, UsersOf
    <3> QED BY <3>1, <3>2, <3>3
  <2>3. srvn' = srvn \/ (srvn[p] # -1 /\ srvn' = [srvn EXCEPT ![p] = 0])
    BY <1>3, <2>2 DEF CloseMove, disconnect, svcVars
  <2>4. SameLoaders
    BY <1>3 DEF CloseMove
  <2> QED BY <1>b, <2>1, <2>3, <2>4 DEF SameLoaders, MarkedIsLoaded
<1>4. ASSUME NEW t \in Threads, pc[t] \in Holding, StartMove(t)
      PROVE  /\ OneLoads'
             /\ MarkedIsLoaded /\ NoneRefused => MarkedIsLoaded'
  BY <1>a, <1>b, <1>4 DEF StartMove, OnlyLoads, MarkedIsLoaded
<1>5. ASSUME NEW t \in Threads, PublishMove(t)
      PROVE  /\ OneLoads'
             /\ MarkedIsLoaded /\ NoneRefused => MarkedIsLoaded'
  BY <1>b, <1>5 DEF PublishMove, OnlyLoads, MarkedIsLoaded
<1>6. ASSUME NEW t \in Threads, FailMove(t)
      PROVE  /\ OneLoads'
             /\ MarkedIsLoaded /\ NoneRefused => MarkedIsLoaded'
  BY <1>b, <1>6 DEF FailMove, OnlyLoads, MarkedIsLoaded, NoneRefused
<1> QED BY <1>1, <1>2, <1>3, <1>4, <1>5, <1>6 DEF TableMove

\* What a step does to the number of users of a table, to its mark and to usage:
\* nothing, or a share is forgotten by Connect, taken by UseTable, given back by
\* disconnect, the table begins or fails to be loaded, or it gets its first user.
Forgets == \E t \in Threads : pc[t] \in Unshared /\ attached[res[t]]
Same(p, n, m) == srvn'[p] = srvn[p] /\ usage'[p] = usage[p] /\ m = n
Forgotten(p, n, m) == srvn'[p] = srvn[p] /\ usage'[p] = usage[p] /\ m <= n /\ Forgets
Used(p, n, m) ==
  /\ srvn[p] > 0 /\ srvn'[p] = srvn[p] /\ usage'[p] = usage[p] + 1
  /\ m = n + 1 \/ (m = n /\ Forgets)
Closed(p, n, m) ==
  /\ n > 0 /\ m = n - 1
  /\ IF usage[p] > 0 THEN srvn'[p] = srvn[p] /\ usage'[p] = usage[p] - 1
                     ELSE srvn'[p] = 0
NoTable(p, n, m) == srvn[p] <= 0 /\ srvn'[p] <= 0 /\ m = n
First(p, n, m) == n = 0 /\ m = 1 /\ srvn'[p] = 1 /\ usage'[p] = 0
UserMove(p, n, m) ==
  Same(p, n, m) \/ Forgotten(p, n, m) \/ Used(p, n, m) \/ Closed(p, n, m) \/ NoTable(p, n, m)
  \/ First(p, n, m)

LEMMA UserMoves ==
  ASSUME TableInv, TypeInv', TableMove, NEW p \in Paths
  PROVE  /\ Cardinality(Users(p)) \in Nat /\ Cardinality(Users(p)') \in Nat
         /\ UserMove(p, Cardinality(Users(p)), Cardinality(Users(p)'))
<1> DEFINE n == Cardinality(Users(p))
           m == Cardinality(Users(p)')
<1> SUFFICES n \in Nat /\ m \in Nat /\ UserMove(p, n, m)
  OBVIOUS
<1> USE DEF Forgets, Same, Forgotten, Used, Closed, NoTable, First
<1> USE DEF TableInv, TypeInv, TypeOK, SvcTypes, ConnTypes
<1>a. n <= IF srvn[p] > 0 THEN usage[p] + 1 ELSE 0
  BY DEF TableOutlivesUse
<1>b. /\ Users(p) \in SUBSET {r \in Resources : PathOf(r) = p}
      /\ n \in Nat
      /\ srvn[p] \in {-1, 0, 1} /\ usage[p] \in Nat \cup {-1}
  BY UsersFacts
<1>c. m \in Nat
  <2>1. Users(p)' \in SUBSET {r \in Resources : PathOf(r) = p}
    BY DEF Users
  <2> QED BY <2>1, UsersOf
<1>d. \A t \in Threads : pc[t] \in Holding \cup Unshared =>
        res[t] \in Resources /\ PathOf(res[t]) \in Paths
  BY HeldConn DEF Holding, Unshared, Connecting
<1>e. Users(p)' = Users(p) => m = n
  OBVIOUS
<1> HIDE DEF n, m
<1>1. CASE UNCHANGED <<srvn, usage, attached>>
  <2>1. Users(p)' = Users(p)
    BY <1>1 DEF Users
  <2>2. Same(p, n, m)
    BY <1>1, <1>e, <2>1
  <2> QED BY <1>b, <1>c, <2>2 DEF UserMove
<1>2. ASSUME NEW t \in Threads, pc[t] \in Unshared, ForgetMove(res[t])
      PROVE  Same(p, n, m) \/ Forgotten(p, n, m)
  <2>1. srvn' = srvn /\ usage' = usage /\ Users(p)' = Users(p) \ {res[t]}
    BY <1>2 DEF ForgetMove, Users
  <2>2. CASE res[t] \in Users(p)
    <3>1. m = n - 1
      BY <1>b, <2>1, <2>2, UsersOf DEF n, m
    <3>2. attached[res[t]]
      BY <2>2 DEF Users
    <3> QED BY <1>2, <1>b, <2>1, <3>1, <3>2
  <2>3. CASE res[t] \notin Users(p)
    BY <1>e, <2>1, <2>3
  <2> QED BY <2>2, <2>3
<1>3. ASSUME NEW t \in Threads, pc[t] \in Unshared, UseMove(res[t])
      PROVE  Same(p, n, m) \/ Used(p, n, m)
  <2> DEFINE r == res[t]
  <2>1. r \in Resources /\ PathOf(r) \in Paths
    BY <1>3, <1>d
  <2>2. CASE PathOf(r) = p
    <3>1. Users(p)' = Users(p) \cup {r}
      BY <1>3, <2>1, <2>2 DEF UseMove, Users
    <3>2. srvn'[p] = srvn[p] /\ srvn[p] > 0 /\ usage'[p] = usage[p] + 1
      BY <1>3, <2>2 DEF UseMove
    <3>3. CASE attached[r]
      <4>1. Users(p)' = Users(p)
        BY <2>1, <2>2, <3>1, <3>3 DEF Users
      <4> QED BY <1>3, <1>e, <3>2, <3>3, <4>1
    <3>4. CASE ~attached[r]
      <4>1. r \notin Users(p)
        BY <3>4 DEF Users
      <4>2. Cardinality(Users(p) \cup {r}) = n + 1
        BY <1>b, <4>1, UsersOf, FS_AddElement DEF n
      <4>3. m = n + 1
        BY <3>1, <4>2 DEF m
      <4> QED BY <3>2, <4>3
    <3> QED BY <3>3, <3>4
  <2>3. CASE PathOf(r) # p
    <3>1. Users(p)' = Users(p)
      BY <1>3, <2>3 DEF UseMove, Users
    <3>2. srvn'[p] = srvn[p] /\ usage'[p] = usage[p]
      BY <1>3, <2>1, <2>3 DEF UseMove
    <3> QED BY <1>e, <3>1, <3>2
  <2> QED BY <2>2, <2>3
<1>4. ASSUME NEW r \in Resources, CloseMove(r)
      PROVE  Same(p, n, m) \/ Closed(p, n, m)
  <2>1. Users(p)' = Users(p) \ {r}
    BY <1>4 DEF CloseMove, disconnect, Users
  <2>2. CASE PathOf(r) = p /\ attached[r]
    <3>1. r \in Users(p)
      BY <2>2 DEF Users
    <3>2. m = n - 1 /\ n > 0
      BY <1>b, <2>1, <3>1, UsersOf DEF n, m
    <3>3. CASE usage[p] > 0
      BY <1>4, <2>2, <3>2, <3>3 DEF CloseMove, disconnect
    <3>4. CASE ~(usage[p] > 0)
      BY <1>4, <2>2, <3>2, <3>4 DEF CloseMove, disconnect
    <3> QED BY <3>3, <3>4
  <2>3. CASE ~(PathOf(r) = p /\ attached[r])
    <3>1. r \notin Users(p)
      BY <2>3 DEF Users
    <3>2. srvn'[p] = srvn[p] /\ usage'[p] = usage[p]
      BY <1>4, <2>3 DEF CloseMove, disconnect, svcVars
    <3> QED BY <1>e, <2>1, <3>1, <3>2
  <2> QED BY <2>2, <2>3
<1>5. ASSUME NEW t \in Threads, StartMove(t)
      PROVE  Same(p, n, m) \/ NoTable(p, n, m)
  <2>1. Users(p)' = Users(p)
    BY <1>5 DEF StartMove, Users
  <2>2. usage'[p] = usage[p] /\ (srvn'[p] = srvn[p] \/ (srvn[p] = 0 /\ srvn'[p] = -1))
    BY <1>5 DEF StartMove
  <2> QED BY <1>e, <2>1, <2>2
<1>6. ASSUME NEW t \in Threads, pc[t] \in Holding, PublishMove(t)
      PROVE  Same(p, n, m) \/ First(p, n, m)
  <2>1. res[t] \in Resources /\ PathOf(res[t]) \in Paths
    BY <1>6, <1>d
  <2>2. CASE PathOf(res[t]) = p
    <3>1. n = 0
      <4>1. srvn[p] = -1
        BY <1>6, <2>2 DEF PublishMove, OneLoads
      <4> QED BY <1>a, <1>b, <4>1
    <3>2. Users(p) = {}
      BY <1>b, <3>1, UsersOf DEF n
    <3>3. Users(p)' = {res[t]}
      BY <1>6, <2>1, <2>2, <3>2 DEF PublishMove, Users
    <3>4. srvn'[p] = 1 /\ usage'[p] = 0
      BY <1>6, <2>2 DEF PublishMove
    <3>5. m = 1
      BY <3>3, FS_Singleton DEF m
    <3> QED BY <3>1, <3>4, <3>5
  <2>3. CASE PathOf(res[t]) # p
    <3>1. Users(p)' = Users(p)
      BY <1>6, <2>3 DEF PublishMove, Users
    <3>2. srvn'[p] = srvn[p] /\ usage'[p] = usage[p]
      BY <1>6, <2>1, <2>3 DEF PublishMove
    <3> QED BY <1>e, <3>1, <3>2
  <2> QED BY <2>2, <2>3
<1>7. ASSUME NEW t \in Threads, pc[t] \in Holding, FailMove(t)
      PROVE  Same(p, n, m) \/ NoTable(p, n, m)
  <2>1. PathOf(res[t]) \in Paths /\ srvn[PathOf(res[t])] = -1
    BY <1>7, <1>d DEF FailMove, OneLoads
  <2>2. Users(p)' = Users(p)
    BY <1>7 DEF FailMove, Users
  <2>3. \/ srvn'[p] = srvn[p] /\ usage'[p] = usage[p]
        \/ srvn[p] = -1 /\ srvn'[p] = 0
    BY <1>7, <2>1 DEF FailMove
  <2> QED BY <1>e, <2>2, <2>3
<1> HIDE DEF Forgets, Same, Forgotten, Used, Closed, NoTable, First
<1> QED BY <1>b, <1>c, <1>1, <1>2, <1>3, <1>4, <1>5, <1>6, <1>7
      DEF TableMove, StillMove, UserMove

LEMMA UsesStep ==
  ASSUME TableInv, TypeInv', TableMove
  PROVE  TableOutlivesUse'
<1> SUFFICES ASSUME NEW p \in Paths
             PROVE  Cardinality(Users(p)') <= IF srvn'[p] > 0 THEN usage'[p] + 1 ELSE 0
  BY DEF TableOutlivesUse
<1>1. Cardinality(Users(p)) <= IF srvn[p] > 0 THEN usage[p] + 1 ELSE 0
  BY DEF TableInv, TableOutlivesUse
<1>2. /\ srvn[p] \in {-1, 0, 1} /\ usage[p] \in Nat \cup {-1}
      /\ srvn'[p] \in {-1, 0, 1} /\ usage'[p] \in Nat \cup {-1}
  BY UsersFacts DEF TableInv, TypeInv, TypeOK, SvcTypes
<1> DEFINE n == Cardinality(Users(p))
           m == Cardinality(Users(p)')
<1>3. n \in Nat /\ m \in Nat /\ UserMove(p, n, m)
  BY UserMoves
<1> HIDE DEF n, m
<1>4. m <= IF srvn'[p] > 0 THEN usage'[p] + 1 ELSE 0
  BY <1>1, <1>2, <1>3 DEF n, UserMove, Same, Forgotten, Used, Closed, NoTable, First
<1> QED BY <1>4 DEF m

LEMMA TableInit == Init => TableInv /\ MarkedIsLoaded
<1> SUFFICES ASSUME Init PROVE TableInv /\ MarkedIsLoaded
  OBVIOUS
<1>1. \A p \in Paths : Users(p) = {}
  BY DEF Init, Users
<1>2. TableOutlivesUse
  <2>1. Cardinality({}) = 0
    BY FS_EmptySet
  <2>2. \A p \in Paths : Cardinality(Users(p)) = 0
    BY <1>1, <2>1
  <2>3. \A p \in Paths : srvn[p] = 0
    BY DEF Init
  <2> QED BY <2>2, <2>3 DEF TableOutlivesUse
<1> QED BY <1>2, TypeInit DEF Init, TableInv, OneLoads, LoadsFor, MarkedIsLoaded

LEMMA TableStep ==
  /\ TableInv /\ [Next]_vars => TableInv'
  /\ TableInv /\ MarkedIsLoaded /\ NoneRefused /\ [Next]_vars => MarkedIsLoaded'
<1>1. ASSUME TableInv, [Next]_vars
      PROVE  TypeInv' /\ TableMove
  BY <1>1, TypeStep, TableMoves DEF TableInv
<1> QED BY <1>1, LoadsStep, UsesStep DEF TableInv
-----------------------------------------------------------------------------
\* The service table is not freed under a connection that uses it, whatever
\* fails and whatever negative codes the applications leave (getsvc.c:92-105).
THEOREM TableKept == Spec => []TableOutlivesUse
<1>1. TableInv => TableOutlivesUse
  BY DEF TableInv
<1> QED BY <1>1, TableInit, TableStep, PTL DEF Spec

\* A table that is marked as being loaded has one loader, so that those who spin
\* for it with pl->mut locked are let go (scpool.c:424-440).
THEOREM LoadingManned == NoneRefused /\ Spec => []LoadingHasLoader
<1> SUFFICES ASSUME NoneRefused PROVE Spec => []LoadingHasLoader
  OBVIOUS
<1> DEFINE I == TableInv /\ MarkedIsLoaded
<1>1. Init => I
  BY TableInit
<1>2. I /\ [Next]_vars => I'
  BY TableStep
<1>3. I => LoadingHasLoader
  <2> SUFFICES ASSUME I, NEW p \in Paths
               PROVE  Cardinality(Loaders(p)) = IF srvn[p] < 0 THEN 1 ELSE 0
    BY DEF LoadingHasLoader
  <2>1. CASE srvn[p] < 0
    <3>1. PICK t \in Threads : LoadsFor(t, p)
      BY <2>1 DEF MarkedIsLoaded
    <3>2. Loaders(p) = {t}
      BY <3>1 DEF Loaders, LoadsFor, TableInv, OneLoads
    <3> QED BY <2>1, <3>2, FS_Singleton
  <2>2. CASE ~(srvn[p] < 0)
    <3>1. Loaders(p) = {}
      BY <2>2 DEF Loaders, TableInv, OneLoads
    <3> QED BY <2>2, <3>1, FS_EmptySet
  <2> QED BY <2>1, <2>2
<1> QED BY <1>1, <1>2, <1>3, PTL DEF Spec
-----------------------------------------------------------------------------
(* Nobody else counts as a user. *)

\* Applications leave no negative code but the one that closes the connection;
\* another makes it be connected again with its share not given back
\* (scpool.c:469, 645).
OnlyClosing == AppErrors \subseteq {-1}

\* A connection that is or will be connected has no share of the table, neither
\* has one without a socket; a marked one that has a share is with the thread
\* that has just got it, or that uses it.
Sharing == {"build", "relock", "use"}

\* Nor has a connection a socket that is open when it is to be connected again; a
\* marked one that has is with a thread between Net_Connect and the end of sc_connect,
\* or with the one that uses it.
Live == {"open", "broken"}
Socketless == {"connect", "failed", "refill"}
Marking == {"service", "spin", "load"} \cup Sharing

SharesHeld ==
  /\ \A t \in Threads : pc[t] \in Unshared => ~attached[res[t]]
  /\ \A t \in Threads : pc[t] \in Connecting => sock[res[t]] # "none"
  /\ \A r \in Resources : sock[r] = "none" => ~attached[r]
  /\ \A r \in Resources : Errno[r] # 0 /\ attached[r]
                            => \E t \in Threads : pc[t] \in Sharing /\ res[t] = r
  /\ \A r \in Resources : Errno[r] # -2
  /\ \A t \in Threads : pc[t] \in Socketless => sock[res[t]] \notin Live
  /\ \A r \in Resources : Errno[r] # 0 /\ sock[r] \in Live
                            => \E t \in Threads : pc[t] \in Marking /\ res[t] = r

CountInv == TableInv /\ Exclusive /\ SharesHeld /\ UsageCounts

\* Threads but t stay where they are, or are woken.
Others(t) == \A u \in Threads : u # t =>
  \/ pc'[u] = pc[u] /\ res'[u] = res[u]
  \/ pc[u] \notin Holding /\ pc'[u] \notin Holding

\* A thread whose step does to its own connection what keeps SharesHeld.
Keeps(t, r) ==
  /\ \A s \in Resources : s # r =>
       sock'[s] = sock[s] /\ Errno'[s] = Errno[s] /\ attached'[s] = attached[s]
  /\ Others(t)
  /\ pc'[t] \in Unshared => res'[t] = r /\ ~attached'[r]
  /\ pc'[t] \in Connecting => sock'[r] # "none"
  /\ sock'[r] = "none" => ~attached'[r]
  /\ Errno'[r] # 0 /\ attached'[r] => pc'[t] \in Sharing /\ res'[t] = r
  /\ Errno'[r] # -2
  /\ pc'[t] \in Socketless => res'[t] = r /\ sock'[r] \notin Live
  /\ Errno'[r] # 0 /\ sock'[r] \in Live => pc'[t] \in Marking /\ res'[t] = r

\* A connection is held by one thread.
LEMMA Alone ==
  ASSUME TypeInv, Exclusive, NEW t \in Threads, pc[t] \in Holding
  PROVE  /\ res[t] \in Resources /\ PathOf(res[t]) \in Paths /\ ~InQueue(res[t])
         /\ \A u \in Threads : u # t => res[u] # res[t]
BY HeldConn, ResourceFacts DEF TypeInv, TypeOK, Exclusive, HeldOnce

LEMMA KeepsShares ==
  ASSUME TypeInv, TypeInv', Exclusive, SharesHeld, NEW t \in Threads, pc[t] \in Holding,
         Keeps(t, res[t])
  PROVE  SharesHeld'
<1> DEFINE r == res[t]
<1> USE DEF Keeps, Others, SharesHeld
<1>a. /\ r \in Resources
      /\ \A u \in Threads : u # t => res[u] # r
  BY Alone
<1>b. \A u \in Threads : pc[u] \in Holding => res[u] \in Resources
  BY HeldConn DEF TypeInv, TypeOK
<1>c. /\ Unshared \subseteq Holding /\ Connecting \subseteq Unshared /\ Sharing \subseteq Holding
      /\ Socketless \subseteq Holding /\ Marking \subseteq Holding
  BY DEF Unshared, Connecting, Sharing, Socketless, Marking, Holding
<1>d. \A u \in Threads : u # t /\ pc'[u] \in Holding =>
        /\ pc'[u] = pc[u] /\ res'[u] = res[u] /\ res[u] \in Resources /\ res[u] # r
        /\ sock'[res[u]] = sock[res[u]] /\ attached'[res[u]] = attached[res[u]]
  BY <1>a, <1>b
<1>1. ASSUME NEW u \in Threads, pc'[u] \in Unshared
      PROVE  /\ ~attached'[res'[u]]
             /\ pc'[u] \in Connecting => sock'[res'[u]] # "none"
  <2>1. CASE u = t
    BY <1>1, <2>1
  <2>2. CASE u # t
    BY <1>1, <1>c, <1>d, <2>2
  <2> QED BY <2>1, <2>2
<1>2. ASSUME NEW s \in Resources
      PROVE  /\ sock'[s] = "none" => ~attached'[s]
             /\ Errno'[s] # -2
  BY <1>2
<1>3. ASSUME NEW s \in Resources, Errno'[s] # 0, attached'[s]
      PROVE  \E u \in Threads : pc'[u] \in Sharing /\ res'[u] = s
  <2>1. CASE s = r
    BY <1>3, <2>1
  <2>2. CASE s # r
    <3>1. PICK u \in Threads : pc[u] \in Sharing /\ res[u] = s
      BY <1>3, <2>2
    <3>2. u # t
      BY <2>2, <3>1
    <3>3. pc'[u] = pc[u] /\ res'[u] = res[u]
      BY <1>c, <3>1, <3>2
    <3> QED BY <3>1, <3>3
  <2> QED BY <2>1, <2>2
<1>4. ASSUME NEW u \in Threads, pc'[u] \in Socketless
      PROVE  sock'[res'[u]] \notin Live
  <2>1. CASE u = t
    BY <1>4, <2>1
  <2>2. CASE u # t
    BY <1>4, <1>c, <1>d, <2>2
  <2> QED BY <2>1, <2>2
<1>5. ASSUME NEW s \in Resources, Errno'[s] # 0, sock'[s] \in Live
      PROVE  \E u \in Threads : pc'[u] \in Marking /\ res'[u] = s
  <2>1. CASE s = r
    BY <1>5, <2>1
  <2>2. CASE s # r
    <3>1. PICK u \in Threads : pc[u] \in Marking /\ res[u] = s
      BY <1>5, <2>2
    <3>2. u # t
      BY <2>2, <3>1
    <3>3. pc'[u] = pc[u] /\ res'[u] = res[u]
      BY <1>c, <3>1, <3>2
    <3> QED BY <3>1, <3>3
  <2> QED BY <2>1, <2>2
<1> QED BY <1>1, <1>2, <1>3, <1>4, <1>5, <1>c

\* Steps that leave the connections alone, and no thread has or gets a share by.
Untouched ==
  /\ UNCHANGED connVars
  /\ \A u \in Threads : \/ pc'[u] = pc[u] /\ res'[u] = res[u]
                        \/ pc[u] \notin Marking /\ pc'[u] \notin Unshared \cup Socketless

LEMMA UntouchedShares ==
  ASSUME SharesHeld, Untouched
  PROVE  SharesHeld'
<1> USE DEF SharesHeld, Untouched, connVars
<1>1. ASSUME NEW u \in Threads, pc'[u] \in Unshared
      PROVE  /\ ~attached'[res'[u]]
             /\ pc'[u] \in Connecting => sock'[res'[u]] # "none"
  BY <1>1
<1>2. ASSUME NEW s \in Resources, Errno'[s] # 0, attached'[s]
      PROVE  \E u \in Threads : pc'[u] \in Sharing /\ res'[u] = s
  <2>1. PICK u \in Threads : pc[u] \in Sharing /\ res[u] = s
    BY <1>2
  <2> QED BY <2>1 DEF Marking
<1>3. Connecting \subseteq Unshared
  BY DEF Unshared
<1>4. ASSUME NEW u \in Threads, pc'[u] \in Socketless
      PROVE  sock'[res'[u]] \notin Live
  BY <1>4
<1>5. ASSUME NEW s \in Resources, Errno'[s] # 0, sock'[s] \in Live
      PROVE  \E u \in Threads : pc'[u] \in Marking /\ res'[u] = s
  <2>1. PICK u \in Threads : pc[u] \in Marking /\ res[u] = s
    BY <1>5
  <2> QED BY <2>1
<1> QED BY <1>1, <1>2, <1>3, <1>4, <1>5

LEMMA UntouchedSteps ==
  ASSUME TypeInv, NEW t \in Threads,
         \/ LockWeight(t) \/ ScanPath(t) \/ ProbePath(t) \/ GiveUp(t) \/ WaitWeight(t)
         \/ WaitTimeout(t) \/ Take(t) \/ TakeNothing(t) \/ FailBack(t) \/ Recover(t)
         \/ SignalConnected(t) \/ SignalReleased(t) \/ SpuriousWakeup(t)
         \/ \E p \in Paths, f \in PathFlags : CallPath(t, p, f)
         \/ \E f \in PoolFlags : CallPool(t, f)
  PROVE  Untouched
<1> USE DEF Untouched, Goto, At, TypeInv, TypeOK, ThreadTypes, connVars, Unshared, Connecting, Sharing,
        Socketless, Marking
<1>1. CASE LockWeight(t) \/ ScanPath(t) \/ ProbePath(t) \/ GiveUp(t) \/ WaitWeight(t) \/ WaitTimeout(t)
  BY <1>1 DEF LockWeight, ScanPath, ProbePath, GiveUp, WaitWeight, WaitTimeout
<1>2. CASE Take(t) \/ TakeNothing(t) \/ FailBack(t) \/ Recover(t)
  BY <1>2 DEF Take, TakeNothing, FailBack, Recover, NextPath
<1>3. ASSUME NEW W \in SUBSET (WeightWaiters \cup {u \in Threads : pc[u] = "condwait"}), NEW l,
             l \notin Unshared \cup Socketless, pc[t] \notin Marking, SignalAndGoto(t, W, l), UNCHANGED <<connVars, res>>
      PROVE  Untouched
  BY <1>3 DEF SignalAndGoto, WeightWaiters, Woken
<1>4. CASE SignalConnected(t)
  <2>1. PICK W \in OneOf(WeightWaiters) : SignalAndGoto(t, W, "ready")
    BY <1>4 DEF SignalConnected
  <2>2. W \in SUBSET (WeightWaiters \cup {u \in Threads : pc[u] = "condwait"})
    BY DEF OneOf
  <2>3. pc[t] = "signal" /\ UNCHANGED <<connVars, res>>
    BY <1>4 DEF SignalConnected
  <2> QED BY <1>3, <2>1, <2>2, <2>3
<1>5. CASE SignalReleased(t)
  <2>1. PICK W \in OneOf(CondWaiters(PathOf(given[t]))), V \in OneOf(WeightWaiters) :
          SignalAndGoto(t, W \cup V, "clear")
    BY <1>5 DEF SignalReleased
  <2>2. W \cup V \in SUBSET (WeightWaiters \cup {u \in Threads : pc[u] = "condwait"})
    BY DEF OneOf, CondWaiters
  <2>3. pc[t] = "released" /\ UNCHANGED <<connVars, res>>
    BY <1>5 DEF SignalReleased
  <2> QED BY <1>3, <2>1, <2>2, <2>3
<1>6. CASE SpuriousWakeup(t)
  BY <1>6 DEF SpuriousWakeup, Woken
<1>7. CASE \/ \E p \in Paths, f \in PathFlags : CallPath(t, p, f)
           \/ \E f \in PoolFlags : CallPool(t, f)
  BY <1>7 DEF CallPath, CallPool, Outside
<1> QED BY <1>1, <1>2, <1>4, <1>5, <1>6, <1>7

LEMMA KeepingSteps ==
  ASSUME TypeInv, TypeInv', Exclusive, SharesHeld, OnlyClosing, NEW t \in Threads,
         \/ CheckConn(t) \/ Connect(t) \/ CheckTable(t) \/ SpinEnds(t) \/ LoadPublish(t)
         \/ LoadFails(t) \/ LoadBuild(t) \/ Relock(t) \/ Ready(t) \/ CallFails(t) \/ Release(t)
  PROVE  pc[t] \in Holding /\ Keeps(t, res[t])
<1> DEFINE r == res[t]
<1> USE DEF Goto, At, TypeInv, TypeOK, ThreadTypes, ConnTypes, connVars, Holding
<1>a. pc[t] \in Holding
  BY DEF CheckConn, Connect, CheckTable, SpinEnds, LoadPublish, LoadFails, LoadBuild, Relock,
         Ready, CallFails, Release
<1>b. r \in Resources /\ \A u \in Threads : u # t => res[u] # r
  BY <1>a, Alone
<1>c. /\ sock[r] = "none" => ~attached[r]
      /\ pc[t] \notin Sharing => Errno[r] = 0 \/ ~attached[r]
      /\ Errno[r] # -2
      /\ pc[t] \notin Marking => Errno[r] = 0 \/ sock[r] \notin Live
  BY <1>b DEF SharesHeld
<1>d. /\ pc[t] \in Unshared => ~attached[r]
      /\ pc[t] \in Connecting => sock[r] # "none"
      /\ pc[t] \in Socketless => sock[r] \notin Live
  BY DEF SharesHeld
<1> USE DEF Keeps, Others, Unshared, Connecting, Sharing, Socketless, Marking, Live
<1>1. CASE CheckConn(t)
  BY <1>1, <1>b, <1>c DEF CheckConn
<1>2. CASE Connect(t)
  BY <1>2, <1>b, <1>c DEF Connect
<1>3. CASE CheckTable(t)
  BY <1>3, <1>b, <1>c, <1>d DEF CheckTable, UseTable, StartLoad
<1>4. CASE SpinEnds(t)
  BY <1>4, <1>b, <1>c, <1>d DEF SpinEnds, UseTable, StartLoad
<1>5. CASE LoadPublish(t)
  BY <1>5, <1>b, <1>c, <1>d DEF LoadPublish
<1>6. CASE LoadFails(t)
  BY <1>6, <1>b, <1>c, <1>d DEF LoadFails
<1>7. CASE LoadBuild(t)
  BY <1>7, <1>b, <1>c, <1>d DEF LoadBuild
<1>8. CASE Relock(t)
  BY <1>8, <1>b, <1>c, <1>d DEF Relock
<1>9. CASE Ready(t)
  BY <1>9, <1>b, <1>c, <1>d DEF Ready
<1>10. CASE CallFails(t)
  BY <1>10, <1>b, <1>c, <1>d DEF CallFails, OnlyClosing
<1>11. CASE Release(t)
  BY <1>11, <1>b, <1>c, <1>d DEF Release, disconnect
<1> QED BY <1>a, <1>1, <1>2, <1>3, <1>4, <1>5, <1>6, <1>7, <1>8, <1>9, <1>10, <1>11

LEMMA ClearShares ==
  ASSUME TypeInv, SharesHeld, NEW t \in Threads, ClearErrno(t)
  PROVE  SharesHeld'
<1> USE DEF SharesHeld, ClearErrno, Goto, At, TypeInv, TypeOK, ThreadTypes, ConnTypes
<1>1. /\ UNCHANGED <<sock, attached, res>>
      /\ \A s \in Resources : Errno'[s] = Errno[s] \/ Errno'[s] = 0
      /\ pc' = [pc EXCEPT ![t] = "idle"] /\ pc[t] = "clear"
  OBVIOUS
<1>2. ASSUME NEW s \in Resources, Errno'[s] # 0, attached'[s]
      PROVE  \E u \in Threads : pc'[u] \in Sharing /\ res'[u] = s
  <2>1. PICK u \in Threads : pc[u] \in Sharing /\ res[u] = s
    BY <1>1, <1>2
  <2> QED BY <1>1, <2>1 DEF Sharing
<1>3. ASSUME NEW s \in Resources, Errno'[s] # 0, sock'[s] \in Live
      PROVE  \E u \in Threads : pc'[u] \in Marking /\ res'[u] = s
  <2>1. PICK u \in Threads : pc[u] \in Marking /\ res[u] = s
    BY <1>1, <1>3
  <2> QED BY <1>1, <2>1 DEF Marking, Sharing
<1> QED BY <1>1, <1>2, <1>3 DEF Unshared, Connecting, Socketless

LEMMA CloseShares ==
  ASSUME TypeInv, Exclusive, SharesHeld, NEW r \in Resources, CloseIdle(r)
  PROVE  SharesHeld'
<1>1. /\ sock' = [sock EXCEPT ![r] = "none"] /\ attached' = [attached EXCEPT ![r] = FALSE]
      /\ UNCHANGED <<Errno, pc, res>> /\ InQueue(r)
  BY DEF CloseIdle, disconnect
<1>2. \A u \in Threads : pc[u] \in Holding => res[u] # r /\ res[u] \in Resources
  BY <1>1, Alone
<1>3. Unshared \subseteq Holding /\ Connecting \subseteq Unshared /\ Socketless \subseteq Holding
  BY DEF Unshared, Connecting, Socketless, Holding
<1>4. "none" \notin Live
  BY DEF Live
<1> QED BY <1>1, <1>2, <1>3, <1>4 DEF SharesHeld, TypeInv, TypeOK, ConnTypes

LEMMA SharesStep ==
  ASSUME TypeInv, TypeInv', Exclusive, SharesHeld, OnlyClosing, [Next]_vars
  PROVE  SharesHeld'
<1>1. CASE UNCHANGED vars
  <2>1. Untouched
    BY <1>1 DEF vars, connVars, Untouched
  <2> QED BY <2>1, UntouchedShares
<1>2. CASE Next
  BY <1>2, UntouchedSteps, UntouchedShares, KeepingSteps, KeepsShares, ClearShares, CloseShares
     DEF Next, Step
<1> QED BY <1>1, <1>2

LEMMA CountStep ==
  ASSUME CountInv, TypeInv', TableMove
  PROVE  UsageCounts'
<1> SUFFICES ASSUME NEW p \in Paths
             PROVE  Cardinality(Users(p)') = IF srvn'[p] > 0 THEN usage'[p] + 1 ELSE 0
  BY DEF UsageCounts
<1>1. Cardinality(Users(p)) = IF srvn[p] > 0 THEN usage[p] + 1 ELSE 0
  BY DEF CountInv, UsageCounts
<1>2. /\ srvn[p] \in {-1, 0, 1} /\ usage[p] \in Nat \cup {-1}
      /\ srvn'[p] \in {-1, 0, 1} /\ usage'[p] \in Nat \cup {-1}
  BY UsersFacts DEF CountInv, TableInv, TypeInv, TypeOK, SvcTypes
<1>3. ~Forgets
  BY DEF Forgets, CountInv, SharesHeld
<1> DEFINE n == Cardinality(Users(p))
           m == Cardinality(Users(p)')
<1>4. n \in Nat /\ m \in Nat /\ UserMove(p, n, m)
  BY UserMoves DEF CountInv
<1> HIDE DEF n, m
<1>5. m = IF srvn'[p] > 0 THEN usage'[p] + 1 ELSE 0
  BY <1>1, <1>2, <1>3, <1>4
     DEF n, UserMove, Same, Forgotten, Used, Closed, NoTable, First
<1> QED BY <1>5 DEF m

LEMMA CountKept ==
  ASSUME OnlyClosing
  PROVE  /\ Init => CountInv
         /\ CountInv /\ [Next]_vars => CountInv'
<1>1. Init => CountInv
  <2> SUFFICES ASSUME Init PROVE CountInv
    OBVIOUS
  <2>1. SharesHeld
    BY DEF Init, SharesHeld, Unshared, Connecting, Socketless, Live
  <2>2. \A p \in Paths : Users(p) = {} /\ srvn[p] = 0
    BY DEF Init, Users
  <2>3. UsageCounts
    BY <2>2, FS_EmptySet DEF UsageCounts
  <2> QED BY <2>1, <2>3, TableInit, ExclusiveInit DEF CountInv, TableInv
<1>2. CountInv /\ [Next]_vars => CountInv'
  <2> SUFFICES ASSUME CountInv, [Next]_vars PROVE CountInv'
    OBVIOUS
  <2>1. TableInv' /\ TypeInv' /\ TableMove
    BY TableStep, TypeStep, TableMoves DEF CountInv, TableInv
  <2>2. Exclusive' /\ SharesHeld'
    BY <2>1, ExclusiveStep, SharesStep DEF CountInv, TableInv
  <2>3. UsageCounts'
    BY <2>1, CountStep
  <2> QED BY <2>1, <2>2, <2>3 DEF CountInv
<1> QED BY <1>1, <1>2

\* While the applications leave no negative code but -1, usage is exactly one
\* less than the number of connections that use a loaded service table: none is
\* counted twice or forgotten by whatever fails (getsvc.c:92-105, 150-158, scpool.c:430).
THEOREM UsageExact == OnlyClosing /\ Spec => []UsageCounts
<1> SUFFICES ASSUME OnlyClosing PROVE Spec => []UsageCounts
  OBVIOUS
<1>1. CountInv => UsageCounts
  BY DEF CountInv
<1> QED BY <1>1, CountKept, PTL DEF Spec

\* Nor is a socket forgotten: Net_Connect overwrites none that is open, whoever
\* closed the connection, whatever failed and though release_SC_connect clears Errno
\* without a lock (scpool.c:469-474, 645-661).
THEOREM NoneForgotten == OnlyClosing /\ Spec => NoSocketLeak
<1> SUFFICES ASSUME OnlyClosing PROVE Spec => NoSocketLeak
  OBVIOUS
<1>1. CountInv => \A t \in Threads : At(t, "connect") => sock[res[t]] \notin {"open", "broken"}
  BY DEF CountInv, SharesHeld, Socketless, Live, At
<1>2. CountInv /\ [Next]_vars =>
        [\A t \in Threads : At(t, "connect") /\ pc'[t] # "connect"
            => sock[res[t]] \notin {"open", "broken"}]_vars
  BY <1>1
<1> QED BY <1>2, CountKept, PTL DEF Spec, NoSocketLeak
-----------------------------------------------------------------------------
(* A call that waits for ever is not answered with nothing. *)

\* Before a call returns nothing it has looked at all paths.  It has met path p, that
\* cannot fail, as one that is busy and not broken, so it waits on.
Trying == {"get", "check", "connect", "service", "spin", "load", "build", "relock", "failed", "refill"}
LooksAt(t, p) ==
  /\ pc[t] \in {"failed", "refill"} => PathOf(res[t]) # p
  /\ flg[t] = -1 => from[t] # "path" /\ repeat[t] = -1
  /\ pc[t] \in {"null", "bad"} => flg[t] = 0
  /\ pc[t] = "condwait" => from[t] = "path"
  /\ pc[t] = "scan" => from[t] = "scan"
  /\ pc[t] = "probe" => from[t] = "probe"
  /\ from[t] = "probe" /\ pc[t] \in Trying => path[t] # p
  /\ from[t] = "probe" /\ pc[t] \in Trying \cup {"probe"} => path[t] <= p \/ ~bad[t]

StaysUp(p) == TypeInv /\ weight[p] >= 0 /\ \A t \in Threads : LooksAt(t, p)

\* Only t's call goes on; others may be woken.
OthersWait(t) == \A u \in Threads : u # t =>
  /\ UNCHANGED <<from[u], path[u], flg[u], repeat[u], bad[u], res[u]>>
  /\ \/ pc'[u] = pc[u]
     \/ pc[u] = "condwait" /\ pc'[u] = "get"
     \/ pc[u] = "weightwait" /\ pc'[u] = "rescan"

LEMMA OthersLook ==
  ASSUME NEW p \in Paths, NEW t \in Threads, OthersWait(t), \A u \in Threads : LooksAt(u, p), LooksAt(t, p)'
  PROVE  \A u \in Threads : LooksAt(u, p)'
<1> SUFFICES ASSUME NEW u \in Threads, u # t PROVE LooksAt(u, p)'
  OBVIOUS
<1> QED BY DEF OthersWait, LooksAt, Trying

LEMMA WeightTyped == TypeInv => weight \in [Paths -> Nat \cup {-1}]
BY DEF TypeInv, TypeOK, PathTypes

\* What a step of t does to its call and to the weight of p.
LEMMA CallSteps ==
  ASSUME NEW p \in Paths, Faults[p] = {}, StaysUp(p), NEW t \in Threads,
         \/ \E q \in Paths, f \in PathFlags : CallPath(t, q, f)
         \/ \E f \in PoolFlags : CallPool(t, f)
         \/ LockWeight(t) \/ ScanPath(t) \/ ProbePath(t) \/ GiveUp(t) \/ WaitWeight(t)
         \/ WaitTimeout(t) \/ TakeNothing(t) \/ SpuriousWakeup(t)
  PROVE  UNCHANGED weight /\ OthersWait(t) /\ LooksAt(t, p)' /\ (pc'[t] \in {"null", "bad"} => flg[t] # -1)
<1>a. UNCHANGED <<weight, res>>
  BY DEF CallPath, CallPool, LockWeight, ScanPath, ProbePath, GiveUp, WaitWeight, WaitTimeout, TakeNothing,
         SpuriousWakeup, pathVars
<1>b. /\ pc \in [Threads -> Labels] /\ from \in [Threads -> {"path", "scan", "probe"}]
      /\ path \in [Threads -> Nat \ {0}] /\ flg \in [Threads -> Nat \cup {-1}]
      /\ repeat \in [Threads -> Nat \cup {-1}] /\ bad \in [Threads -> BOOLEAN]
      /\ p \in Nat /\ LooksAt(t, p) /\ weight[p] >= 0
  BY PathFacts DEF StaysUp, TypeInv, TypeOK, ThreadTypes, CallTypes
<1> USE DEF OthersWait, LooksAt, Trying, Goto, At, SetCall, EndCall, callVars
<1>1. CASE \E q \in Paths, f \in PathFlags : CallPath(t, q, f)
  <2>1. -1 \notin PathFlags
    BY PoolAssumption
  <2> QED BY <1>1, <1>a, <1>b, <2>1 DEF CallPath
<1>2. CASE \E f \in PoolFlags : CallPool(t, f)
  BY <1>2, <1>a, <1>b DEF CallPool
<1>3. CASE LockWeight(t)
  BY <1>3, <1>a, <1>b DEF LockWeight
<1>4. CASE ScanPath(t)
  <2>1. 1 <= p
    BY PathFacts
  <2> QED BY <1>4, <1>a, <1>b, <2>1 DEF ScanPath
<1>5. CASE ProbePath(t)
  <2>1. path[t] \in Nat /\ pc[t] = "probe" /\ UNCHANGED <<from, flg, repeat>>
    BY <1>5, <1>b DEF ProbePath
  <2>2. CASE weight[path[t]] >= 0
    <3>1. /\ bad' = [bad EXCEPT ![t] = FALSE] /\ path' = [path EXCEPT ![t] = path[t] + 1]
          /\ pc' = pc
      <4>1. path[t] \in Paths /\ ~(weight[path[t]] < 0)
        BY <1>5, <2>2, WeightTyped DEF ProbePath, StaysUp
      <4> QED BY <1>5, <4>1 DEF ProbePath
    <3> QED BY <1>a, <1>b, <2>1, <3>1
  <2>3. CASE ~(weight[path[t]] >= 0)
    <3>1. path[t] # p /\ pc' = [pc EXCEPT ![t] = "get"] /\ UNCHANGED <<bad, path>>
      BY <1>5, <1>b, <2>3 DEF ProbePath
    <3> QED BY <1>a, <1>b, <2>1, <3>1
  <2> QED BY <2>2, <2>3
<1>6. CASE GiveUp(t)
  <2>1. path[t] > p
    BY <1>6, <1>b, PathFacts DEF GiveUp
  <2>2. flg[t] # -1
    BY <1>6, <1>b, <2>1 DEF GiveUp
  <2> QED BY <1>6, <1>a, <1>b, <2>2 DEF GiveUp
<1>7. CASE WaitWeight(t) \/ WaitTimeout(t)
  BY <1>7, <1>a, <1>b DEF WaitWeight, WaitTimeout
<1>8. CASE TakeNothing(t)
  BY <1>8, <1>a, <1>b DEF TakeNothing, HasWeightLock, NextPath
<1>9. CASE SpuriousWakeup(t)
  BY <1>9, <1>a, <1>b DEF SpuriousWakeup, Woken
<1> QED BY <1>1, <1>2, <1>3, <1>4, <1>5, <1>6, <1>7, <1>8, <1>9

LEMMA HolderSteps ==
  ASSUME NEW p \in Paths, Faults[p] = {}, StaysUp(p), NEW t \in Threads,
         \/ Take(t) \/ CheckConn(t) \/ Connect(t) \/ CheckTable(t) \/ SpinEnds(t)
         \/ LoadPublish(t) \/ LoadFails(t) \/ LoadBuild(t) \/ Relock(t) \/ FailBack(t) \/ Recover(t)
         \/ SignalConnected(t) \/ Ready(t) \/ CallFails(t) \/ Release(t) \/ SignalReleased(t) \/ ClearErrno(t)
  PROVE  weight'[p] >= 0 /\ OthersWait(t) /\ LooksAt(t, p)' /\ (pc'[t] \in {"null", "bad"} => flg[t] # -1)
<1>b. /\ pc \in [Threads -> Labels] /\ from \in [Threads -> {"path", "scan", "probe"}]
      /\ path \in [Threads -> Nat \ {0}] /\ flg \in [Threads -> Nat \cup {-1}]
      /\ repeat \in [Threads -> Nat \cup {-1}] /\ bad \in [Threads -> BOOLEAN]
      /\ res \in [Threads -> Resources \cup {NoConn}]
      /\ p \in Nat /\ LooksAt(t, p) /\ weight[p] >= 0
      /\ weight \in [Paths -> Nat \cup {-1}] /\ freeq \in [Paths -> Seq(Resources)]
  BY PathFacts DEF StaysUp, TypeInv, TypeOK, PathTypes, ThreadTypes, CallTypes
<1>c. weight[p] \in Nat
  BY <1>b
<1> USE DEF Goto, At, SetCall, EndCall, callVars, pathVars
<1>1. CASE Take(t)
  <2>a. weight'[p] \in {weight[p], IF weight[p] > 0 THEN weight[p] - 1 ELSE weight[p]}
    BY <1>1, <1>b DEF Take
  <2>1. weight'[p] >= 0
    BY <1>c, <2>a
  <2> QED BY <1>1, <1>b, <2>1 DEF Take, OthersWait, LooksAt, Trying
<1>2. CASE CheckConn(t) \/ CheckTable(t) \/ SpinEnds(t) \/ LoadPublish(t) \/ LoadBuild(t) \/ Relock(t)
  BY <1>2, <1>b DEF CheckConn, CheckTable, SpinEnds, LoadPublish, LoadBuild, Relock, OthersWait, LooksAt, Trying
<1>3. CASE Connect(t) \/ LoadFails(t)
  BY <1>3, <1>b DEF Connect, LoadFails, OthersWait, LooksAt, Trying
<1>4. CASE FailBack(t)
  <2>1. weight'[p] >= 0
    BY <1>4, <1>b DEF FailBack, LooksAt
  <2> QED BY <1>4, <1>b, <2>1 DEF FailBack, HasWeightLock, NextPath, OthersWait, LooksAt, Trying
<1>5. CASE Recover(t)
  <2>1. Len(freeq[p]) \in Nat
    BY <1>b
  <2>2. weight'[p] >= 0
    BY <1>5, <1>b, <2>1 DEF Recover
  <2> QED BY <1>5, <1>b, <2>2 DEF Recover, OthersWait, LooksAt, Trying
<1>6. CASE SignalConnected(t)
  <2>1. PICK V \in OneOf(WeightWaiters) : SignalAndGoto(t, V, "ready")
    BY <1>6 DEF SignalConnected
  <2>2. \A u \in V : pc[u] = "weightwait"
    BY DEF OneOf, WeightWaiters
  <2>3. \A u \in Threads : pc'[u] = IF u = t THEN "ready" ELSE IF u \in V THEN "rescan" ELSE pc[u]
    BY <2>1, <2>2 DEF SignalAndGoto, Woken
  <2> QED BY <1>6, <1>b, <2>2, <2>3 DEF SignalConnected, OthersWait, LooksAt, Trying
<1>7. CASE Ready(t) \/ CallFails(t) \/ ClearErrno(t)
  BY <1>7, <1>b DEF Ready, CallFails, ClearErrno, OthersWait, LooksAt, Trying
<1>8. CASE Release(t)
  <2>a. weight'[p] \in {weight[p], weight[p] + 1}
    BY <1>8, <1>b DEF Release, Heavier
  <2>1. weight'[p] >= 0
    BY <1>c, <2>a
  <2> QED BY <1>8, <1>b, <2>1 DEF Release, OthersWait, LooksAt, Trying
<1>9. CASE SignalReleased(t)
  <2>1. PICK W \in OneOf(CondWaiters(PathOf(given[t]))), V \in OneOf(WeightWaiters) :
          SignalAndGoto(t, W \cup V, "clear")
    BY <1>9 DEF SignalReleased
  <2>2. (\A u \in V : pc[u] = "weightwait") /\ (\A u \in W : pc[u] = "condwait")
    BY DEF OneOf, WeightWaiters, CondWaiters
  <2>3. \A u \in Threads : pc'[u] = IF u = t THEN "clear" ELSE IF u \in V THEN "rescan"
                                    ELSE IF u \in W THEN "get" ELSE pc[u]
    BY <2>1, <2>2 DEF SignalAndGoto, Woken
  <2> QED BY <1>9, <1>b, <2>2, <2>3 DEF SignalReleased, OthersWait, LooksAt, Trying
<1> QED BY <1>1, <1>2, <1>3, <1>4, <1>5, <1>6, <1>7, <1>8, <1>9

\* One path of the pool leads to a server that always answers.
OneAnswers == \E p \in Paths : Faults[p] = {}

LEMMA StaysUpStep ==
  ASSUME NEW p \in Paths, Faults[p] = {}, StaysUp(p), [Next]_vars
  PROVE  StaysUp(p)' /\ \A t \in Threads : pc'[t] \in {"null", "bad"} => flg[t] # -1
<1>1. \A t \in Threads : LooksAt(t, p)
  BY DEF StaysUp
<1>2. TypeInv'
  BY TypeStep DEF StaysUp
<1>3. ASSUME NEW t \in Threads, OthersWait(t), LooksAt(t, p)', weight'[p] >= 0,
             pc'[t] \in {"null", "bad"} => flg[t] # -1
      PROVE  StaysUp(p)' /\ \A u \in Threads : pc'[u] \in {"null", "bad"} => flg[u] # -1
  <2>1. StaysUp(p)'
    BY <1>1, <1>2, <1>3, OthersLook DEF StaysUp
  <2>2. ASSUME NEW u \in Threads, u # t, pc'[u] \in {"null", "bad"} PROVE flg[u] # -1
    <3>1. pc[u] = pc'[u]
      BY <1>3, <2>2 DEF OthersWait
    <3> QED BY <1>1, <2>2, <3>1 DEF LooksAt
  <2> QED BY <1>3, <2>1, <2>2
<1>4. CASE UNCHANGED <<weight, pc, res, callVars>>
  BY <1>1, <1>2, <1>4 DEF StaysUp, LooksAt, callVars
<1>5. weight[p] >= 0
  BY DEF StaysUp
<1>6. CASE UNCHANGED vars
  BY <1>4, <1>6 DEF vars, pathVars
<1>7. CASE \E r \in Resources : CloseIdle(r)
  BY <1>4, <1>7 DEF CloseIdle, pathVars
<1>8. CASE Next /\ ~\E r \in Resources : CloseIdle(r)
  <2>1. PICK t \in Threads :
          /\ OthersWait(t) /\ LooksAt(t, p)' /\ weight'[p] >= 0
          /\ pc'[t] \in {"null", "bad"} => flg[t] # -1
    BY <1>5, <1>8, CallSteps, HolderSteps DEF Next, Step
  <2> QED BY <1>3, <2>1
<1> QED BY <1>6, <1>7, <1>8

\* A caller that asks with flg=-1 for any path is not sent away with nothing while one
\* of the paths leads to a server that answers, however busy that path is and whatever
\* becomes of the others (scpool.c:572-600).
THEOREM WaitersStay == OneAnswers /\ Spec => ForeverMeansForever
<1> SUFFICES ASSUME OneAnswers PROVE Spec => ForeverMeansForever
  OBVIOUS
<1>1. PICK p \in Paths : Faults[p] = {}
  BY DEF OneAnswers
<1>2. Init => StaysUp(p)
  <2> SUFFICES ASSUME Init PROVE StaysUp(p)
    OBVIOUS
  <2>1. weight[p] >= 0
    BY PathFacts DEF Init
  <2> QED BY <2>1, TypeInit DEF Init, StaysUp, LooksAt, Trying
<1>3. StaysUp(p) /\ [Next]_vars => StaysUp(p)'
  BY <1>1, StaysUpStep
<1>4. StaysUp(p) /\ [Next]_vars => [\A t \in Threads : pc'[t] \in {"null", "bad"} => flg[t] # -1]_vars
  BY <1>1, StaysUpStep
<1> QED BY <1>2, <1>3, <1>4, PTL DEF Spec, ForeverMeansForever
=============================================================================

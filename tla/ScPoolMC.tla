------------------------------ MODULE ScPoolMC ------------------------------
(* Small instances of ScPool for TLC. *)
EXTENDS ScPool, TLC

CONSTANTS t1, t2, t3, t4
TwoThreads == {t1, t2}
ThreeThreads == {t1, t2, t3}
FourThreads == {t1, t2, t3, t4}
Perms == Permutations(Threads)

OneConn == <<1>>             \* one path with one connection
OnePair == <<2>>             \* one path with two connections

Reliable == [p \in Paths |-> {}]
Unreachable == [p \in Paths |-> {"connect"}]
Anything == [p \in Paths |-> {"clikey", "svclist", "refused"}]

NeverWait == {0}
WaitOnce == {1}
JustBroken == {-1}
AnyError == {-1, -2}

\* Bound: a reconnect over an open socket lets usage grow for ever.
UsageBound == \A p \in Paths : usage[p] <= 4
=============================================================================

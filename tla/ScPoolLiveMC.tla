---------------------------- MODULE ScPoolLiveMC ----------------------------
(* A small instance of ScPoolLive for TLC. *)
EXTENDS ScPoolLive

CONSTANTS t1, t2
TwoThreads == {t1, t2}

TwoSingles == <<1, 1>>       \* two paths with one connection each

SecondReliable == [p \in Paths |-> IF p = 2 THEN {} ELSE {"connect", "svclist"}]

Waiting == {1, -1}
JustBroken == {-1}
=============================================================================

-------------------------------- MODULE BBTree ---------------------------------
(***************************************************************************)
(* The balanced trees of ds/tree.c and ds/tree_del.c, which keep the       *)
(* modules of dm_app.c, the words of getdw.c and the keys of applications. *)
(* A node stores the depths of its two sides; they are updated on the way  *)
(* up and steer the rotations.                                              *)
(***************************************************************************)
EXTENDS Integers, FiniteSets, Sequences

CONSTANTS TreeKeys,   \* the contents, compared as numbers
          Kept        \* contents user_free refuses to give up

ASSUME TreeAssumption == TreeKeys \subseteq Nat /\ IsFiniteSet(TreeKeys) /\ Kept \subseteq TreeKeys

VARIABLES sp,     \* the tree
          held,   \* the contents added and not deleted
          flg,    \* the largest *flg of BB_Tree_Del so far, 0: nothing deleted
          told    \* each *flg so far was the level of what was deleted

treeVars == <<sp, held, flg, told>>

Void == <<>>
Deeper(a, b) == IF a > b THEN a ELSE b
Leaf(k) == [key |-> k, ld |-> 0, rd |-> 0, l |-> Void, r |-> Void]

\* The trees that are no deeper than there are contents; what the code computes by
\* recursion or in a loop over a tree is a function on them.
TreesUpTo ==
  LET up[n \in 0 .. Cardinality(TreeKeys)] ==
        IF n = 0 THEN {Void}
        ELSE {Void} \cup [key : TreeKeys, ld : Nat, rd : Nat, l : up[n - 1], r : up[n - 1]]
  IN up
Trees == TreesUpTo[Cardinality(TreeKeys)]

\* What a parent stores of a subtree: the larger of its depths and one.
Depth(t) == IF t = Void THEN 0 ELSE Deeper(t.ld, t.rd) + 1
WithLeft(t, l) == [t EXCEPT !.l = l, !.ld = Depth(l)]
WithRight(t, r) == [t EXCEPT !.r = r, !.rd = Depth(r)]

-----------------------------------------------------------------------------
(* BB_Tree_Add *)

\* The left side has become two levels deeper: a rotation to the right, after one
\* to the left when the inner side is the deeper one.
RaiseLeft(t) ==
  LET p == t.l IN
  IF p.ld >= p.rd THEN WithRight(p, WithLeft(t, p.r))
  ELSE LET q == p.r IN
       WithRight(WithLeft(q, WithRight(p, q.l)), WithLeft(t, q.r))

\* Mutant: the depth of the node that went down is not computed again.
RaiseRightStale(t) ==
  LET p == t.r IN
  IF p.rd >= p.ld THEN WithLeft(p, [t EXCEPT !.r = p.l])
  ELSE LET q == p.l IN
       WithLeft(WithRight(q, WithLeft(p, q.r)), WithRight(t, q.l))

RaiseRight(t) ==
  LET p == t.r IN
  IF p.rd >= p.ld THEN WithLeft(p, WithRight(t, p.l))
  ELSE LET q == p.l IN
       WithLeft(WithRight(q, WithLeft(p, q.r)), WithRight(t, q.l))

BB_Tree_Add(sp0, k) ==
  LET add[t \in Trees] ==
        IF t = Void THEN Leaf(k)
        ELSE IF t.key > k
        THEN LET s == WithLeft(t, add[t.l]) IN IF s.ld - s.rd <= 1 THEN s ELSE RaiseLeft(s)
        ELSE IF t.key < k
        THEN LET s == WithRight(t, add[t.r]) IN IF s.rd - s.ld <= 1 THEN s ELSE RaiseRight(s)
        ELSE t
  IN add[sp0]

-----------------------------------------------------------------------------
(* BB_Tree_Del *)

R_rot(t) ==
  LET p == t.l
      s == [t EXCEPT !.l = p.r, !.ld = p.rd]
  IN [p EXCEPT !.r = s, !.rd = Deeper(s.rd, s.ld) + 1]

L_rot(t) ==
  LET p == t.r
      s == [t EXCEPT !.r = p.l, !.rd = p.ld]
  IN [p EXCEPT !.l = s, !.ld = Deeper(s.rd, s.ld) + 1]

\* p comes up in the place of t, which goes down on its left or on its right and is
\* rotated when it is too deep on its other side.
GoLeft(t, p) ==
  LET s == [t EXCEPT !.r = p.l, !.rd = p.ld]
      u == IF s.ld - s.rd > 1 THEN R_rot(s) ELSE s
  IN [p EXCEPT !.l = u, !.ld = Deeper(u.rd, u.ld) + 1]

GoRight(t, p) ==
  LET s == [t EXCEPT !.l = p.r, !.ld = p.rd]
      u == IF s.rd - s.ld > 1 THEN L_rot(s) ELSE s
  IN [p EXCEPT !.r = u, !.rd = Deeper(u.rd, u.ld) + 1]

\* The right side is too deep: the left child of the right child comes up, or the
\* right child when it has none.
R_blc(t) == GoLeft(t, IF t.r.l = Void THEN t.r ELSE GoRight(t.r, t.r.l))
L_blc(t) == GoRight(t, IF t.l.r = Void THEN t.l ELSE GoLeft(t.l, t.l.r))

\* The rightmost node of a tree and what is left of it (unless it is the tree itself).
t_r(tp) ==
  LET out[t \in Trees \ {Void}] ==
        IF t.r = Void THEN [took |-> t, rest |-> t]
        ELSE LET d == out[t.r]
                 s == IF d.took = t.r
                      THEN [t EXCEPT !.r = d.took.l, !.rd = d.took.ld]
                      ELSE [t EXCEPT !.r = d.rest, !.rd = Deeper(d.rest.rd, d.rest.ld) + 1]
             IN [took |-> d.took, rest |-> IF s.ld - s.rd > 1 THEN L_blc(s) ELSE s]
  IN out[tp]

t_l(tp) ==
  LET out[t \in Trees \ {Void}] ==
        IF t.l = Void THEN [took |-> t, rest |-> t]
        ELSE LET d == out[t.l]
                 s == IF d.took = t.l
                      THEN [t EXCEPT !.l = d.took.r, !.ld = d.took.rd]
                      ELSE [t EXCEPT !.l = d.rest, !.ld = Deeper(d.rest.rd, d.rest.ld) + 1]
             IN [took |-> d.took, rest |-> IF s.rd - s.ld > 1 THEN R_blc(s) ELSE s]
  IN out[tp]

\* A node with two children is replaced by its neighbour on the deeper side.
t_delete(t) ==
  CASE t.r = Void -> t.l
    [] t.r # Void /\ t.l = Void -> t.r
    [] t.r # Void /\ t.l # Void /\ t.ld >= t.rd ->
         LET d == t_r(t.l)
             n == IF d.took = t.l THEN d.took
                  ELSE [d.took EXCEPT !.l = d.rest, !.ld = Deeper(d.rest.rd, d.rest.ld) + 1]
         IN [n EXCEPT !.r = t.r, !.rd = t.rd]
    [] t.r # Void /\ t.l # Void /\ t.ld < t.rd ->
         LET d == t_l(t.r)
             n == IF d.took = t.r THEN d.took
                  ELSE [d.took EXCEPT !.r = d.rest, !.rd = Deeper(d.rest.rd, d.rest.ld) + 1]
         IN [n EXCEPT !.l = t.l, !.ld = t.ld]

\* The new root and the level at which the node was deleted, 0 when it was not.
BB_Tree_Del(tp, k) ==
  LET del[t \in Trees] ==
        IF t = Void THEN [root |-> t, flg |-> 0]
        ELSE IF t.key = k
        THEN IF k \in Kept THEN [root |-> t, flg |-> 0]
             ELSE [root |-> t_delete(t), flg |-> 1]
        ELSE IF t.key > k
        THEN LET d == del[t.l]
                 s == WithLeft(t, d.root)
             IN IF d.flg = 0 THEN [root |-> t, flg |-> 0]
                ELSE [root |-> IF s.rd - s.ld > 1 THEN R_blc(s) ELSE s, flg |-> d.flg + 1]
        ELSE LET d == del[t.r]
                 s == WithRight(t, d.root)
             IN IF d.flg = 0 THEN [root |-> t, flg |-> 0]
                ELSE [root |-> IF s.ld - s.rd > 1 THEN L_blc(s) ELSE s, flg |-> d.flg + 1]
  IN del[tp]

-----------------------------------------------------------------------------
(* The queries *)

\* Below zero, zero, above zero.
Tree_Cmp(a, b) == IF a < b THEN -1 ELSE IF a = b THEN 0 ELSE 1

\* The loop of the queries: they return the node whose comparison with k is in stops, go
\* to the right where it is in rights and else to the left, and remember as t the last
\* node where it was in keeps.
Seek(sp0, k, stops, rights, keeps) ==
  LET from[u \in Trees] ==
        [t \in Trees |->
           IF u = Void THEN t
           ELSE LET rc == Tree_Cmp(u.key, k) IN
                IF rc \in stops THEN u
                ELSE from[IF rc \in rights THEN u.r ELSE u.l][IF rc \in keeps THEN u ELSE t]]
  IN from[sp0][Void]

BB_Tree_Find(t, k) == Seek(t, k, {0}, {-1}, {})
BB_Tree_GT(t, k) == Seek(t, k, {}, {-1, 0}, {1})
BB_Tree_GTEQ(t, k) == Seek(t, k, {0}, {-1}, {1})
BB_Tree_LT(t, k) == Seek(t, k, {}, {-1}, {-1})
BB_Tree_LTEQ(t, k) == Seek(t, k, {0}, {-1}, {-1})

BB_Tree_MAX(sp0) ==
  LET last[t \in Trees] ==
        IF t = Void THEN Void ELSE IF last[t.r] # Void THEN last[t.r] ELSE t
  IN last[sp0]

BB_Tree_MIN(sp0) ==
  LET first[t \in Trees] ==
        IF t = Void THEN Void ELSE IF first[t.l] # Void THEN first[t.l] ELSE t
  IN first[sp0]

BB_Tree_Count(sp0) ==
  LET count[t \in Trees] == IF t = Void THEN 0 ELSE count[t.l] + 1 + count[t.r]
  IN count[sp0]

BB_Tree_Scan(sp0) ==
  LET scan[t \in Trees] == IF t = Void THEN <<>> ELSE scan[t.l] \o <<t.key>> \o scan[t.r]
  IN scan[sp0]

-----------------------------------------------------------------------------
(* Any sequence of insertions and deletions *)

TreeInit == sp = Void /\ held = {} /\ flg = 0 /\ told = TRUE

AddKey(k) ==
  sp' = BB_Tree_Add(sp, k) /\ held' = held \cup {k} /\ UNCHANGED <<flg, told>>

\* The level of k in a tree, 0 when it is not there.
Level(sp0, k) ==
  LET level[t \in Trees] ==
        IF t = Void THEN 0
        ELSE IF t.key = k THEN 1
        ELSE LET n == level[IF k < t.key THEN t.l ELSE t.r] IN IF n = 0 THEN 0 ELSE n + 1
  IN level[sp0]

DelKey(k) == \E d \in {BB_Tree_Del(sp, k)} :
  /\ sp' = d.root /\ flg' = Deeper(flg, d.flg)
  /\ held' = held \ ({k} \ Kept)
  /\ told' = (told /\ d.flg = (IF k \in Kept THEN 0 ELSE Level(sp, k))
                   /\ (d.flg = 0 => d.root = sp))

TreeNext == \E k \in TreeKeys : AddKey(k) \/ DelKey(k)

TreeSpec == TreeInit /\ [][TreeNext]_treeVars

-----------------------------------------------------------------------------
(* Properties. *)

Height(sp0) ==
  LET height[t \in Trees] == IF t = Void THEN 0 ELSE Deeper(height[t.l], height[t.r]) + 1
  IN height[sp0]

Subtrees(sp0) ==
  LET within[t \in Trees] ==
        IF t = Void THEN {} ELSE {t} \cup within[t.l] \cup within[t.r]
  IN within[sp0]

\* Scanning yields what was added and not deleted, in order, once each.
ScansHeld ==
  LET s == BB_Tree_Scan(sp) IN
  /\ {s[i] : i \in DOMAIN s} = held
  /\ \A i \in DOMAIN s : i > 1 => s[i - 1] < s[i]

\* The stored depths, by which the rotations are chosen, are the heights of the
\* sides after every history of insertions and deletions.
DepthsTrue == \A t \in Subtrees(sp) : t.ld = Height(t.l) /\ t.rd = Height(t.r)

\* The sides of a node differ by one level at most as long as nothing is deleted;
\* deletions may leave larger differences.
Balanced == \A t \in Subtrees(sp) : t.ld - t.rd \in -1 .. 1
InsertsBalance == flg = 0 => Balanced

\* Each query finds what its comment promises.
Answers(t, S) ==
  \/ t = Void /\ S = {}
  \/ t # Void /\ t.key \in S
Least(S) == {k \in S : \A j \in S : k <= j}
Greatest(S) == {k \in S : \A j \in S : k >= j}
QueriesRight ==
  /\ \A k \in TreeKeys :
       /\ Answers(BB_Tree_Find(sp, k), held \cap {k})
       /\ Answers(BB_Tree_GT(sp, k), Least({j \in held : j > k}))
       /\ Answers(BB_Tree_GTEQ(sp, k), Least({j \in held : j >= k}))
       /\ Answers(BB_Tree_LT(sp, k), Greatest({j \in held : j < k}))
       /\ Answers(BB_Tree_LTEQ(sp, k), Greatest({j \in held : j <= k}))
  /\ Answers(BB_Tree_MAX(sp), Greatest(held)) /\ Answers(BB_Tree_MIN(sp), Least(held))
  /\ BB_Tree_Count(sp) = Cardinality(held)

\* BB_Tree_Del reports the level of the node it deleted and 0 when there was none
\* or user_free kept it; the tree is then as it was.
DeletesReported == told

\* The tree as its users see it: it holds what was put in, its depths are true,
\* insertions keep it low, and each query and deletion reports what it says.
TreeRight ==
  /\ ScansHeld /\ DepthsTrue /\ InsertsBalance /\ QueriesRight /\ DeletesReported
=============================================================================

------------------------------ MODULE FrameProofs ------------------------------
(***************************************************************************)
(* What is sent is received (Frame, PackBuffers), for numbers of any size, *)
(* heads of any length, bodies of any size and any number of connections,  *)
(* whichever of them compress and encrypt.                                 *)
(*                                                                         *)
(* A head: the old check number takes no part in the new one, and two      *)
(* heads that differ in one number have sums that differ by as much.  A    *)
(* body: between two connections it is compressed exactly when T_LEN is    *)
(* not PKG_LEN.  The buffers: packages of any length, in the three builds, *)
(* fit in them, but for a body that is longer than its text.               *)
(***************************************************************************)
EXTENDS PackBuffers, NaturalsInduction, WellFoundedInduction, SequenceTheorems, FiniteSetTheorems, TLAPS

-----------------------------------------------------------------------------
(* Numbers. *)

\* A set of numbers that is not empty has a least one: induction without a formula.
LEMMA LeastNumber ==
  ASSUME NEW S \in SUBSET Nat, S # {}
  PROVE  \E x \in S : \A y \in S : x <= y
<1> DEFINE R == {pair \in Nat \X Nat : pair[1] < pair[2]}
<1>1. IsWellFoundedOn(R, Nat)
  BY NatLessThanWellFounded DEF OpToRel
<1>2. PICK x \in S : \A y \in S : ~(<<y, x>> \in R)
  <2> HIDE DEF R
  <2> QED BY <1>1, WFMin
<1>3. ASSUME NEW y \in S PROVE x <= y
  <2>1. x \in Nat /\ y \in Nat
    OBVIOUS
  <2>2. ~(y < x)
    <3>1. ASSUME y < x PROVE <<y, x>> \in R
      BY <2>1, <3>1
    <3> QED BY <1>2, <3>1
  <2> QED BY <2>1, <2>2
<1> QED BY <1>3

\* A set that has 0, and with a number less than most the next one, has all up to most.
LEMMA AllNumbers ==
  ASSUME NEW S, NEW most \in Nat, 0 \in S, \A k \in 0 .. most - 1 : k \in S => k + 1 \in S
  PROVE  \A k \in 0 .. most : k \in S
<1> DEFINE Off == {k \in Nat : k <= most /\ k \notin S}
<1>1. SUFFICES ASSUME Off # {} PROVE FALSE
  OBVIOUS
<1>2. PICK x \in Off : \A y \in Off : x <= y
  <2>1. Off \in SUBSET Nat
    OBVIOUS
  <2> HIDE DEF Off
  <2> QED BY <1>1, <2>1, LeastNumber
<1>3. x # 0 /\ x \in Nat /\ x <= most /\ x \notin S
  OBVIOUS
<1>4. x - 1 \in 0 .. most - 1 /\ x - 1 \in S
  BY <1>2, <1>3
<1> QED BY <1>3, <1>4

\* A recursive function of numbers: goes is the step, as a function.
IsRec(g, n, first, goes) ==
  /\ g[0] = first
  /\ \A k \in 1 .. n : g[k] = goes[<<k, g[k - 1]>>]

LEMMA RecExists ==
  ASSUME NEW X, NEW n \in Nat, NEW first \in X, NEW goes \in [Nat \X X -> X]
  PROVE  \E g \in [0 .. n -> X] : IsRec(g, n, first, goes)
<1> DEFINE S == {m \in Nat : \E g \in [0 .. m -> X] : IsRec(g, m, first, goes)}
<1>1. 0 \in S
  <2>1. [k \in 0 .. 0 |-> first] \in [0 .. 0 -> X] /\ IsRec([k \in 0 .. 0 |-> first], 0, first, goes)
    BY DEF IsRec
  <2> QED BY <2>1
<1>2. ASSUME NEW m \in 0 .. n - 1, m \in S PROVE m + 1 \in S
  <2>1. PICK g \in [0 .. m -> X] : IsRec(g, m, first, goes)
    BY <1>2
  <2>2. PICK h : h = [k \in 0 .. m + 1 |-> IF k = m + 1 THEN goes[<<k, g[m]>>] ELSE g[k]]
    OBVIOUS
  <2>3. h \in [0 .. m + 1 -> X]
    BY <2>2
  <2>4. h[0] = first /\ \A k \in 1 .. m + 1 : h[k] = goes[<<k, h[k - 1]>>]
    <3>1. \A k \in 0 .. m : h[k] = g[k]
      BY <2>2
    <3>2. h[m + 1] = goes[<<m + 1, g[m]>>] /\ (m + 1) - 1 = m
      BY <2>2
    <3>3. \A k \in 1 .. m : h[k] = goes[<<k, h[k - 1]>>]
      <4>1. \A k \in 1 .. m : k \in 0 .. m /\ k - 1 \in 0 .. m
        OBVIOUS
      <4>2. \A k \in 1 .. m : g[k] = goes[<<k, g[k - 1]>>]
        BY <2>1 DEF IsRec
      <4> QED BY <3>1, <4>1, <4>2
    <3>4. \A k \in 1 .. m + 1 : k = m + 1 \/ k \in 1 .. m
      OBVIOUS
    <3>5. h[0] = first
      <4>1. g[0] = first
        BY <2>1 DEF IsRec
      <4>2. 0 \in 0 .. m
        OBVIOUS
      <4> QED BY <3>1, <4>1, <4>2
    <3>6. h[m + 1] = goes[<<m + 1, h[(m + 1) - 1]>>]
      <4>1. m \in 0 .. m
        OBVIOUS
      <4>2. h[m] = g[m]
        BY <3>1, <4>1
      <4> QED BY <3>2, <4>2
    <3> QED BY <3>3, <3>4, <3>5, <3>6
  <2>5. IsRec(h, m + 1, first, goes)
    BY <2>3, <2>4 DEF IsRec
  <2> QED BY <2>3, <2>5
<1> HIDE DEF S
<1>3. n \in S
  <2>1. \A k \in 0 .. n - 1 : k \in S => k + 1 \in S
    BY <1>2
  <2>2. \A k \in 0 .. n : k \in S
    BY <1>1, <2>1, AllNumbers
  <2> QED BY <2>2
<1> QED BY <1>3 DEF S

LEMMA DivMod ==
  ASSUME NEW H \in Nat \ {0}, NEW a \in Int
  PROVE  a = H * (a \div H) + (a % H) /\ a % H \in 0 .. H - 1 /\ a \div H \in Int
OBVIOUS

LEMMA DivModIs ==
  ASSUME NEW H \in Nat \ {0}, NEW q \in Int, NEW r \in 0 .. H - 1
  PROVE  (H * q + r) \div H = q /\ (H * q + r) % H = r
OBVIOUS

\* Powers.
LEMMA PowerRec ==
  ASSUME NEW b \in Nat, NEW n \in Nat
  PROVE  \E g \in [0 .. n -> Nat] :
           g[0] = 1 /\ (\A k \in 1 .. n : g[k] = b * g[k - 1]) /\ Power(b, n) = g[n]
<1> DEFINE Is(g) == g = [k \in 0 .. n |-> IF k = 0 THEN 1 ELSE b * g[k - 1]]
           goes == [pair \in Nat \X Nat |-> b * pair[2]]
<1>1. PICK h \in [0 .. n -> Nat] : IsRec(h, n, 1, goes)
  <2>1. goes \in [Nat \X Nat -> Nat]
    OBVIOUS
  <2>2. PICK typ : typ = Nat
    OBVIOUS
  <2>3. goes \in [Nat \X typ -> typ] /\ 1 \in typ
    BY <2>1, <2>2
  <2> HIDE DEF goes
  <2>4. \E h \in [0 .. n -> typ] : IsRec(h, n, 1, goes)
    BY <2>3, RecExists
  <2> QED BY <2>2, <2>4
<1>2. Is(h)
  <2>1. \A k \in 1 .. n : k \in Nat /\ h[k - 1] \in Nat
    OBVIOUS
  <2>2. \A k \in 1 .. n : h[k] = b * h[k - 1]
    BY <1>1, <2>1 DEF IsRec
  <2>3. h[0] = 1
    BY <1>1 DEF IsRec
  <2>4. \A k \in 0 .. n : h[k] = IF k = 0 THEN 1 ELSE b * h[k - 1]
    BY <2>2, <2>3
  <2> QED BY <2>4
<1>3. Power(b, n) = (CHOOSE g : Is(g))[n]
  BY DEF Power
<1>4. PICK g : g = CHOOSE f : Is(f)
  OBVIOUS
<1>5. Is(g)
  <2> HIDE DEF Is
  <2> QED BY <1>2, <1>4
<1>6. \A k \in 0 .. n : k \in {m \in 0 .. n : g[m] \in Nat}
  <2> DEFINE S == {m \in 0 .. n : g[m] \in Nat}
  <2>0. g = [k \in 0 .. n |-> IF k = 0 THEN 1 ELSE b * g[k - 1]]
    BY <1>5
  <2>1. 0 \in S
    BY <2>0
  <2>2. \A k \in 0 .. n - 1 : k \in S => k + 1 \in S
    BY <2>0
  <2> HIDE DEF S
  <2>3. \A k \in 0 .. n : k \in S
    BY <2>1, <2>2, AllNumbers
  <2> QED BY <2>3 DEF S
<1>7. g \in [0 .. n -> Nat]
  BY <1>5, <1>6
<1>8. g[0] = 1 /\ \A k \in 1 .. n : g[k] = b * g[k - 1]
  <2>1. g = [k \in 0 .. n |-> IF k = 0 THEN 1 ELSE b * g[k - 1]]
    BY <1>5
  <2> HIDE DEF Is
  <2> QED BY <2>1
<1>9. Power(b, n) = g[n]
  BY <1>3, <1>4
<1> HIDE DEF Is
<1> QED BY <1>7, <1>8, <1>9

LEMMA PowerZero == \A b \in Nat : Power(b, 0) = 1
BY PowerRec

LEMMA PowerStep ==
  ASSUME NEW b \in Nat, NEW n \in Nat
  PROVE  Power(b, n + 1) = b * Power(b, n) /\ Power(b, n) \in Nat
<1>1. PICK g \in [0 .. n -> Nat] : g[0] = 1 /\ (\A k \in 1 .. n : g[k] = b * g[k - 1]) /\ Power(b, n) = g[n]
  BY PowerRec
<1>2. PICK h \in [0 .. n + 1 -> Nat] :
        h[0] = 1 /\ (\A k \in 1 .. n + 1 : h[k] = b * h[k - 1]) /\ Power(b, n + 1) = h[n + 1]
  <2>1. PICK m \in Nat : m = n + 1
    OBVIOUS
  <2>2. \E h \in [0 .. m -> Nat] :
          h[0] = 1 /\ (\A k \in 1 .. m : h[k] = b * h[k - 1]) /\ Power(b, m) = h[m]
    BY PowerRec
  <2> QED BY <2>1, <2>2
<1> DEFINE S == {k \in 0 .. n : g[k] = h[k]}
<1>3. 0 \in S
  BY <1>1, <1>2
<1>4. \A k \in 0 .. n - 1 : k \in S => k + 1 \in S
  BY <1>1, <1>2
<1>5. n \in S
  <2> HIDE DEF S
  <2>1. n \in 0 .. n
    OBVIOUS
  <2> QED BY <1>3, <1>4, <2>1, AllNumbers
<1>6. h[n + 1] = b * h[n]
  <2>1. n + 1 \in 1 .. n + 1 /\ (n + 1) - 1 = n
    OBVIOUS
  <2> QED BY <1>2, <2>1
<1> QED BY <1>1, <1>2, <1>5, <1>6

LEMMA PowerPositive == \A b \in Nat \ {0}, n \in Nat : Power(b, n) \in Nat \ {0}
<1> TAKE b \in Nat \ {0}, n \in Nat
<1> DEFINE S == {k \in Nat : Power(b, k) \in Nat \ {0}}
<1>1. 0 \in S
  BY PowerZero
<1>2. ASSUME NEW k \in 0 .. n - 1, k \in S PROVE k + 1 \in S
  <2>1. Power(b, k) \in Nat \ {0} /\ Power(b, k + 1) = b * Power(b, k)
    BY <1>2, PowerStep
  <2> QED BY <2>1
<1> HIDE DEF S
<1>3. n \in S
  BY <1>1, <1>2, AllNumbers
<1> QED BY <1>3 DEF S

LEMMA PowerPlus ==
  ASSUME NEW b \in Nat \ {0}, NEW m \in Nat, NEW n \in Nat
  PROVE  Power(b, m + n) = Power(b, m) * Power(b, n)
<1> DEFINE S == {k \in Nat : Power(b, m + k) = Power(b, m) * Power(b, k)}
<1>1. 0 \in S
  BY PowerZero, PowerPositive
<1>2. ASSUME NEW k \in 0 .. n - 1, k \in S PROVE k + 1 \in S
  <2>1. Power(b, (m + k) + 1) = b * Power(b, m + k) /\ Power(b, k + 1) = b * Power(b, k)
    BY PowerStep
  <2>2. Power(b, m) \in Nat /\ Power(b, k) \in Nat /\ m + (k + 1) = (m + k) + 1
    BY PowerPositive
  <2> QED BY <1>2, <2>1, <2>2
<1> HIDE DEF S
<1>3. n \in S
  BY <1>1, <1>2, AllNumbers
<1> QED BY <1>3 DEF S

LEMMA PowerTimes ==
  ASSUME NEW b \in Nat \ {0}, NEW m \in Nat, NEW n \in Nat
  PROVE  Power(b, m * n) = Power(Power(b, m), n)
<1> DEFINE S == {k \in Nat : Power(b, m * k) = Power(Power(b, m), k)}
<1>0. Power(b, m) \in Nat \ {0}
  BY PowerPositive
<1>1. 0 \in S
  BY <1>0, PowerZero
<1>2. ASSUME NEW k \in 0 .. n - 1, k \in S PROVE k + 1 \in S
  <2>1. m * (k + 1) = m + m * k /\ m * k \in Nat
    OBVIOUS
  <2>2. Power(b, m + m * k) = Power(b, m) * Power(b, m * k)
    BY <2>1, PowerPlus
  <2>3. Power(Power(b, m), k + 1) = Power(b, m) * Power(Power(b, m), k)
    BY <1>0, PowerStep
  <2> QED BY <1>2, <2>1, <2>2, <2>3
<1> HIDE DEF S
<1>3. n \in S
  BY <1>1, <1>2, AllNumbers
<1> QED BY <1>3 DEF S

-----------------------------------------------------------------------------

\* HalfSize is a power of two.
LEMMA HalfIs == HalfSize \in Nat \ {0} /\ HalfSize * HalfSize \in Nat \ {0}
<1>1. HalfSize \in Nat \ {0}
  BY FrameAssumption, PowerPositive DEF HalfSize
<1> QED BY <1>1

\* Sum, unfolded.
LEMMA SumRec ==
  ASSUME NEW p \in [0 .. LastPara -> Int]
  PROVE  \E g \in [0 .. LastPara -> Int] :
           g[0] = Low(p[0]) /\ (\A k \in 1 .. LastPara : g[k] = g[k - 1] + p[k]) /\ Sum(p) = g[LastPara]
<1> DEFINE Is(g) == g = [i \in 0 .. LastPara |-> IF i = 0 THEN Low(p[0]) ELSE g[i - 1] + p[i]]
           goes == [pair \in Nat \X Int |-> IF pair[1] \in 0 .. LastPara THEN pair[2] + p[pair[1]] ELSE 0]
<1>0. LastPara \in Nat /\ Low(p[0]) \in Int
  BY FrameAssumption, HalfIs DEF Low
<1>1. PICK h \in [0 .. LastPara -> Int] : IsRec(h, LastPara, Low(p[0]), goes)
  <2>1. goes \in [Nat \X Int -> Int]
    OBVIOUS
  <2>2. PICK typ : typ = Int
    OBVIOUS
  <2>3. goes \in [Nat \X typ -> typ] /\ Low(p[0]) \in typ
    BY <1>0, <2>1, <2>2
  <2> HIDE DEF goes
  <2>4. \E h \in [0 .. LastPara -> typ] : IsRec(h, LastPara, Low(p[0]), goes)
    BY <1>0, <2>3, RecExists
  <2> QED BY <2>2, <2>4
<1>2. Is(h)
  <2>1. \A k \in 1 .. LastPara : k \in Nat /\ h[k - 1] \in Int /\ k \in 0 .. LastPara
    BY <1>0
  <2>2. \A k \in 1 .. LastPara : h[k] = h[k - 1] + p[k]
    BY <1>1, <2>1 DEF IsRec
  <2>3. h[0] = Low(p[0])
    BY <1>1 DEF IsRec
  <2>4. \A k \in 0 .. LastPara : h[k] = IF k = 0 THEN Low(p[0]) ELSE h[k - 1] + p[k]
    BY <1>0, <2>2, <2>3
  <2> QED BY <2>4
<1>3. Sum(p) = (CHOOSE g : Is(g))[LastPara]
  BY DEF Sum
<1>4. PICK g : g = CHOOSE f : Is(f)
  OBVIOUS
<1>5. Is(g)
  <2> HIDE DEF Is
  <2> QED BY <1>2, <1>4
<1>6. \A k \in 0 .. LastPara : g[k] = IF k = 0 THEN Low(p[0]) ELSE g[k - 1] + p[k]
  BY <1>5
<1>7. \A k \in 0 .. LastPara : g[k] \in Int
  <2> DEFINE S == {m \in 0 .. LastPara : g[m] \in Int}
  <2>1. 0 \in S
    BY <1>0, <1>6
  <2>2. \A k \in 0 .. LastPara - 1 : k \in S => k + 1 \in S
    BY <1>0, <1>6
  <2> HIDE DEF S
  <2>3. \A k \in 0 .. LastPara : k \in S
    BY <1>0, <2>1, <2>2, AllNumbers
  <2> QED BY <2>3 DEF S
<1>8. g \in [0 .. LastPara -> Int]
  BY <1>5, <1>7
<1>9. g[0] = Low(p[0]) /\ \A k \in 1 .. LastPara : g[k] = g[k - 1] + p[k]
  <2> HIDE DEF Is
  <2> QED BY <1>0, <1>6
<1>10. Sum(p) = g[LastPara]
  BY <1>3, <1>4
<1> HIDE DEF Is
<1> QED BY <1>8, <1>9, <1>10

\* Two heads that differ in one number.
LEMMA SumDiff ==
  ASSUME NEW p \in [0 .. LastPara -> Int], NEW q \in [0 .. LastPara -> Int], NEW i \in 0 .. LastPara,
         \A k \in 0 .. LastPara : k # i => q[k] = p[k]
  PROVE  /\ Sum(p) \in Int /\ Sum(q) \in Int
         /\ Sum(q) = Sum(p) + (IF i = 0 THEN Low(q[0]) - Low(p[0]) ELSE q[i] - p[i])
<1>0. LastPara \in Nat /\ Low(p[0]) \in Int /\ Low(q[0]) \in Int
  BY FrameAssumption, HalfIs DEF Low
<1>1. PICK g \in [0 .. LastPara -> Int] :
        g[0] = Low(p[0]) /\ (\A k \in 1 .. LastPara : g[k] = g[k - 1] + p[k]) /\ Sum(p) = g[LastPara]
  BY SumRec
<1>2. PICK h \in [0 .. LastPara -> Int] :
        h[0] = Low(q[0]) /\ (\A k \in 1 .. LastPara : h[k] = h[k - 1] + q[k]) /\ Sum(q) = h[LastPara]
  BY SumRec
<1>3. PICK d \in Int : d = IF i = 0 THEN Low(q[0]) - Low(p[0]) ELSE q[i] - p[i]
  <2>1. q[i] \in Int /\ p[i] \in Int
    OBVIOUS
  <2> QED BY <1>0, <2>1
<1> DEFINE S == {k \in 0 .. LastPara : h[k] = g[k] + (IF k < i THEN 0 ELSE d)}
<1>4. 0 \in S
  <2>1. i # 0 => q[0] = p[0]
    BY <1>0
  <2> QED BY <1>0, <1>1, <1>2, <1>3, <2>1
<1>5. ASSUME NEW k \in 0 .. LastPara - 1, k \in S PROVE k + 1 \in S
  <2>1. k + 1 \in 1 .. LastPara /\ (k + 1) - 1 = k /\ k \in 0 .. LastPara /\ k + 1 \in 0 .. LastPara
    BY <1>0
  <2>2. g[k + 1] = g[k] + p[k + 1] /\ h[k + 1] = h[k] + q[k + 1]
    BY <1>1, <1>2, <2>1
  <2>3. k + 1 # i => q[k + 1] = p[k + 1]
    BY <2>1
  <2>4. q[k + 1] \in Int /\ p[k + 1] \in Int /\ g[k] \in Int /\ h[k] \in Int
    BY <2>1
  <2>5. k + 1 = i => d = q[k + 1] - p[k + 1]
    BY <1>3, <2>1
  <2>6. h[k] = g[k] + (IF k < i THEN 0 ELSE d)
    BY <1>5
  <2>7. h[k + 1] = g[k + 1] + (IF k + 1 < i THEN 0 ELSE d)
    BY <2>1, <2>2, <2>3, <2>4, <2>5, <2>6
  <2> QED BY <2>1, <2>7
<1> HIDE DEF S
<1>6. LastPara \in S
  <2>1. LastPara \in 0 .. LastPara
    BY <1>0
  <2>2. \A k \in 0 .. LastPara : k \in S
    BY <1>0, <1>4, <1>5, AllNumbers
  <2> QED BY <2>1, <2>2
<1>7. h[LastPara] = g[LastPara] + d /\ LastPara \in 0 .. LastPara
  BY <1>0, <1>6 DEF S
<1> QED BY <1>1, <1>2, <1>3, <1>7

-----------------------------------------------------------------------------
(* The head *)

HeadType(p) == p \in [0 .. LastPara -> Int]

\* What chknum writes.
Checked(q, p, start) ==
  /\ HeadType(q)
  /\ q[0] = Low(p[0]) + HalfSize * Low(start + Sum(p))
  /\ Low(q[0]) = Low(p[0])
  /\ \A k \in 0 .. LastPara : k # 0 => q[k] = p[k]
  /\ Sum(q) = Sum(p) /\ Sum(p) \in Int

LEMMA LowIs ==
  \A n \in Int : Low(n) \in 0 .. HalfSize - 1 /\ Low(n) \in Int /\ Low(Low(n)) = Low(n)
<1> TAKE n \in Int
<1>1. Low(n) \in 0 .. HalfSize - 1
  BY HalfIs DEF Low
<1>2. PICK m : m = Low(n)
  OBVIOUS
<1>3. m \in 0 .. HalfSize - 1 => m % HalfSize = m
  BY HalfIs
<1> QED BY HalfIs, <1>1, <1>2, <1>3 DEF Low

LEMMA ChknumIs ==
  ASSUME NEW p, NEW start \in Int, HeadType(p)
  PROVE  Checked(chknum(p, start), p, start)
<1>0. LastPara \in Nat /\ 0 \in 0 .. LastPara /\ p[0] \in Int /\ HalfSize \in Nat \ {0}
  BY FrameAssumption, HalfIs DEF HeadType
<1>1. Sum(p) \in Int
  <2>1. PICK g \in [0 .. LastPara -> Int] : Sum(p) = g[LastPara]
    BY SumRec DEF HeadType
  <2>2. LastPara \in 0 .. LastPara
    BY <1>0
  <2> QED BY <2>1, <2>2
<1>2. PICK low : low = Low(p[0])
  OBVIOUS
<1>3. PICK high : high = Low(start + Sum(p))
  OBVIOUS
<1>4. low \in 0 .. HalfSize - 1 /\ low \in Int /\ high \in Int
  <2>1. start + Sum(p) \in Int
    BY <1>1
  <2> QED BY <1>0, <1>2, <1>3, <2>1, LowIs
<1>5. PICK q : q = chknum(p, start)
  OBVIOUS
<1>6. q = [p EXCEPT ![0] = low + HalfSize * high]
  BY <1>2, <1>3, <1>5 DEF chknum
<1>7. q \in [0 .. LastPara -> Int] /\ q[0] = low + HalfSize * high
      /\ \A k \in 0 .. LastPara : k # 0 => q[k] = p[k]
  <2>1. low + HalfSize * high \in Int
    BY <1>0, <1>4
  <2> QED BY <1>0, <1>6, <2>1 DEF HeadType
<1>8. Low(q[0]) = low
  <2>1. (HalfSize * high + low) % HalfSize = low
    BY <1>0, <1>4, DivModIs
  <2>2. HalfSize * high + low = low + HalfSize * high
    BY <1>0, <1>4
  <2> QED BY <1>7, <2>1, <2>2 DEF Low
<1>9. Sum(q) = Sum(p)
  <2>1. p \in [0 .. LastPara -> Int]
    BY DEF HeadType
  <2>2. Sum(q) = Sum(p) + (Low(q[0]) - Low(p[0]))
    BY <1>0, <1>7, <2>1, SumDiff
  <2> QED BY <1>1, <1>2, <1>4, <1>8, <2>2
<1> QED BY <1>1, <1>2, <1>3, <1>5, <1>7, <1>8, <1>9 DEF Checked, HeadType

\* Two heads are the same.
LEMMA SameHead ==
  ASSUME NEW p, NEW q, HeadType(p), HeadType(q), p[0] = q[0],
         \A k \in 0 .. LastPara : k # 0 => q[k] = p[k]
  PROVE  p = q
<1>1. \A k \in 0 .. LastPara : q[k] = p[k]
  OBVIOUS
<1>2. p = [k \in 0 .. LastPara |-> p[k]] /\ q = [k \in 0 .. LastPara |-> q[k]]
  BY DEF HeadType
<1> QED BY <1>1, <1>2

\* A head whose check number is right is read, its first number cut.
LEMMA DispackRight ==
  ASSUME NEW p, NEW q, NEW start \in Int, HeadType(p), Checked(q, p, start)
  PROVE  NetHeadDispack(q, start) = [p EXCEPT ![0] = Low(@)]
<1>0. LastPara \in Nat /\ 0 \in 0 .. LastPara /\ HeadType(q)
  BY FrameAssumption DEF Checked
<1>1. PICK r : r = chknum(q, start)
  OBVIOUS
<1>2. Checked(r, q, start)
  BY <1>0, <1>1, ChknumIs
<1>3. r[0] = q[0]
  BY <1>2 DEF Checked
<1>4. NetHeadDispack(q, start) = [q EXCEPT ![0] = Low(@)]
  BY <1>1, <1>3 DEF NetHeadDispack
<1>5. PICK a : a = [q EXCEPT ![0] = Low(@)]
  OBVIOUS
<1>6. PICK b : b = [p EXCEPT ![0] = Low(@)]
  OBVIOUS
<1>7. Low(q[0]) = Low(p[0]) /\ Low(p[0]) \in Int
  BY <1>0, LowIs DEF Checked, HeadType
<1>8. HeadType(a) /\ a[0] = Low(q[0]) /\ \A k \in 0 .. LastPara : k # 0 => a[k] = q[k]
  BY <1>0, <1>5, <1>7 DEF HeadType
<1>9. HeadType(b) /\ b[0] = Low(p[0]) /\ \A k \in 0 .. LastPara : k # 0 => b[k] = p[k]
  BY <1>0, <1>6, <1>7 DEF HeadType
<1>10. a = b
  BY <1>7, <1>8, <1>9, SameHead DEF Checked
<1> QED BY <1>4, <1>5, <1>6, <1>10

\* Remainders of sums.
LEMMA SameLow ==
  ASSUME NEW a \in Int, NEW n \in Int, NEW m \in Int
  PROVE  (Low(a + (n - m)) = Low(a)) <=> (Low(n) = Low(m))
<1>1. PICK H \in Nat \ {0} : H = HalfSize
  BY HalfIs
<1>2. \A x \in Int : x = H * (x \div H) + (x % H) /\ x % H \in 0 .. H - 1 /\ x \div H \in Int
  BY DivMod
<1>3. PICK n1 \in Int, n2 \in 0 .. H - 1 : n = H * n1 + n2 /\ n2 = n % H
  BY <1>2
<1>4. PICK m1 \in Int, m2 \in 0 .. H - 1 : m = H * m1 + m2 /\ m2 = m % H
  BY <1>2
<1>5. PICK a1 \in Int, a2 \in 0 .. H - 1 : a = H * a1 + a2 /\ a2 = a % H
  BY <1>2
<1>6. ASSUME n2 = m2 PROVE (a + (n - m)) % H = a2
  <2>1. a + (n - m) = H * (a1 + (n1 - m1)) + a2
    <3>1. H * (a1 + (n1 - m1)) = H * a1 + (H * n1 - H * m1)
      OBVIOUS
    <3>2. PICK ha \in Int, hn \in Int, hm \in Int : ha = H * a1 /\ hn = H * n1 /\ hm = H * m1
      OBVIOUS
    <3>3. a = ha + a2 /\ n = hn + n2 /\ m = hm + m2
      BY <1>3, <1>4, <1>5, <3>2
    <3>4. a + (n - m) = (ha + (hn - hm)) + a2
      BY <1>6, <3>3
    <3> QED BY <3>1, <3>2, <3>4
  <2>2. PICK k \in Int : k = a1 + (n1 - m1)
    OBVIOUS
  <2> QED BY <2>1, <2>2, DivModIs
<1>7. ASSUME (a + (n - m)) % H = a2 PROVE n2 = m2
  <2>1. PICK k \in Int : a + (n - m) = H * k + a2
    <3>1. a + (n - m) \in Int
      OBVIOUS
    <3> QED BY <1>2, <1>7, <3>1
  <2>2. n2 - m2 = H * (k - a1 - n1 + m1)
    <3>1. H * (k - a1 - n1 + m1) = H * k - H * a1 - H * n1 + H * m1
      OBVIOUS
    <3>2. PICK ha \in Int, hn \in Int, hm \in Int, hk \in Int :
            ha = H * a1 /\ hn = H * n1 /\ hm = H * m1 /\ hk = H * k
      OBVIOUS
    <3>3. a = ha + a2 /\ n = hn + n2 /\ m = hm + m2 /\ a + (n - m) = hk + a2
      BY <1>3, <1>4, <1>5, <2>1, <3>2
    <3>4. n2 - m2 = hk - ha - hn + hm
      BY <3>3
    <3> QED BY <3>1, <3>2, <3>4
  <2>3. PICK d \in Int : d = k - a1 - n1 + m1
    OBVIOUS
  <2>4. n2 = H * d + m2
    BY <2>2, <2>3
  <2>5. n2 = H * 0 + n2
    OBVIOUS
  <2>6. n2 % H = m2
    BY <2>4, DivModIs
  <2>7. n2 % H = n2
    BY <2>5, DivModIs
  <2> QED BY <2>6, <2>7
<1> QED BY <1>1, <1>3, <1>4, <1>5, <1>6, <1>7 DEF Low

\* A head with one number changed is read if the lower half is as it was.
LEMMA DispackChanged ==
  ASSUME NEW p, NEW q, NEW start \in Int, HeadType(p), Checked(q, p, start),
         NEW i \in 1 .. LastPara, NEW n \in Int
  PROVE  (NetHeadDispack([q EXCEPT ![i] = n], start) = <<>>) <=> (Low(n) # Low(q[i]))
<1>0. LastPara \in Nat /\ 0 \in 0 .. LastPara /\ i \in 0 .. LastPara /\ HeadType(q)
      /\ HalfSize \in Nat \ {0}
  BY FrameAssumption, HalfIs DEF Checked
<1>1. PICK t : t = [q EXCEPT ![i] = n]
  OBVIOUS
<1>2. HeadType(t) /\ t[i] = n /\ \A k \in 0 .. LastPara : k # i => t[k] = q[k]
  BY <1>0, <1>1 DEF HeadType
<1>3. Sum(t) = Sum(q) + (n - q[i]) /\ Sum(q) \in Int /\ Sum(t) \in Int /\ q[i] \in Int
  <2>1. t \in [0 .. LastPara -> Int] /\ q \in [0 .. LastPara -> Int]
    BY <1>0, <1>2 DEF HeadType
  <2>2. /\ Sum(q) \in Int /\ Sum(t) \in Int
        /\ Sum(t) = Sum(q) + (IF i = 0 THEN Low(t[0]) - Low(q[0]) ELSE t[i] - q[i])
    BY <1>0, <1>2, <2>1, SumDiff
  <2> QED BY <1>0, <1>2, <2>1, <2>2
<1>4. PICK r : r = chknum(t, start)
  OBVIOUS
<1>5. Checked(r, t, start)
  BY <1>2, <1>4, ChknumIs
<1>6. t[0] = q[0]
  BY <1>0, <1>2
<1>7. PICK x \in Int : x = Low(start + Sum(t))
  <2>1. start + Sum(t) \in Int
    BY <1>3
  <2> QED BY <2>1, LowIs
<1>8. PICK y \in Int : y = Low(start + Sum(q))
  <2>1. start + Sum(q) \in Int
    BY <1>3
  <2> QED BY <2>1, LowIs
<1>9. PICK low \in Int : low = Low(q[0])
  BY <1>0, LowIs DEF HeadType
<1>10. r[0] = low + HalfSize * x
  BY <1>5, <1>6, <1>7, <1>9 DEF Checked
<1>11. q[0] = low + HalfSize * y
  BY <1>8, <1>9 DEF Checked
<1>12. (r[0] = t[0]) <=> (x = y)
  <2>1. ASSUME HalfSize * x = HalfSize * y PROVE x = y
    BY <1>0, <2>1
  <2>2. PICK hx \in Int : hx = HalfSize * x
    BY <1>0
  <2>3. PICK hy \in Int : hy = HalfSize * y
    BY <1>0
  <2>4. (r[0] = t[0]) <=> (hx = hy)
    BY <1>6, <1>10, <1>11, <2>2, <2>3
  <2> QED BY <2>1, <2>2, <2>3, <2>4
<1>13. (x = y) <=> (Low(n) = Low(q[i]))
  <2>1. start + Sum(t) = (start + Sum(q)) + (n - q[i]) /\ start + Sum(q) \in Int
    BY <1>3
  <2>2. PICK a \in Int : a = start + Sum(q)
    BY <2>1
  <2>3. PICK m \in Int : m = q[i]
    BY <1>3
  <2>4. x = Low(a + (n - m)) /\ y = Low(a)
    BY <1>7, <1>8, <2>1, <2>2, <2>3
  <2>5. (Low(a + (n - m)) = Low(a)) <=> (Low(n) = Low(m))
    BY SameLow
  <2> QED BY <2>3, <2>4, <2>5, Zenon
<1>14. ASSUME r[0] = t[0] PROVE NetHeadDispack(t, start) # <<>>
  <2>1. NetHeadDispack(t, start) = [t EXCEPT ![0] = Low(@)]
    BY <1>4, <1>14 DEF NetHeadDispack
  <2>2. DOMAIN [t EXCEPT ![0] = Low(@)] = 0 .. LastPara
    BY <1>2 DEF HeadType
  <2>3. DOMAIN <<>> = {}
    OBVIOUS
  <2> QED BY <1>0, <2>1, <2>2, <2>3
<1>15. ASSUME r[0] # t[0] PROVE NetHeadDispack(t, start) = <<>>
  BY <1>4, <1>15 DEF NetHeadDispack
<1>16. (NetHeadDispack(t, start) = <<>>) <=> (r[0] # t[0])
  BY <1>14, <1>15, Zenon
<1> QED BY <1>1, <1>12, <1>13, <1>16, Zenon

LinkKinds == [key : Nat, crypt : Nat, zip : BOOLEAN, undo : BOOLEAN]
FrameTypeOK ==
  /\ para = <<>> \/ para \in [0 .. LastPara -> CheckNumbers]
  /\ init \in Nat
  /\ body = <<>> \/ body \in [size : Sizes, short : Sizes]
  /\ body # <<>> => \E n \in Nat \ {0} : links \in [1 .. n -> LinkKinds] /\ Len(links) = n

LEMMA HeadsReadAt == FrameTypeOK => HeadsRead
<1> SUFFICES ASSUME FrameTypeOK, para # <<>> PROVE HeadsRead
  BY DEF HeadsRead
<1>1. CheckNumbers \subseteq Int
  BY HalfIs DEF CheckNumbers
<1>2. HeadType(para) /\ init \in Int
  <2>1. para \in [0 .. LastPara -> CheckNumbers]
    BY DEF FrameTypeOK
  <2>2. \A k \in 0 .. LastPara : para[k] \in Int
    BY <1>1, <2>1
  <2> QED BY <2>1, <2>2 DEF FrameTypeOK, HeadType
<1>3. PICK sent : sent = NetHeadPack(para, init)
  OBVIOUS
<1>4. Checked(sent, para, init)
  BY <1>2, <1>3, ChknumIs DEF NetHeadPack
<1>5. NetHeadDispack(sent, init) = [para EXCEPT ![0] = Low(@)]
  BY <1>2, <1>4, DispackRight
<1>6. NetHeadDispack(NetHeadPack(sent, init), init) = [para EXCEPT ![0] = Low(@)]
  <2>1. PICK again : again = NetHeadPack(sent, init)
    OBVIOUS
  <2>2. Checked(again, sent, init)
    BY <1>2, <1>4, <2>1, ChknumIs DEF NetHeadPack, Checked
  <2>3. Checked(again, para, init)
    BY <1>4, <2>2 DEF Checked
  <2> QED BY <1>2, <2>1, <2>3, DispackRight
<1>7. ASSUME NEW i \in 1 .. LastPara, NEW n \in CheckNumbers
      PROVE (NetHeadDispack([sent EXCEPT ![i] = n], init) = <<>>) <=> Low(n) # Low(sent[i])
  BY <1>1, <1>2, <1>4, DispackChanged
<1> QED BY <1>3, <1>5, <1>6, <1>7 DEF HeadsRead

-----------------------------------------------------------------------------
(* The body *)

Data(coats) == [text |-> "data", coats |-> coats]

\* A text that is compressed has another length.
ZipsAs(coats, t) == \/ coats = <<"zip">> /\ t # body.size
                    \/ coats = <<>> /\ t = body.size

OnWay(crc, coats, t) ==
  [head |-> [PKG_LEN |-> body.size, T_LEN |-> t, PKG_CRC |-> crc], body |-> Data(coats), ret |-> "ok"]

\* A package at an end of a forwarder.
Coming(pack) == \E crc, coats, t : ZipsAs(coats, t) /\ pack = OnWay(crc, coats, t)

\* What is put in front comes off again.
LEMMA FrontOff ==
  ASSUME NEW T, NEW x \in T, NEW c \in Seq(T)
  PROVE  <<x>> \o c # <<>> /\ (<<x>> \o c)[1] = x /\ Tail(<<x>> \o c) = c
<1>1. <<x>> \in Seq(T) /\ Len(<<x>>) = 1 /\ <<x>>[1] = x
  OBVIOUS
<1>2. PICK all : all = <<x>> \o c
  OBVIOUS
<1>3. /\ all \in Seq(T) /\ Len(all) = 1 + Len(c)
      /\ \A i \in 1 .. 1 + Len(c) : all[i] = IF i <= 1 THEN <<x>>[i] ELSE c[i - 1]
  BY <1>1, <1>2, ConcatProperties
<1>4. Len(c) \in Nat
  BY LenProperties
<1>5. all # <<>> /\ all[1] = x
  <2>1. 1 \in 1 .. 1 + Len(c)
    BY <1>4
  <2>2. Len(all) # 0
    BY <1>3, <1>4
  <2> QED BY <1>1, <1>3, <2>1, <2>2
<1>6. /\ Tail(all) \in Seq(T) /\ Len(Tail(all)) = Len(all) - 1
      /\ \A i \in 1 .. Len(Tail(all)) : Tail(all)[i] = all[i + 1]
  BY <1>3, <1>5, HeadTailProperties
<1>7. Len(Tail(all)) = Len(c)
  BY <1>3, <1>4, <1>6
<1>8. ASSUME NEW i \in 1 .. Len(c) PROVE Tail(all)[i] = c[i]
  <2>1. i + 1 \in 1 .. 1 + Len(c) /\ ~(i + 1 <= 1) /\ (i + 1) - 1 = i
    BY <1>4
  <2> QED BY <1>3, <1>6, <1>7, <2>1
<1>9. Tail(all) = c
  BY <1>6, <1>7, <1>8, SeqEqual
<1> QED BY <1>2, <1>5, <1>9

\* What one encrypts the other decrypts.
LEMMA DecodeEncode ==
  ASSUME NEW out, NEW in, NEW coats, coats = <<>> \/ coats = <<"zip">>,
         in.key = out.key, in.crypt = out.crypt
  PROVE  pack_decode(in, pack_encode(out, Data(coats))) = Data(coats)
<1>1. CASE out.crypt = 0
  BY <1>1 DEF pack_decode, pack_encode
<1>2. CASE out.crypt # 0
  <2>1. PICK x : x = <<out.key, out.crypt>>
    OBVIOUS
  <2>2. PICK all : all = <<x>> \o coats
    OBVIOUS
  <2>3. all # <<>> /\ all[1] = x /\ Tail(all) = coats
    <3>1. PICK T : T = {x, "zip"}
      OBVIOUS
    <3>2. <<>> \in Seq(T) /\ <<"zip">> \in Seq(T) /\ x \in T
      BY <3>1
    <3>3. coats \in Seq(T)
      BY <3>2
    <3> QED BY <2>2, <3>2, <3>3, FrontOff
  <2>4. pack_encode(out, Data(coats)) = [text |-> "data", coats |-> all]
    BY <1>2, <2>1, <2>2 DEF pack_encode, Data
  <2>5. pack_decode(in, [text |-> "data", coats |-> all]) = [text |-> "data", coats |-> Tail(all)]
    BY <1>2, <2>1, <2>3 DEF pack_decode
  <2> QED BY <2>3, <2>4, <2>5 DEF Data
<1> QED BY <1>1, <1>2

\* What an end sends.
LEMMA SendIs ==
  ASSUME NEW out, NEW pack, body.size \in Int, body.short \in Int,
         out.zip \in BOOLEAN, out.undo \in BOOLEAN,
         ~out.undo => pack = Offered, out.undo => Coming(pack)
  PROVE  \E coats, t :
           /\ ZipsAs(coats, t)
           /\ SendPack(out, pack) =
                [head |-> [PKG_LEN |-> body.size, T_LEN |-> t, PKG_CRC |-> pack_encode(out, Data(coats))],
                 body |-> pack_encode(out, Data(coats)), ret |-> "ok"]
<1>1. CASE out.undo
  <2>1. PICK crc, coats, t : ZipsAs(coats, t) /\ pack = OnWay(crc, coats, t)
    BY <1>1 DEF Coming
  <2>2. pack.body = Data(coats) /\ pack.head.PKG_LEN = body.size /\ pack.head.T_LEN = t
    BY <2>1 DEF OnWay
  <2>3. SendPack(out, pack) =
          [head |-> [PKG_LEN |-> body.size, T_LEN |-> t, PKG_CRC |-> pack_encode(out, Data(coats))],
           body |-> pack_encode(out, Data(coats)), ret |-> "ok"]
    BY <1>1, <2>2 DEF SendPack
  <2> QED BY <2>1, <2>3
<1>2. CASE ~out.undo
  <2>1. pack.body = Data(<<>>) /\ pack.head.PKG_LEN = body.size
    <3>1. pack = Offered
      BY <1>2
    <3> QED BY <3>1 DEF Offered, Data
  <2>2. CASE out.zip /\ body.short < body.size
    <3>1. qlz_compress(pack.head, pack.body) = Data(<<"zip">>)
      <4>1. <<"zip">> \o <<>> = <<"zip">>
        OBVIOUS
      <4> QED BY <2>1, <2>2, <4>1 DEF qlz_compress, Data
    <3>2. qlz_length(pack.head) = body.short
      BY <2>1, <2>2 DEF qlz_length
    <3>3. SendPack(out, pack) =
            [head |-> [PKG_LEN |-> body.size, T_LEN |-> body.short,
                       PKG_CRC |-> pack_encode(out, Data(<<"zip">>))],
             body |-> pack_encode(out, Data(<<"zip">>)), ret |-> "ok"]
      BY <1>2, <2>1, <2>2, <3>1, <3>2 DEF SendPack
    <3>4. ZipsAs(<<"zip">>, body.short)
      BY <2>2 DEF ZipsAs
    <3> QED BY <3>3, <3>4
  <2>3. CASE ~(out.zip /\ body.short < body.size)
    <3>1. out.zip => qlz_compress(pack.head, pack.body) = Data(<<>>) /\ qlz_length(pack.head) = body.size
      BY <2>1, <2>3 DEF qlz_compress, qlz_length
    <3>2. SendPack(out, pack) =
            [head |-> [PKG_LEN |-> body.size, T_LEN |-> body.size,
                       PKG_CRC |-> pack_encode(out, Data(<<>>))],
             body |-> pack_encode(out, Data(<<>>)), ret |-> "ok"]
      BY <1>2, <2>1, <3>1 DEF SendPack
    <3>3. ZipsAs(<<>>, body.size)
      BY DEF ZipsAs
    <3> QED BY <3>2, <3>3
  <2> QED BY <2>2, <2>3
<1> QED BY <1>1, <1>2

\* What the other end makes of it.
LEMMA RecvIs ==
  ASSUME NEW in, NEW out, NEW coats, NEW t, ZipsAs(coats, t),
         in.key = out.key, in.crypt = out.crypt, in.undo \in BOOLEAN,
         NEW crc, crc = pack_encode(out, Data(coats)),
         NEW pack,
         pack = [head |-> [PKG_LEN |-> body.size, T_LEN |-> t, PKG_CRC |-> crc], body |-> crc, ret |-> "ok"]
  PROVE  RecvPack(in, pack) = OnWay(crc, IF in.undo THEN coats ELSE <<>>, t)
<1>1. pack_decode(in, pack.body) = Data(coats)
  BY DecodeEncode DEF ZipsAs
<1>2. pack.body = pack.head.PKG_CRC /\ pack.head.T_LEN = t /\ pack.head.PKG_LEN = body.size
  OBVIOUS
<1>3. [pack EXCEPT !.body = Data(coats)] = OnWay(crc, coats, t)
  BY DEF OnWay
<1>4. CASE in.undo \/ t = body.size
  <2>1. RecvPack(in, pack) = [pack EXCEPT !.body = Data(coats)]
    BY <1>1, <1>2, <1>4 DEF RecvPack
  <2>2. ~in.undo => coats = <<>>
    BY <1>4 DEF ZipsAs
  <2> QED BY <1>3, <2>1, <2>2
<1>5. CASE ~in.undo /\ t # body.size
  <2>1. coats = <<"zip">>
    BY <1>5 DEF ZipsAs
  <2>2. Data(coats).coats # <<>> /\ Data(coats).coats[1] = "zip" /\ Tail(Data(coats).coats) = <<>>
    BY <2>1 DEF Data
  <2>3. RecvPack(in, pack) = [pack EXCEPT !.body = [Data(coats) EXCEPT !.coats = Tail(@)]]
    BY <1>1, <1>2, <1>5, <2>2 DEF RecvPack
  <2>4. [Data(coats) EXCEPT !.coats = Tail(@)] = Data(<<>>)
    <3>1. Tail(<<"zip">>) = <<>>
      OBVIOUS
    <3> QED BY <2>1, <3>1 DEF Data
  <2> QED BY <1>5, <2>3, <2>4 DEF OnWay
<1> QED BY <1>4, <1>5

\* From one end of a connection to the other.
Link(i, pack) == RecvPack(Inner(i), SendPack(Outer(i), pack))
Way(g, n) == g = [i \in 0 .. n |-> IF i = 0 THEN Offered ELSE Link(i, g[i - 1])]

LEMMA WayExists == \A n \in Nat : \E g : Way(g, n)
<1> TAKE n \in Nat
<1> DEFINE S == {m \in Nat : \E g : Way(g, m)}
<1>1. 0 \in S
  <2>1. PICK g : g = [i \in 0 .. 0 |-> Offered]
    OBVIOUS
  <2>2. \A i \in 0 .. 0 : i = 0
    OBVIOUS
  <2>3. Way(g, 0)
    BY <2>1, <2>2 DEF Way
  <2> QED BY <2>3
<1>2. ASSUME NEW m \in 0 .. n - 1, m \in S PROVE m + 1 \in S
  <2>1. PICK g : Way(g, m)
    BY <1>2
  <2>2. PICK h : h = [i \in 0 .. m + 1 |-> IF i = m + 1 THEN Link(i, g[m]) ELSE g[i]]
    OBVIOUS
  <2>3. \A i \in 0 .. m : h[i] = g[i] /\ g[i] = IF i = 0 THEN Offered ELSE Link(i, g[i - 1])
    BY <2>1, <2>2 DEF Way
  <2>4. \A i \in 0 .. m + 1 : h[i] = IF i = 0 THEN Offered ELSE Link(i, h[i - 1])
    <3>1. TAKE i \in 0 .. m + 1
    <3>2. CASE i = 0
      <4>1. 0 \in 0 .. m
        OBVIOUS
      <4> QED BY <2>3, <3>2, <4>1
    <3>3. CASE i \in 1 .. m
      <4>1. i \in 0 .. m /\ i - 1 \in 0 .. m /\ i # 0
        BY <3>3
      <4> QED BY <2>3, <4>1
    <3>4. CASE i = m + 1
      <4>1. m \in 0 .. m /\ i - 1 = m /\ i # 0
        BY <3>4
      <4>2. h[i] = Link(i, g[m])
        BY <2>2, <3>4
      <4> QED BY <2>3, <4>1, <4>2
    <3> QED BY <3>2, <3>3, <3>4
  <2>5. Way(h, m + 1)
    BY <2>2, <2>4 DEF Way
  <2> QED BY <2>5
<1> HIDE DEF S
<1>3. n \in S
  <2>1. \A k \in 0 .. n : k \in S
    BY <1>1, <1>2, AllNumbers
  <2> QED BY <2>1
<1> QED BY <1>3 DEF S

LEMMA DeliveredIs ==
  ASSUME NEW n \in Nat, Len(links) = n
  PROVE  \E g : Way(g, n) /\ Delivered = g[n]
<1>1. PICK g : g = CHOOSE f : Way(f, n)
  OBVIOUS
<1>2. Way(g, n)
  BY <1>1, WayExists
<1>3. Delivered = (CHOOSE f : Way(f, n))[n]
  BY DEF Delivered, Way, Link
<1> QED BY <1>1, <1>2, <1>3

LEMMA BodiesReadAt ==
  ASSUME NEW n \in Nat \ {0}, links \in [1 .. n -> LinkKinds], Len(links) = n,
         body.size \in Int, body.short \in Int
  PROVE  BodiesRead
<1>1. PICK g : Way(g, n) /\ Delivered = g[n]
  BY DeliveredIs
<1>2. g[0] = Offered /\ \A i \in 1 .. n : g[i] = Link(i, g[i - 1])
  <2>1. \A i \in 0 .. n : g[i] = IF i = 0 THEN Offered ELSE Link(i, g[i - 1])
    BY <1>1 DEF Way
  <2> QED BY <2>1
<1> DEFINE S == {i \in 0 .. n : /\ i \in 1 .. n - 1 => Coming(g[i])
                                /\ i = n => \E crc, t : g[n] = OnWay(crc, <<>>, t)}
<1>3. 0 \in S
  OBVIOUS
<1> HIDE DEF S
<1>4. ASSUME NEW k \in 0 .. n - 1, k \in S PROVE k + 1 \in S
  <2>1. PICK i \in 1 .. n : i = k + 1
    OBVIOUS
  <2>2. i > 1 => Coming(g[i - 1])
    <3>1. i - 1 = k /\ (i > 1 => k \in 1 .. n - 1)
      BY <2>1
    <3> QED BY <1>4, <3>1 DEF S
  <2>3. i = 1 => g[i - 1] = Offered
    BY <1>2
  <2>4. PICK pack : pack = g[i - 1]
    OBVIOUS
  <2>5. PICK out : out = Outer(i)
    OBVIOUS
  <2>6. PICK in : in = Inner(i)
    OBVIOUS
  <2>7. (out.undo <=> i > 1) /\ (in.undo <=> i < n)
        /\ out.zip \in BOOLEAN /\ out.undo \in BOOLEAN /\ in.undo \in BOOLEAN
        /\ in.key = out.key /\ in.crypt = out.crypt
    <3>1. PICK l \in LinkKinds : l = links[i]
      OBVIOUS
    <3>2. out = [l EXCEPT !.undo = i > 1] /\ in = [l EXCEPT !.undo = i < n]
      BY <2>5, <2>6, <3>1 DEF Outer, Inner
    <3>3. out.key = l.key /\ in.key = l.key /\ out.crypt = l.crypt /\ in.crypt = l.crypt /\ out.zip = l.zip
      BY <3>2 DEF LinkKinds
    <3>4. (out.undo <=> i > 1) /\ (in.undo <=> i < n)
      BY <3>2 DEF LinkKinds
    <3>5. out.undo \in BOOLEAN /\ in.undo \in BOOLEAN
      BY <3>2 DEF LinkKinds
    <3>6. l.zip \in BOOLEAN
      BY DEF LinkKinds
    <3> QED BY <3>3, <3>4, <3>5, <3>6
  <2>8. PICK coats, t :
           /\ ZipsAs(coats, t)
           /\ SendPack(out, pack) =
                [head |-> [PKG_LEN |-> body.size, T_LEN |-> t, PKG_CRC |-> pack_encode(out, Data(coats))],
                 body |-> pack_encode(out, Data(coats)), ret |-> "ok"]
    <3>1. out.undo => i > 1
      BY <2>7
    <3>2. ~out.undo => i = 1
      BY <2>7
    <3>3. (~out.undo => pack = Offered) /\ (out.undo => Coming(pack))
      BY <2>2, <2>3, <2>4, <3>1, <3>2
    <3> QED BY <2>7, <3>3, SendIs
  <2>9. PICK crc : crc = pack_encode(out, Data(coats))
    OBVIOUS
  <2>10. PICK sent : sent = SendPack(out, pack)
    OBVIOUS
  <2>11. g[i] = OnWay(crc, IF in.undo THEN coats ELSE <<>>, t)
    <3>1. RecvPack(in, sent) = OnWay(crc, IF in.undo THEN coats ELSE <<>>, t)
      <4>1. sent = [head |-> [PKG_LEN |-> body.size, T_LEN |-> t, PKG_CRC |-> crc], body |-> crc, ret |-> "ok"]
        BY <2>8, <2>9, <2>10
      <4>2. in.key = out.key /\ in.crypt = out.crypt /\ in.undo \in BOOLEAN /\ ZipsAs(coats, t)
        BY <2>7, <2>8
      <4> HIDE DEF OnWay
      <4> QED BY <2>9, <4>1, <4>2, RecvIs
    <3>2. g[i] = RecvPack(in, sent)
      BY <1>2, <2>4, <2>5, <2>6, <2>10 DEF Link
    <3> QED BY <3>1, <3>2
  <2>12. i < n => Coming(g[i])
    BY <2>7, <2>8, <2>11 DEF Coming
  <2>13. i = n => \E c, s : g[n] = OnWay(c, <<>>, s)
    <3>0. i = n => ~(i < n)
      OBVIOUS
    <3>1. i = n => ~in.undo
      BY <2>7, <3>0, Zenon
    <3>2. i = n => g[n] = OnWay(crc, <<>>, t)
      BY <2>11, <3>1
    <3> QED BY <3>2
  <2> QED BY <2>1, <2>12, <2>13 DEF S
<1>5. n \in S
  <2>1. n \in 0 .. n
    OBVIOUS
  <2>2. \A k \in 0 .. n : k \in S
    BY <1>3, <1>4, AllNumbers
  <2> QED BY <2>1, <2>2
<1>6. PICK crc, t : Delivered = OnWay(crc, <<>>, t)
  BY <1>1, <1>5 DEF S
<1> QED BY <1>6 DEF BodiesRead, OnWay, Data

-----------------------------------------------------------------------------
(* The theorems. *)

\* A function of 1 .. c is a sequence.
LEMMA SeqOfFunction ==
  ASSUME NEW V, NEW c \in Nat, NEW f \in [1 .. c -> V]
  PROVE  f \in Seq(V) /\ Len(f) = c
<1>1. f \in Seq(V)
  BY SeqDef
<1>2. Len(f) \in Nat /\ DOMAIN f = 1 .. Len(f)
  BY <1>1, LenProperties
<1>3. 1 .. Len(f) = 1 .. c
  BY <1>2
<1>4. Len(f) = c
  <2>1. PICK m \in Nat : m = Len(f)
    BY <1>2
  <2>2. (m > 0 => m \in 1 .. c) /\ (c > 0 => c \in 1 .. m)
    BY <1>3, <2>1
  <2>3. (m > 0 => m <= c) /\ (c > 0 => c <= m)
    BY <2>2
  <2> QED BY <2>1, <2>3
<1> QED BY <1>1, <1>4

LEMMA FrameStart == FrameInit => FrameTypeOK
BY DEF FrameInit, FrameTypeOK

LEMMA FrameStep == FrameTypeOK /\ [FrameNext]_frameVars => FrameTypeOK'
<1> SUFFICES ASSUME FrameTypeOK, [FrameNext]_frameVars PROVE FrameTypeOK'
  OBVIOUS
<1>1. CASE GiveHead
  <2>1. para' \in [0 .. LastPara -> CheckNumbers] /\ init' \in Nat /\ body' = <<>>
    BY <1>1, FrameAssumption DEF GiveHead
  <2> QED BY <2>1 DEF FrameTypeOK
<1>2. CASE GiveBody
  <2>1. para' = <<>> /\ init' \in Nat /\ body' \in [size : Sizes, short : Sizes]
    BY <1>2 DEF GiveBody, FrameTypeOK
  <2>0. PICK n \in 1 .. MaxLinks :
          \E mode \in [1 .. n -> 0 .. 3], zip \in [1 .. n -> BOOLEAN] :
            links' = [i \in 1 .. n |-> [key |-> i, crypt |-> mode[i], zip |-> zip[i], undo |-> FALSE]]
    BY <1>2 DEF GiveBody
  <2>2. PICK mode \in [1 .. n -> 0 .. 3], zip \in [1 .. n -> BOOLEAN] :
          links' = [i \in 1 .. n |-> [key |-> i, crypt |-> mode[i], zip |-> zip[i], undo |-> FALSE]]
    BY <2>0
  <2>3. n \in Nat \ {0}
    BY FrameAssumption
  <2>4. ASSUME NEW i \in 1 .. n
        PROVE [key |-> i, crypt |-> mode[i], zip |-> zip[i], undo |-> FALSE] \in LinkKinds
    <3>1. i \in Nat /\ mode[i] \in Nat /\ zip[i] \in BOOLEAN
      BY <2>2, <2>3
    <3> QED BY <3>1 DEF LinkKinds
  <2>5. PICK typ : typ = LinkKinds
    OBVIOUS
  <2>6. links' \in [1 .. n -> typ]
    BY <2>2, <2>4, <2>5
  <2>7. Len(links') = n
    BY <2>3, <2>6, SeqOfFunction
  <2> QED BY <2>1, <2>3, <2>5, <2>6, <2>7 DEF FrameTypeOK
<1>3. CASE UNCHANGED frameVars
  BY <1>3 DEF frameVars, FrameTypeOK
<1> QED BY <1>1, <1>2, <1>3 DEF FrameNext

\* A head and a body are what they are declared to be (net_pkg.c).
THEOREM FrameTyped == FrameSpec => []FrameTypeOK
<1>1. FrameInit => FrameTypeOK
  BY FrameStart
<1>2. FrameTypeOK /\ [FrameNext]_frameVars => FrameTypeOK'
  BY FrameStep
<1> QED BY <1>1, <1>2, PTL DEF FrameSpec

LEMMA FramesReadAt == FrameTypeOK => FramesRead
<1> SUFFICES ASSUME FrameTypeOK PROVE FramesRead
  OBVIOUS
<1>1. HeadsRead
  BY HeadsReadAt
<1>2. BodiesRead
  <2>1. CASE body = <<>>
    BY <2>1 DEF BodiesRead
  <2>2. CASE body # <<>>
    <3>1. PICK n \in Nat \ {0} : links \in [1 .. n -> LinkKinds] /\ Len(links) = n
      BY <2>2 DEF FrameTypeOK
    <3>2. body.size \in Int /\ body.short \in Int
      <4>1. Sizes \subseteq Int
        BY FrameAssumption
      <4>2. body \in [size : Sizes, short : Sizes]
        BY <2>2 DEF FrameTypeOK
      <4> QED BY <4>1, <4>2
    <3> QED BY <3>1, <3>2, BodiesReadAt
  <2> QED BY <2>1, <2>2
<1> QED BY <1>1, <1>2 DEF FramesRead

\* What RecvPack hands on is what SendPack was given, head and body, end to end and
\* through any number of forwarders; a head with a number changed is refused unless the
\* lower half of the number is as it was (net_pkg.c:27-317).
THEOREM FramesReadAlways == FrameSpec => []FramesRead
<1>1. FrameTypeOK => FramesRead
  BY FramesReadAt
<1> QED BY <1>1, FrameTyped, PTL

-----------------------------------------------------------------------------
(* PackBuffers. *)

BuildOf == CASE build = "pkg" -> NetPkg [] build = "quicklz" -> NetQuicklz [] build = "memzip" -> NetMemzip

PackTypes ==
  /\ build \in {"pkg", "quicklz", "memzip"} /\ undo \in BOOLEAN
  /\ conn \in [SendLen : Nat, SendBuffer : Nat, RecvLen : Nat, RecvBuffer : Nat]
  /\ data \in Nat /\ largest \in Nat
  /\ seen \in [past : BOOLEAN, freed : BOOLEAN, lost : Nat, failed : BOOLEAN, longer : BOOLEAN]

\* How large the buffers are.
Roomy(c, most) ==
  /\ c.SendLen <= c.SendBuffer /\ (c.SendLen = 0 <=> c.SendBuffer = 0)
  /\ c.RecvLen = c.RecvBuffer /\ c.RecvLen <= 2 * most + 2

PackInv ==
  /\ PackTypes /\ Roomy(conn, largest) /\ BuffersKept
  /\ data > 0 => conn.RecvBuffer > 0

\* What the builds have in common.
LEMMA Builds ==
  ASSUME NEW b \in {NetPkg, NetQuicklz, NetMemzip}
  PROVE  /\ b.keep \in Nat /\ b.spare \in Nat /\ b.more \in {0, 400}
         /\ b.zbuf \in BOOLEAN /\ b.sends \in {"T_LEN", "PKG_LEN"}
<1>1. CASE b = NetPkg
  BY <1>1 DEF NetPkg
<1>2. NetMemzip.keep = 32768 /\ NetMemzip.spare = SDBC_BLKSZ /\ NetMemzip.more = 400
  <2>1. NetMemzip.more = 400
    BY DEF NetMemzip, NetQuicklz
  <2>2. NetMemzip.keep = 32768 /\ NetMemzip.spare = SDBC_BLKSZ
    BY DEF NetMemzip, NetQuicklz
  <2> QED BY <2>1, <2>2
<1>3. CASE b = NetQuicklz
  BY <1>3 DEF NetQuicklz, SDBC_BLKSZ
<1>4. CASE b = NetMemzip
  <2>1. b.keep \in Nat /\ b.spare \in Nat /\ b.more \in {0, 400}
    BY <1>2, <1>4 DEF SDBC_BLKSZ
  <2>2. b.zbuf \in BOOLEAN
    BY <1>4 DEF NetMemzip, NetQuicklz
  <2>3. b.sends \in {"T_LEN", "PKG_LEN"}
    BY <1>4 DEF NetMemzip, NetQuicklz
  <2> QED BY <2>1, <2>2, <2>3
<1> QED BY <1>1, <1>3, <1>4

LEMMA HeadLengths ==
  ASSUME NEW n \in Nat, NEW head \in HeadOf(n)
  PROVE  /\ head = [PKG_LEN |-> n, T_LEN |-> head.T_LEN] /\ head.T_LEN \in Nat /\ head.T_LEN <= n + 1
BY DEF HeadOf

Conn == [SendLen : Nat, SendBuffer : Nat, RecvLen : Nat, RecvBuffer : Nat]

LEMMA RoomToSend ==
  ASSUME NEW b \in {NetPkg, NetQuicklz, NetMemzip}, NEW c \in Conn, NEW most \in Nat, Roomy(c, most), NEW n \in Nat
  PROVE  /\ SendRoom(b, c, n) \in Conn /\ Roomy(SendRoom(b, c, n), most)
         /\ HEADPACKLENGTH + n + 100 <= SendRoom(b, c, n).SendBuffer
<1> DEFINE new == n + 400 + HEADPACKLENGTH
           size == new + (IF c.SendBuffer = 0 THEN b.more ELSE 0)
<1>1. CASE c.SendLen - n < 100 + HEADPACKLENGTH \/ c.SendLen - n > SDBC_BLKSZ
  <2>1. SendRoom(b, c, n) = [c EXCEPT !.SendLen = new, !.SendBuffer = size]
    BY <1>1 DEF SendRoom
  <2>2. new \in Nat /\ size \in Nat /\ size >= new /\ new >= HEADPACKLENGTH + n + 100 /\ new > 0
    BY Builds DEF HEADPACKLENGTH
  <2> HIDE DEF new, size
  <2>3. SendRoom(b, c, n) \in Conn
    BY <2>1, <2>2 DEF Conn
  <2>4. /\ SendRoom(b, c, n).SendLen = new /\ SendRoom(b, c, n).SendBuffer = size
        /\ SendRoom(b, c, n).RecvLen = c.RecvLen /\ SendRoom(b, c, n).RecvBuffer = c.RecvBuffer
    BY <2>1 DEF Conn
  <2>5. HEADPACKLENGTH \in Nat
    BY DEF HEADPACKLENGTH
  <2> QED BY <2>2, <2>3, <2>4, <2>5 DEF Roomy
<1>2. CASE ~(c.SendLen - n < 100 + HEADPACKLENGTH \/ c.SendLen - n > SDBC_BLKSZ)
  <2>1. SendRoom(b, c, n) = c
    BY <1>2 DEF SendRoom
  <2>2. c.SendLen \in Nat /\ c.SendBuffer \in Nat /\ c.SendLen <= c.SendBuffer /\ HEADPACKLENGTH \in Nat
    BY DEF Conn, Roomy, HEADPACKLENGTH
  <2>3. ~(c.SendLen - n < 100 + HEADPACKLENGTH)
    BY <1>2
  <2> QED BY <2>1, <2>2, <2>3
<1> QED BY <1>1, <1>2

\* What SendPack and RecvPack leave.
Sent(did, b, inRecv) ==
  /\ did.conn \in Conn /\ Roomy(did.conn, largest)
  /\ did.past \in BOOLEAN /\ (did.past => undo) /\ did.lost = 0
  /\ did.freed \in BOOLEAN
  /\ did.freed => inRecv /\ (conn.RecvBuffer > 0 => conn.RecvLen > b.keep)
Received(did, b, n, t, outcome, most) ==
  /\ did.conn \in Conn /\ Roomy(did.conn, most)
  /\ did.past \in BOOLEAN /\ did.freed = FALSE
  /\ did.past => undo \/ (~b.zbuf /\ t > n /\ outcome # "nohead")
  /\ did.lost \in Nat /\ (did.lost > 0 => b.zbuf /\ outcome # "ok")
  /\ outcome = "ok" /\ t > 0 => did.conn.RecvBuffer > 0

\* A package to be sent fits; RecvBuffer is freed only when it is large.
LEMMA SendFits ==
  ASSUME PackInv, NEW b \in {NetPkg, NetQuicklz, NetMemzip}, NEW n \in Nat, NEW t \in Nat, t <= n + 1,
         NEW inRecv \in BOOLEAN, NEW open \in BOOLEAN,
         NEW did, did = Sending(b, [PKG_LEN |-> n, T_LEN |-> t], inRecv, open)
  PROVE  Sent(did, b, inRecv)
<1>1. conn \in Conn /\ Roomy(conn, largest) /\ largest \in Nat /\ undo \in BOOLEAN
  BY DEF PackInv, PackTypes, Conn
<1> DEFINE k == IF conn.RecvLen > b.keep THEN RecvFreed(conn) ELSE conn
<1>2. PICK kept : kept = k
  OBVIOUS
<1>3. /\ kept \in Conn /\ Roomy(kept, largest)
      /\ kept.RecvBuffer = 0 /\ conn.RecvBuffer > 0 => conn.RecvLen > b.keep
  <2>1. CASE conn.RecvLen > b.keep
    <3>1. kept = [conn EXCEPT !.RecvLen = 0, !.RecvBuffer = 0]
      BY <1>2, <2>1 DEF RecvFreed
    <3>2. kept \in Conn
      BY <1>1, <3>1 DEF Conn
    <3>3. /\ kept.RecvLen = 0 /\ kept.RecvBuffer = 0
          /\ kept.SendLen = conn.SendLen /\ kept.SendBuffer = conn.SendBuffer
      BY <1>1, <3>1 DEF Conn
    <3>4. Roomy(kept, largest)
      BY <1>1, <3>3 DEF Roomy
    <3> QED BY <2>1, <3>2, <3>4
  <2>2. CASE ~(conn.RecvLen > b.keep)
    BY <1>1, <1>2, <2>2
  <2> QED BY <2>1, <2>2
<1>4. PICK len \in Nat : len = IF undo THEN t ELSE n
  OBVIOUS
<1>5. PICK room : room = SendRoom(b, kept, len)
  OBVIOUS
<1>6. room \in Conn /\ Roomy(room, largest) /\ HEADPACKLENGTH + len + 100 <= room.SendBuffer
  BY <1>1, <1>3, <1>5, RoomToSend
<1>7. PICK end : end = IF open THEN quick_send_pkg(room) ELSE room
  OBVIOUS
<1>8. did.conn = end /\ did.lost = 0
  BY <1>2, <1>4, <1>5, <1>7 DEF Sending, Did
<1> DEFINE copied == IF n = 0 THEN 0 ELSE IF undo /\ b.sends = "PKG_LEN" THEN n ELSE t
<1>9. did.past = (HEADPACKLENGTH + copied > room.SendBuffer)
  BY <1>2, <1>4, <1>5 DEF Sending, Did
<1>10. did.freed = (inRecv /\ n > 0 /\ kept.RecvBuffer = 0)
  BY <1>2, <1>4, <1>5 DEF Sending, Did
<1>11. end \in Conn /\ Roomy(end, largest)
  <2>1. room.SendLen \in Nat
    BY <1>6 DEF Conn
  <2>2. CASE open /\ room.SendLen > 32768
    <3>1. end = [room EXCEPT !.SendLen = 0, !.SendBuffer = 0]
      BY <1>7, <2>1, <2>2 DEF quick_send_pkg
    <3>2. end \in Conn
      BY <1>6, <3>1 DEF Conn
    <3>3. /\ end.SendLen = 0 /\ end.SendBuffer = 0
          /\ end.RecvLen = room.RecvLen /\ end.RecvBuffer = room.RecvBuffer
      BY <1>6, <3>1 DEF Conn
    <3> QED BY <1>6, <3>2, <3>3 DEF Roomy
  <2>3. CASE ~(open /\ room.SendLen > 32768)
    <3>1. end = room
      BY <1>7, <2>1, <2>3 DEF quick_send_pkg
    <3> QED BY <1>6, <3>1
  <2> QED BY <2>2, <2>3
<1>12. did.past \in BOOLEAN /\ did.freed \in BOOLEAN
  <2>1. did.past \in BOOLEAN
    <3>1. (HEADPACKLENGTH + copied > room.SendBuffer) \in BOOLEAN
      OBVIOUS
    <3> QED BY <1>9, <3>1, Zenon
  <2>2. did.freed \in BOOLEAN
    BY <1>10, Zenon
  <2> QED BY <2>1, <2>2
<1>13. ASSUME did.past PROVE undo
  <2>1. SUFFICES ASSUME ~undo PROVE FALSE
    OBVIOUS
  <2>2. HEADPACKLENGTH + copied > room.SendBuffer
    BY <1>9, <1>13, Zenon
  <2>4. len = n /\ copied \in Nat /\ copied <= n + 1
    BY <1>4, <2>1
  <2>3. room.SendBuffer \in Nat /\ HEADPACKLENGTH \in Nat
    BY <1>6 DEF Conn, HEADPACKLENGTH
  <2> HIDE DEF copied
  <2> QED BY <1>6, <2>2, <2>3, <2>4
<1> QED BY <1>3, <1>11, <1>12, <1>10, <1>8, <1>13 DEF Sent

\* A package to be received fits, and what is lost is a block of an older build.
LEMMA RecvFits ==
  ASSUME PackInv, NEW b \in {NetPkg, NetQuicklz, NetMemzip}, NEW n \in Nat, NEW t \in Nat, t <= n + 1,
         NEW outcome \in Outcomes, NEW most \in Nat, largest <= most,
         outcome # "nohead" => n <= most,
         NEW did, did = Receiving(b, [PKG_LEN |-> n, T_LEN |-> t], outcome)
  PROVE  Received(did, b, n, t, outcome, most)
<1>1. conn \in Conn /\ Roomy(conn, largest) /\ largest \in Nat /\ undo \in BOOLEAN
  BY DEF PackInv, PackTypes, Conn
<1>2. Roomy(conn, most)
  BY <1>1 DEF Roomy, Conn
<1>3. CASE outcome = "nohead" \/ t = 0
  <2>1. did = Did(conn, FALSE, FALSE, 0)
    BY <1>3 DEF Receiving
  <2>2. did.conn = conn /\ did.past = FALSE /\ did.freed = FALSE /\ did.lost = 0
    BY <2>1 DEF Did
  <2>3. did.past \in BOOLEAN /\ ~did.past
    BY <2>2, Zenon
  <2>4. outcome # "ok" \/ ~(t > 0)
    BY <1>3
  <2> QED BY <1>1, <1>2, <2>2, <2>3, <2>4 DEF Received
<1>4. CASE ~(outcome = "nohead" \/ t = 0)
  <2> DEFINE head == [PKG_LEN |-> n, T_LEN |-> t]
             zips == ~undo /\ t # n
             zbuf == IF zips /\ ~b.zbuf THEN n + 1 ELSE 0
             came == IF zips /\ b.zbuf THEN 0 ELSE zbuf + t
  <2>1. PICK need : need = Needed(b, head)
    OBVIOUS
  <2>2. /\ need \in Nat /\ need <= 2 * n + 2 /\ need > 0
        /\ ~undo => need > n /\ (~b.zbuf /\ t < n => need = n + t + 2)
    BY <1>1, <2>1 DEF Needed
  <2>3. PICK c : c = RecvRoom(b, conn, need)
    OBVIOUS
  <2>4. c \in Conn /\ Roomy(c, most) /\ c.RecvLen >= need
    <3> DEFINE over == conn.RecvLen - need
    <3>1. conn.RecvLen \in Nat /\ b.spare \in Nat
      BY <1>1, Builds DEF Conn
    <3>2. CASE conn.RecvBuffer = 0 \/ over < 0 \/ over > b.spare
      <4>1. c = [conn EXCEPT !.RecvLen = need, !.RecvBuffer = need]
        BY <2>3, <3>2 DEF RecvRoom
      <4>2. c \in Conn
        BY <1>1, <2>2, <4>1 DEF Conn
      <4>3. /\ c.RecvLen = need /\ c.RecvBuffer = need
            /\ c.SendLen = conn.SendLen /\ c.SendBuffer = conn.SendBuffer
        BY <1>1, <4>1 DEF Conn
      <4>4. need <= 2 * most + 2
        BY <1>4, <2>2
      <4> QED BY <1>2, <2>2, <4>2, <4>3, <4>4 DEF Roomy
    <3>3. CASE ~(conn.RecvBuffer = 0 \/ over < 0 \/ over > b.spare)
      <4>1. c = conn
        BY <2>3, <3>3 DEF RecvRoom
      <4> QED BY <1>1, <1>2, <2>2, <3>1, <3>3, <4>1
    <3> QED BY <3>2, <3>3
  <2>5. PICK end : end = IF outcome = "short" THEN RecvFreed(c) ELSE c
    OBVIOUS
  <2>6. PICK past \in BOOLEAN :
          past <=> (\/ came > c.RecvBuffer
                    \/ outcome \in {"ok", "length"} /\ n > c.RecvBuffer
                    \/ outcome = "ok" /\ n >= c.RecvBuffer)
    OBVIOUS
  <2>7. PICK lost \in {0, 1} :
          lost = IF zips /\ b.zbuf /\ outcome \in {"timeout", "crc", "format"} THEN 1 ELSE 0
    OBVIOUS
  <2>8. did = Did(end, past, FALSE, lost)
    BY <1>4, <2>1, <2>3, <2>5, <2>6, <2>7 DEF Receiving
  <2>9. end \in Conn /\ Roomy(end, most) /\ (outcome = "ok" => end.RecvBuffer > 0)
    <3>1. CASE outcome = "short"
      <4>1. end = [c EXCEPT !.RecvLen = 0, !.RecvBuffer = 0]
        BY <2>5, <3>1 DEF RecvFreed
      <4>2. end \in Conn
        BY <2>4, <4>1 DEF Conn
      <4>3. /\ end.RecvLen = 0 /\ end.RecvBuffer = 0
            /\ end.SendLen = c.SendLen /\ end.SendBuffer = c.SendBuffer
        BY <2>4, <4>1 DEF Conn
      <4> QED BY <2>4, <3>1, <4>2, <4>3 DEF Roomy
    <3>2. CASE outcome # "short"
      <4>1. end = c
        BY <2>5, <3>2
      <4>2. c.RecvBuffer >= need
        BY <2>4 DEF Roomy
      <4>3. c.RecvBuffer \in Nat
        BY <2>4 DEF Conn
      <4> QED BY <2>2, <2>4, <4>1, <4>2, <4>3
    <3> QED BY <3>1, <3>2
  <2>10. past => undo \/ (~b.zbuf /\ t > n /\ outcome # "nohead")
    <3>1. SUFFICES ASSUME ~undo, b.zbuf \/ t <= n PROVE ~past
      BY <1>4
    <3>2. c.RecvBuffer \in Nat /\ c.RecvBuffer >= need
      BY <2>2, <2>4 DEF Conn, Roomy
    <3>3. came <= need
      <4>1. CASE b.zbuf
        BY <2>2, <3>1, <4>1
      <4>2. CASE ~b.zbuf
        BY <2>2, <3>1, <4>2
      <4> QED BY <4>1, <4>2
    <3>4. came \in Nat
      OBVIOUS
    <3> HIDE DEF came
    <3> QED BY <2>2, <2>6, <3>1, <3>2, <3>3, <3>4
  <2>11. lost > 0 => b.zbuf /\ outcome # "ok"
    BY <2>7
  <2>12. did.conn = end /\ did.freed = FALSE /\ did.lost = lost
    BY <2>8 DEF Did
  <2>13. did.past = past
    BY <2>8 DEF Did
  <2>14. did.past \in BOOLEAN /\ (did.past => undo \/ (~b.zbuf /\ t > n /\ outcome # "nohead"))
    BY <2>6, <2>10, <2>13
  <2> QED BY <2>7, <2>9, <2>11, <2>12, <2>14 DEF Received
<1> QED BY <1>3, <1>4

LEMMA FreeFits ==
  ASSUME PackInv, NEW b \in {NetPkg, NetQuicklz, NetMemzip}, NEW did, did = Freeing(b)
  PROVE  /\ did.conn \in Conn /\ Roomy(did.conn, largest)
         /\ did.past = FALSE /\ did.freed = FALSE /\ did.lost = 0
<1>1. largest \in Nat /\ conn.RecvLen = conn.RecvBuffer /\ (conn.SendLen = 0 <=> conn.SendBuffer = 0)
  BY DEF PackInv, PackTypes, Roomy
<1> DEFINE lost == IF b.zbuf THEN 0
                   ELSE (IF conn.SendLen = 0 /\ conn.SendBuffer # 0 THEN 1 ELSE 0)
                        + (IF conn.RecvLen = 0 /\ conn.RecvBuffer # 0 THEN 1 ELSE 0)
<1>2. lost = 0
  BY <1>1
<1>3. did = Did(initconnect, FALSE, FALSE, lost)
  BY DEF Freeing
<1>4. did = Did(initconnect, FALSE, FALSE, 0)
  BY <1>2, <1>3, Zenon
<1>5. initconnect \in Conn /\ Roomy(initconnect, largest)
  BY <1>1 DEF initconnect, Conn, Roomy
<1> QED BY <1>4, <1>5 DEF Did

\* What a call did is noted, and the buffers stay as they should.
LEMMA Noted ==
  ASSUME PackInv, NEW did, NEW failed \in BOOLEAN, NEW longer \in BOOLEAN, Note(did, failed, longer),
         did.conn \in Conn, largest' \in Nat, largest <= largest', Roomy(did.conn, largest'),
         did.past \in BOOLEAN, did.past => undo \/ (build = "pkg" /\ longer),
         did.lost \in Nat, did.lost > 0 => build # "pkg" /\ failed,
         did.freed \in BOOLEAN, did.freed => 2 * largest + 2 > BuildOf.keep,
         data' \in Nat, data' > 0 => did.conn.RecvBuffer > 0
  PROVE  PackInv'
<1>1. /\ conn' = did.conn /\ build' = build /\ undo' = undo
      /\ build \in {"pkg", "quicklz", "memzip"} /\ undo \in BOOLEAN /\ largest \in Nat
  BY DEF Note, PackInv, PackTypes
<1>2. seen \in [past : BOOLEAN, freed : BOOLEAN, lost : Nat, failed : BOOLEAN, longer : BOOLEAN] /\ BuffersKept
  BY DEF PackInv, PackTypes
<1>3. PICK past \in BOOLEAN : past <=> (seen.past \/ did.past)
  OBVIOUS
<1>4. PICK freed \in BOOLEAN : freed <=> (seen.freed \/ did.freed)
  OBVIOUS
<1>5. PICK bad \in BOOLEAN : bad <=> (seen.failed \/ failed)
  OBVIOUS
<1>6. PICK lost \in Nat : lost = seen.lost + did.lost
  BY <1>2
<1>11. PICK long \in BOOLEAN : long <=> (seen.longer \/ longer)
  OBVIOUS
<1>7. seen' = [past |-> past, freed |-> freed, lost |-> lost, failed |-> bad, longer |-> long]
  BY <1>3, <1>4, <1>5, <1>6, <1>11 DEF Note
<1>8. PackTypes'
  BY <1>1, <1>7 DEF PackTypes, Conn
<1>9. Roomy(conn, largest)'
  BY <1>1 DEF Roomy
<1>10. BuffersKept'
  <2>1. (seen.past => undo \/ (build = "pkg" /\ seen.longer))'
    BY <1>1, <1>2, <1>3, <1>7, <1>11 DEF BuffersKept
  <2>2. (seen.lost > 0 => build # "pkg" /\ seen.failed)'
    BY <1>1, <1>2, <1>5, <1>6, <1>7 DEF BuffersKept
  <2>3. BuildOf.keep = (IF build = "pkg" THEN NetPkg.keep ELSE NetQuicklz.keep)
    BY <1>1 DEF BuildOf, NetMemzip, NetQuicklz
  <2>4. NetPkg.keep \in Nat /\ NetQuicklz.keep \in Nat
    BY Builds
  <2>5. (seen.freed => 2 * largest + 2 > (IF build = "pkg" THEN NetPkg.keep ELSE NetQuicklz.keep))'
    BY <1>1, <1>2, <1>4, <1>7, <2>3, <2>4 DEF BuffersKept
  <2>6. (/\ (conn.SendLen = 0) <=> (conn.SendBuffer = 0)
         /\ conn.RecvLen = conn.RecvBuffer)'
    BY <1>9 DEF Roomy
  <2> QED BY <2>1, <2>2, <2>5, <2>6 DEF BuffersKept
<1> QED BY <1>1, <1>8, <1>9, <1>10 DEF PackInv

LEMMA PackStart == PackBuffersInit => PackInv
<1> SUFFICES ASSUME PackBuffersInit PROVE PackInv
  OBVIOUS
<1>1. /\ conn.SendLen = 0 /\ conn.SendBuffer = 0 /\ conn.RecvLen = 0 /\ conn.RecvBuffer = 0
      /\ data = 0 /\ largest = 0
      /\ seen = [past |-> FALSE, freed |-> FALSE, lost |-> 0, failed |-> FALSE, longer |-> FALSE]
  BY DEF PackBuffersInit, initconnect
<1>2. PackTypes
  BY <1>1 DEF PackBuffersInit, initconnect, PackTypes
<1>3. Roomy(conn, largest)
  BY <1>1 DEF Roomy
<1>4. BuffersKept
  BY <1>1 DEF BuffersKept
<1> QED BY <1>1, <1>2, <1>3, <1>4 DEF PackInv

LEMMA PackStep == PackInv /\ [PackBuffersNext]_packBufferVars => PackInv'
<1> SUFFICES ASSUME PackInv, [PackBuffersNext]_packBufferVars PROVE PackInv'
  OBVIOUS
<1>1. /\ PackTypes /\ build \in {"pkg", "quicklz", "memzip"} /\ largest \in Nat /\ data \in Nat
      /\ conn.RecvLen = conn.RecvBuffer /\ conn.RecvLen \in Nat /\ conn.RecvLen <= 2 * largest + 2
      /\ (data > 0 => conn.RecvBuffer > 0)
  BY DEF PackInv, PackTypes, Roomy
<1>2. PICK b \in {NetPkg, NetQuicklz, NetMemzip} : b = BuildOf
  BY <1>1 DEF BuildOf
<1>3. b.keep \in Nat
  BY Builds
<1>4. /\ b.zbuf => build # "pkg"
      /\ ~b.zbuf => build = "pkg"
  <2>1. ~NetPkg.zbuf /\ NetQuicklz.zbuf /\ NetMemzip.zbuf
    BY DEF NetPkg, NetQuicklz, NetMemzip
  <2> QED BY <1>1, <1>2, <2>1 DEF BuildOf
<1>5. ASSUME NEW n \in Nat, NEW head \in HeadOf(n), NEW inRecv \in BOOLEAN, NEW open \in BOOLEAN,
             Note(CallSend(head, inRecv, open), FALSE, FALSE), data' = 0, largest' = largest,
             inRecv => conn.RecvBuffer > 0
      PROVE PackInv'
  <2>1. PICK t \in Nat : head = [PKG_LEN |-> n, T_LEN |-> t] /\ t <= n + 1
    BY HeadLengths
  <2>2. PICK did : did = Sending(b, head, inRecv, open)
    OBVIOUS
  <2>3. CallSend(head, inRecv, open) = did
    BY <1>1, <1>2, <2>2 DEF CallSend, BuildOf, SendPack_pkg, SendPack_quicklz, SendPack_memzip
  <2>4. Sent(did, b, inRecv)
    <3>1. did = Sending(b, [PKG_LEN |-> n, T_LEN |-> t], inRecv, open) /\ t <= n + 1
      BY <2>1, <2>2
    <3> QED BY <3>1, SendFits
  <2>5. /\ did.conn \in Conn /\ Roomy(did.conn, largest)
        /\ did.past \in BOOLEAN /\ (did.past => undo) /\ did.lost = 0
        /\ did.freed \in BOOLEAN
        /\ did.freed => inRecv /\ (conn.RecvBuffer > 0 => conn.RecvLen > b.keep)
    BY <2>4 DEF Sent
  <2>6. did.freed => 2 * largest + 2 > BuildOf.keep
    BY <1>1, <1>2, <1>3, <1>5, <2>5
  <2>7. Note(did, FALSE, FALSE)
    BY <1>5, <2>3
  <2>8. /\ largest' \in Nat /\ largest <= largest' /\ Roomy(did.conn, largest')
        /\ data' \in Nat /\ ~(data' > 0) /\ did.lost \in Nat /\ ~(did.lost > 0)
    BY <1>1, <1>5, <2>5
  <2> QED BY <2>5, <2>6, <2>7, <2>8, Noted, ZenonT(30)
<1>6. CASE SendOne
  BY <1>1, <1>5, <1>6, PackBuffersAssumption DEF SendOne, SentHeads
<1>7. CASE Echo
  BY <1>1, <1>5, <1>7 DEF Echo, SentHeads
<1>8. CASE RecvOne
  <2>1. PICK n \in BodyLengths : \E head \in HeadOf(n), outcome \in Outcomes :
          /\ Note(CallRecv(head, outcome), outcome # "ok", outcome # "nohead" /\ head.T_LEN > n)
          /\ data' = IF outcome = "ok" /\ head.T_LEN > 0 THEN n ELSE 0
          /\ largest' = IF outcome # "nohead" /\ n > largest THEN n ELSE largest
    BY <1>8 DEF RecvOne
  <2>2. PICK head \in HeadOf(n), outcome \in Outcomes :
          /\ Note(CallRecv(head, outcome), outcome # "ok", outcome # "nohead" /\ head.T_LEN > n)
          /\ data' = IF outcome = "ok" /\ head.T_LEN > 0 THEN n ELSE 0
          /\ largest' = IF outcome # "nohead" /\ n > largest THEN n ELSE largest
    BY <2>1
  <2>3. n \in Nat
    BY PackBuffersAssumption
  <2>4. PICK t \in Nat : head = [PKG_LEN |-> n, T_LEN |-> t] /\ t <= n + 1
    BY <2>3, HeadLengths
  <2>6. largest' \in Nat /\ largest <= largest' /\ (outcome # "nohead" => n <= largest')
    BY <1>1, <2>2, <2>3
  <2>7. PICK most \in Nat : most = largest'
    BY <2>6
  <2>8. PICK did : did = Receiving(b, head, outcome)
    OBVIOUS
  <2>9. CallRecv(head, outcome) = did
    BY <1>1, <1>2, <2>8 DEF CallRecv, BuildOf, RecvPack_pkg, RecvPack_quicklz, RecvPack_memzip
  <2>10. Received(did, b, n, t, outcome, most)
    <3>1. /\ did = Receiving(b, [PKG_LEN |-> n, T_LEN |-> t], outcome) /\ t <= n + 1
          /\ largest <= most /\ (outcome # "nohead" => n <= most)
      BY <2>4, <2>6, <2>7, <2>8
    <3> QED BY <2>3, <3>1, RecvFits
  <2>11. /\ did.conn \in Conn /\ Roomy(did.conn, most)
         /\ did.past \in BOOLEAN /\ did.freed = FALSE
         /\ did.past => undo \/ (~b.zbuf /\ t > n /\ outcome # "nohead")
         /\ did.lost \in Nat /\ (did.lost > 0 => b.zbuf /\ outcome # "ok")
         /\ outcome = "ok" /\ t > 0 => did.conn.RecvBuffer > 0
    BY <2>10 DEF Received
  <2>12. data' \in Nat /\ (data' > 0 => did.conn.RecvBuffer > 0)
    BY <2>2, <2>3, <2>4, <2>11
  <2>13. PICK failed \in BOOLEAN : failed = (outcome # "ok")
    OBVIOUS
  <2>18. PICK longer \in BOOLEAN : longer = (outcome # "nohead" /\ head.T_LEN > n)
    OBVIOUS
  <2>14. Note(did, failed, longer)
    BY <2>2, <2>9, <2>13, <2>18, Zenon
  <2>5. did.past => undo \/ (build = "pkg" /\ longer)
    <3>1. head.T_LEN = t
      BY <2>4
    <3> QED BY <1>4, <2>11, <2>18, <3>1
  <2>15. did.lost > 0 => build # "pkg" /\ failed
    BY <1>4, <2>11, <2>13
  <2>16. did.freed \in BOOLEAN /\ (did.freed => 2 * largest + 2 > BuildOf.keep)
    BY <2>11, Zenon
  <2>17. Roomy(did.conn, largest')
    BY <2>7, <2>11
  <2> QED BY <2>5, <2>6, <2>11, <2>12, <2>14, <2>15, <2>16, <2>17, Noted
<1>9. CASE FreeOne
  <2>1. PICK did : did = Freeing(b)
    OBVIOUS
  <2>2. Note(did, FALSE, FALSE) /\ data' = 0 /\ largest' = largest
    <3>1. (CASE build = "pkg" -> freeconnect_pkg
             [] build = "quicklz" -> freeconnect_quicklz
             [] build = "memzip" -> freeconnect_memzip) = did
      BY <1>1, <1>2, <2>1 DEF BuildOf, freeconnect_pkg, freeconnect_quicklz, freeconnect_memzip
    <3> QED BY <1>9, <3>1 DEF FreeOne
  <2>3. /\ did.conn \in Conn /\ Roomy(did.conn, largest)
        /\ did.past = FALSE /\ did.freed = FALSE /\ did.lost = 0
    BY <2>1, FreeFits
  <2>4. /\ did.past \in BOOLEAN /\ (did.past => undo)
        /\ did.freed \in BOOLEAN /\ (did.freed => 2 * largest + 2 > BuildOf.keep)
    BY <2>3, Zenon
  <2>5. /\ largest' \in Nat /\ largest <= largest' /\ Roomy(did.conn, largest')
        /\ data' \in Nat /\ ~(data' > 0) /\ did.lost \in Nat /\ ~(did.lost > 0)
    BY <1>1, <2>2, <2>3
  <2> QED BY <2>2, <2>3, <2>4, <2>5, Noted, ZenonT(30)
<1>10. CASE UNCHANGED packBufferVars
  <2>1. /\ build' = build /\ undo' = undo /\ conn' = conn /\ data' = data
        /\ largest' = largest /\ seen' = seen
    BY <1>10 DEF packBufferVars
  <2> QED BY <2>1 DEF PackInv, PackTypes, Roomy, BuffersKept
<1> QED BY <1>6, <1>7, <1>8, <1>9, <1>10 DEF PackBuffersNext

\* In every sequence of packages sent, echoed and received, whatever of a package comes,
\* nothing is written behind a buffer but in a forwarder, or in the build that is used by
\* a body longer than its text; nothing is lost but in the older builds after a body that
\* did not come as it should, and Echo reads a buffer that was freed only after a package
\* so large that SendPack frees it (net_pkg.c:122-300).
THEOREM BuffersKeptAlways == PackBuffersSpec => []BuffersKept
<1>1. PackInv => BuffersKept
  BY DEF PackInv
<1> QED BY <1>1, PackStart, PackStep, PTL DEF PackBuffersSpec


\* All of it: what is received is what was sent, through the buffers there are
\* (net_pkg.c, net_quicklz.c, net_memzip.c).
THEOREM FramesAgreeAlways == FramesSpec => []FramesAgree
<1>1. FramesSpec => FrameSpec /\ PackBuffersSpec
  BY DEF FramesSpec
<1>2. FramesRead /\ BuffersKept => FramesAgree
  BY DEF FramesAgree
<1> QED BY <1>1, <1>2, FramesReadAlways, BuffersKeptAlways, PTL
=============================================================================

-------------------------------- MODULE Bignum ---------------------------------
(***************************************************************************)
(* The long numbers of crypto/bignum.c, which the key exchange is built on, *)
(* the modular power of mulmod.c and expmod.c, and the texts of a64n.c that *)
(* numbers are sent and stored as.  A number of n words is a sequence, the  *)
(* lowest word first; a carry is 0 or 1.                                    *)
(***************************************************************************)
EXTENDS Integers, Sequences, FiniteSets

CONSTANTS
  BITS,        \* bits of a word (32 in the code)
  DigitBits,   \* bits of a digit of a64n.c (6 in the code)
  Radix,       \* of the other texts (10 in the code)
  MaxWords,    \* words of a number (a bound of the model)
  EdgeWords    \* the words of a dividend (a bound of the model)

ASSUME BignumAssumption ==
  /\ BITS \in Nat /\ DigitBits \in 1 .. BITS - 1 /\ MaxWords \in Nat \ {0}
  /\ Radix \in 2 .. 2^BITS - 1 /\ EdgeWords \subseteq 0 .. 2^BITS - 1

VARIABLES dividend,   \* 2n words
          num         \* n words

bigVars == <<dividend, num>>

W == 2^BITS
Words == 0 .. W - 1
Zero(n) == [i \in 1 .. n |-> 0]
n_one(n) == [i \in 1 .. n |-> IF i = 1 THEN 1 ELSE 0]
n_iszero(a) == a = Zero(Len(a))

-----------------------------------------------------------------------------
(* Sums and differences: [num, cy] *)

adda(d, s, cy) ==
  LET sum == (d + s) % W
      all == (sum + cy) % W
  IN [word |-> all, cy |-> IF sum < s \/ (cy # 0 /\ all = 0) THEN 1 ELSE 0]

suba(d, s, cy) ==
  LET less == (d - s) % W
  IN [word |-> (less - cy) % W, cy |-> IF d < s \/ less < cy THEN 1 ELSE 0]

\* The first n words of d and s, from the lowest, with the carry of the one below.
RECURSIVE Carried(_, _, _, _)
Carried(plus, d, s, n) ==
  IF n = 0 THEN [num |-> d, cy |-> 0]
  ELSE LET below == Carried(plus, d, s, n - 1)
           r == IF plus THEN adda(d[n], s[n], below.cy) ELSE suba(d[n], s[n], below.cy)
       IN [num |-> [below.num EXCEPT ![n] = r.word], cy |-> r.cy]

addm(n, d, s) == Carried(TRUE, d, s, n)
subm(n, d, s) == Carried(FALSE, d, s, n)

\* pd+i
From(d, i) == SubSeq(d, i + 1, Len(d))
addmAt(n, d, i, s) == SubSeq(d, 1, i) \o addm(n, From(d, i), s).num

RECURSIVE incm(_, _)
incm(d, i) ==
  IF i > Len(d) THEN d
  ELSE LET r == adda(d[i], 0, 1)
           e == [d EXCEPT ![i] = r.word]
       IN IF r.cy = 0 THEN e ELSE incm(e, i + 1)

RECURSIVE decm(_, _)
decm(d, i) ==
  IF i > Len(d) THEN d
  ELSE LET r == suba(d[i], 0, 1)
           e == [d EXCEPT ![i] = r.word]
       IN IF r.cy = 0 THEN e ELSE decm(e, i + 1)

RECURSIVE numcmp(_, _, _)
numcmp(n, b, s) ==
  IF n = 0 \/ b[n] # s[n]
  THEN IF n = 0 THEN 0 ELSE IF b[n] < s[n] THEN -1 ELSE 1
  ELSE numcmp(n - 1, b, s)

-----------------------------------------------------------------------------
(* Products *)

mula(a, b) == <<(a * b) % W, (a * b) \div W>>

\* n+1 words
RECURSIVE mul1From(_, _, _, _)
mul1From(a, b, i, m) ==
  IF i = Len(a) THEN m ELSE mul1From(a, b, i + 1, addmAt(2, m, i, mula(a[i + 1], b)))
mul1(a, b) == mul1From(a, b, 0, Zero(Len(a) + 1))

\* 2n words
RECURSIVE mulmFrom(_, _, _, _)
mulmFrom(a, b, i, m) ==
  IF i = Len(b) THEN m
  ELSE mulmFrom(a, b, i + 1, addmAt(Len(a) + 1, m, i, mul1(a, b[i + 1])))
mulm(a, b) == mulmFrom(a, b, 0, Zero(2 * Len(a)))

-----------------------------------------------------------------------------
(* Quotients: [quot, rem] *)

diva(high, low, b) ==
  [quot |-> ((high * W + low) \div b) % W, rem |-> (high * W + low) % b]

RECURSIVE div1From(_, _, _, _, _)
div1From(n, a, b, quot, rem) ==
  IF n = 0 THEN [quot |-> quot, rem |-> rem]
  ELSE LET d == diva(rem, a[n], b)
       IN div1From(n - 1, a, b, [quot EXCEPT ![n] = d.quot], d.rem)
div1(a, b) == div1From(Len(a), a, b, Zero(Len(a)), 0)

\* The estimate is too large: one off it, and off the product, until the product fits.
RECURSIVE Lowered(_, _, _, _)
Lowered(n, tmp, t1, by) ==
  IF numcmp(n + 1, tmp, t1.num) >= 0 THEN t1
  ELSE LET s == subm(n, t1.num, by)
       IN Lowered(n, tmp, [num |-> [s.num EXCEPT ![n + 1] = (@ - s.cy) % W],
                           q |-> (t1.q - 1) % W], by)

\* Or too small: one on it while the divisor still fits.
RECURSIVE Raised(_, _, _)
Raised(n, t, by) ==
  IF t.num[n + 1] = 0 /\ numcmp(n, t.num, by) < 0 THEN t
  ELSE LET s == subm(n, t.num, by)
       IN Raised(n, [num |-> [s.num EXCEPT ![n + 1] = (@ - s.cy) % W],
                     q |-> (t.q + 1) % W], by)

\* Mutant: where the highest words are equal the estimate is what fits in a word.
EstimateWrapped(high, low, testb) == diva(high, low, testb).quot

\* One word of the quotient, estimated with the highest word of the divisor.
Estimate(high, low, testb) == IF high = testb THEN W - 1 ELSE diva(high, low, testb).quot

QuotientWord(n, tmp, by) ==
  LET qtmp == Estimate(tmp[n + 1], tmp[n], by[n])
      t1 == [num |-> mul1(by, qtmp), q |-> qtmp]
      low == Lowered(n, tmp, t1, by)
  IN IF qtmp = 0 THEN [num |-> tmp, q |-> 0]
     ELSE IF numcmp(n + 1, tmp, t1.num) < 0
     THEN [num |-> subm(n + 1, tmp, low.num).num, q |-> low.q]
     ELSE Raised(n, [num |-> subm(n + 1, tmp, t1.num).num, q |-> qtmp], by)

RECURSIVE divmFrom(_, _, _, _, _)
divmFrom(j, div, by, quot, tmp) ==
  LET n == Len(by)
      w == QuotientWord(n, <<div[j]>> \o SubSeq(tmp, 1, n), by)
  IN IF j = 0 THEN [quot |-> quot, rem |-> SubSeq(tmp, 1, n)]
     ELSE divmFrom(j - 1, div, by, [quot EXCEPT ![j] = w.q], w.num)

\* The divisor's highest word is not 0, the high half of the dividend is below it.
divm(div, by) ==
  LET n == Len(by)
  IN divmFrom(n, div, by, Zero(n), From(div, n))

mulmod(a, b, m) == divm(mulm(a, b), m).rem

-----------------------------------------------------------------------------
(* Shifts by fewer bits than a word has: [num, cy], the bits shifted out *)

rshift(a, i) ==
  [num |-> [j \in DOMAIN a |->
     (a[j] \div 2^i) + IF j < Len(a) THEN (a[j + 1] * 2^(BITS - i)) % W ELSE 0],
   cy |-> a[1] % 2^i]

lshift(a, i) ==
  [num |-> [j \in DOMAIN a |->
     ((a[j] * 2^i) % W) + IF j > 1 THEN a[j - 1] \div 2^(BITS - i) ELSE 0],
   cy |-> a[Len(a)] \div 2^(BITS - i)]

\* x * a^z % m
RECURSIVE expmodFrom(_, _, _, _)
expmodFrom(a, z, m, x) ==
  IF n_iszero(z) THEN x
  ELSE IF z[1] % 2 = 0
  THEN expmodFrom(mulmod(a, a, m), rshift(z, 1).num, m, x)
  ELSE expmodFrom(a, decm(z, 1), m, mulmod(x, a, m))

expmod(a, z, m) == expmodFrom(a, z, m, n_one(Len(m)))

-----------------------------------------------------------------------------
(* Texts: the highest digit first *)

RECURSIVE str_n64a(_)
str_n64a(a) ==
  IF n_iszero(a) THEN <<>>
  ELSE LET s == rshift(a, DigitBits) IN Append(str_n64a(s.num), s.cy)

\* Reads digits into a as long as they fit: the number and how many were read.
\* A digit that does not fit is left, what it pushed out is put back.
RECURSIVE str_a64n(_, _, _)
str_a64n(str, read, a) ==
  LET s == lshift(a, DigitBits)
      back == rshift(s.num, DigitBits).num
  IN IF read = Len(str) THEN [num |-> a, read |-> read]
     ELSE IF s.cy # 0
     THEN [num |-> [back EXCEPT ![Len(a)] = @ + s.cy * 2^(BITS - DigitBits)], read |-> read]
     ELSE str_a64n(str, read + 1, [s.num EXCEPT ![1] = @ + str[read + 1]])

RECURSIVE d_to_b(_, _)
d_to_b(str, n) ==
  IF str = <<>> THEN Zero(n)
  ELSE LET front == d_to_b(SubSeq(str, 1, Len(str) - 1), n)
           last == [i \in 1 .. n |-> IF i = 1 THEN str[Len(str)] % Radix ELSE 0]
       IN addm(n, SubSeq(mul1(front, Radix), 1, n), last).num

RECURSIVE b_to_d(_)
b_to_d(a) ==
  LET d == div1(a, Radix)
  IN IF n_iszero(d.quot) THEN <<d.rem>> ELSE Append(b_to_d(d.quot), d.rem)

-----------------------------------------------------------------------------
(* Any two numbers: GiveNumbers chooses them. *)

BigInit == dividend = <<>> /\ num = <<>>

GiveNumbers ==
  /\ num = <<>>
  /\ \E n \in 1 .. MaxWords :
       /\ dividend' \in [1 .. 2 * n -> IF n = 1 THEN Words ELSE EdgeWords]
       /\ num' \in [1 .. n -> Words]

BigNext == GiveNumbers

-----------------------------------------------------------------------------
(* Properties. *)

Given == num # <<>>

RECURSIVE Number(_)
Number(a) == IF a = <<>> THEN 0 ELSE a[1] + W * Number(Tail(a))
RECURSIVE Power(_, _, _)
Power(a, z, m) == IF z = 0 THEN 1 ELSE (a * Power(a, z - 1, m)) % m

\* The low half of the dividend, a number like num.
LowHalf == SubSeq(dividend, 1, Len(num))

\* addm, subm, incm, decm, numcmp, mulm: words and carries make up the sum, the
\* difference and the product of the numbers, wrapped at n words.
SumsRight ==
  Given =>
    LET a == Number(LowHalf)
        b == Number(num)
        all == W^Len(num)
        sum == addm(Len(num), LowHalf, num)
        less == subm(Len(num), LowHalf, num)
    IN /\ Number(sum.num) + all * sum.cy = a + b
       /\ Number(less.num) - all * less.cy = a - b
       /\ Number(incm(num, 1)) = (b + 1) % all /\ Number(decm(num, 1)) = (b - 1) % all
       /\ numcmp(Len(num), LowHalf, num) = IF a < b THEN -1 ELSE IF a = b THEN 0 ELSE 1
       /\ Number(mulm(LowHalf, num)) = a * b

\* divm: whatever the estimates of the words were, quotient and remainder are
\* those of the division, as long as the quotient has room in n words.
Divides ==
  (Given /\ num[Len(num)] # 0 /\ Number(From(dividend, Len(num))) < Number(num)) =>
    LET d == divm(dividend, num) IN
    /\ Number(d.quot) = Number(dividend) \div Number(num)
    /\ Number(d.rem) = Number(dividend) % Number(num)

\* expmod: the power by squares is the power.
PowerRight ==
  (Given /\ num[Len(num)] # 0 /\ Number(LowHalf) < Number(num)) =>
    LET z == From(dividend, Len(num)) IN
    Number(expmod(LowHalf, z, num)) = Power(Number(LowHalf), Number(z), Number(num)) % W^Len(num)

\* A number is read back from both texts; of a longer text as many digits are
\* read as fit, and the number is that of the digits that were read.
TextsRead ==
  Given =>
    LET str == str_n64a(num) \o str_n64a(LowHalf)
        r == str_a64n(str, 0, Zero(Len(num)))
        Value[i \in 0 .. Len(str)] ==
          IF i = 0 THEN 0 ELSE 2^DigitBits * Value[i - 1] + str[i]
    IN /\ Number(r.num) = Value[r.read]
       /\ r.read < Len(str) => Value[r.read + 1] >= W^Len(num)
       /\ str_a64n(str_n64a(num), 0, Zero(Len(num))).num = num
       /\ d_to_b(b_to_d(num), Len(num)) = num

\* The arithmetic that the key exchange rests on, with words at both ends of their
\* range.
NumbersRight == SumsRight /\ Divides /\ PowerRight /\ TextsRead
=============================================================================

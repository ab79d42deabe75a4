---------------------------------- MODULE Des ----------------------------------
(***************************************************************************)
(* DES as crypt uses it: the schedule of a key and the keys it warns of     *)
(* (set_key.c), the 25 encryptions of the zero block whose expansion the     *)
(* salt disturbs (fcrypt.c, fcrypt_b.c, des_locl.h), and the key that a      *)
(* client and its server make with it of a number (prikey128.c).  A word is  *)
(* the set of the places of its ones; what a table of words holds is named   *)
(* by these places.                                                          *)
(***************************************************************************)
EXTENDS Integers, Sequences, FiniteSets

CONSTANTS
  DesKeys,     \* keys of eight bytes, to schedule
  Passwords,       \* passwords and salts, of bytes
  Numbers,     \* numbers of 128 bits, as sets of places
  family       \* the 32 words that keys are made of

ASSUME DesAssumption ==
  /\ \A k \in DesKeys : k \in [1 .. 8 -> 0 .. 255]
  /\ \A t \in Passwords :
       t.salt \in (0 .. 127) \X (0 .. 127) /\ \A i \in DOMAIN t.password : t.password[i] \in 1 .. 255
  /\ Numbers \subseteq SUBSET (0 .. 127) /\ family \in [0 .. 31 -> SUBSET (0 .. 31)]

VARIABLES
  desKey,    \* a key that is scheduled
  password,  \* a password that is encrypted
  salt,      \* with a salt
  number     \* a number that a key is made of
desVars == <<desKey, password, salt, number>>

-----------------------------------------------------------------------------
(* Words of 32 bits, and macros of des_locl.h. *)

OnesOf(b) == {i \in 0 .. 7 : (b \div 2^i) % 2 = 1}
Exor(v, w) == (v \ w) \cup (w \ v)
ShiftL(w, n) == {i + n : i \in w} \cap (0 .. 31)
ShiftR(w, n) == {i - n : i \in w} \cap (0 .. 31)
RotateR(w, n, width) == {(i - n) % width : i \in w}

\* Four bytes, the lowest first.
DesWord(bytes, from) == {n \in 0 .. 31 : n % 8 \in OnesOf(bytes[from + n \div 8])}

PERM_OP(a, b, n, m) ==
  LET t == Exor(ShiftR(a, n), b) \cap m IN <<Exor(a, ShiftL(t, n)), Exor(b, t)>>
HPERM_OP(a, n, m) ==
  LET t == Exor(ShiftL(a, 16 - n), a) \cap m IN Exor(Exor(a, t), ShiftR(t, 16 - n))
\* The masks: of every 2 * n places the lower n.
Alternate(n) == {i \in 0 .. 31 : i % (2 * n) < n}
\* One more exchange between two words, the other way round.
Exchanged(pair, n) == PERM_OP(pair[2], pair[1], n, Alternate(n))

-----------------------------------------------------------------------------
(* set_key.c *)

\* The lowest bit of a byte makes the number of its ones odd.
odd_parity(b) == 2 * (b \div 2) + 1 - (Cardinality(OnesOf(b) \ {0}) % 2)
DES_check_key_parity(key) == \A i \in DOMAIN key : key[i] = odd_parity(key[i])

\* The weak keys are four pairs of bytes four times over, the first of both pairs
\* the bytes of the first half, the second of the second; six pairs of keys are
\* semi-weak.
Alternating(a, b, c, d) == <<a, b, a, b, c, d, c, d>>
BothWays(a, b, c, d) == {Alternating(a, b, c, d), Alternating(b, a, d, c)}
weak_keys ==
  BothWays(\h01, \h01, \h01, \h01) \cup BothWays(\hFE, \hFE, \hFE, \hFE)
  \cup BothWays(\h1F, \h1F, \h0E, \h0E) \cup BothWays(\hE0, \hE0, \hF1, \hF1)
  \cup BothWays(\h01, \hFE, \h01, \hFE) \cup BothWays(\h1F, \hE0, \h0E, \hF1)
  \cup BothWays(\h01, \hE0, \h01, \hF1) \cup BothWays(\h1F, \hFE, \h0E, \hFE)
  \cup BothWays(\h01, \h1F, \h01, \h0E) \cup BothWays(\hE0, \hFE, \hF1, \hFE)
DES_is_weak_key(key) == key \in weak_keys

\* des_skb: the places of a half of the key that a subkey takes, in the order of the
\* bits of the tables' indices, and the place that the table of each has for it.
TakenFrom == <<<<0, 1, 2, 3, 4, 5>>, <<6, 7, 9, 10, 11, 12>>, <<13, 14, 15, 16, 18, 19>>, <<20, 22, 23, 25, 26, 27>>,
               <<0, 1, 2, 3, 4, 5>>, <<7, 8, 10, 11, 12, 13>>, <<15, 16, 17, 18, 19, 20>>, <<21, 22, 23, 24, 26, 27>>>>
des_skb == <<<<4, 29, 16, 11, 5, 19>>, <<25, 13, 21, 2, 10, 28>>, <<0, 18, 24, 1, 9, 27>>, <<20, 8, 3, 12, 26, 17>>,
             <<28, 16, 2, 29, 20, 12>>, <<27, 3, 10, 17, 0, 25>>, <<8, 19, 24, 4, 21, 9>>, <<26, 18, 1, 13, 5, 11>>>>
Looked(tables, half) ==
  UNION {{des_skb[k][b] : b \in {j \in 1 .. 6 : TakenFrom[k][j] \in half}} : k \in tables}

\* The two halves of the key, without the parity bits, and no subkey yet.
Halves(d, c) ==
  [c |-> c \cap (0 .. 27),
   d |-> ShiftL(d \cap (0 .. 7), 16) \cup (d \cap (8 .. 15)) \cup ShiftR(d \cap (16 .. 23), 16)
         \cup ShiftR(c \cap (28 .. 31), 4),
   k |-> <<>>]
Permuted(key) ==
  LET p1 == PERM_OP(DesWord(key, 5), DesWord(key, 1), 4, Alternate(4))
      top == {i \in 16 .. 31 : i % 4 >= 2}
      p2 == PERM_OP(HPERM_OP(p1[1], -2, top), HPERM_OP(p1[2], -2, top), 1, Alternate(1))
      p4 == Exchanged(Exchanged(p2, 8), 1)
  IN Halves(p4[1], p4[2])

\* Mutant: the ninth round turns as far as its neighbours.
shifts2_Even == <<0, 0, 1, 1, 1, 1, 1, 1, 1, 1, 1, 1, 1, 1, 1, 0>>

shifts2 == <<0, 0, 1, 1, 1, 1, 1, 1, 0, 1, 1, 1, 1, 1, 1, 0>>

\* The pairs of subkeys of the 16 rounds.
Subkey(s, t) == <<RotateR(ShiftL(t, 16) \cup (s \cap (0 .. 15)), 30, 32),
                  RotateR(ShiftR(s, 16) \cup (t \cap (16 .. 31)), 26, 32)>>
DES_set_key_unchecked(key) ==
  LET rounds[i \in 0 .. 16] ==
        IF i = 0 THEN Permuted(key)
        ELSE LET before == rounds[i - 1]
                 c == RotateR(before.c, 1 + shifts2[i], 28)
                 d == RotateR(before.d, 1 + shifts2[i], 28)
             IN [c |-> c, d |-> d, k |-> Append(before.k, Subkey(Looked(1 .. 4, c), Looked(5 .. 8, d)))]
  IN rounds[16].k

DES_set_key_checked(key) ==
  IF ~DES_check_key_parity(key) THEN -1 ELSE IF DES_is_weak_key(key) THEN -2 ELSE 0

-----------------------------------------------------------------------------
(* fcrypt_b.c: the places that the words of a table of DES_SPtrans have, and which of *)
(* them each word has, as a number of four bits.                                      *)

SPplaces == <<<<1, 11, 19, 25>>, <<4, 15, 20, 30>>, <<0, 8, 18, 26>>, <<3, 12, 22, 28>>,
              <<5, 10, 16, 27>>, <<6, 13, 21, 31>>, <<2, 9, 14, 24>>, <<7, 17, 23, 29>>>>
SPnibbles ==
  <<
    <<14, 4, 9, 15, 8, 7, 5, 9, 7, 14, 12, 3, 11, 8, 0, 5, 4, 1, 10, 6, 15, 12, 3, 10, 1, 2, 6, 13,
      2, 11, 13, 0, 0, 15, 10, 5, 14, 4, 3, 10, 13, 2, 6, 9, 7, 1, 9, 12, 15, 6, 12, 11, 8, 3, 5, 0,
      4, 8, 11, 14, 1, 13, 2, 7>>,
    <<15, 0, 6, 12, 9, 3, 10, 6, 2, 13, 1, 10, 5, 14, 12, 1, 4, 11, 13, 2, 7, 8, 0, 5, 11, 7, 14, 9,
      8, 4, 3, 15, 5, 14, 10, 7, 15, 5, 9, 0, 8, 3, 4, 13, 2, 8, 7, 11, 14, 2, 0, 9, 1, 15, 6, 12,
      13, 4, 3, 10, 11, 1, 12, 6>>,
    <<9, 14, 2, 11, 5, 8, 11, 6, 10, 4, 12, 1, 15, 3, 1, 13, 0, 5, 14, 2, 3, 15, 4, 9, 13, 10, 7, 12,
      6, 0, 8, 7, 14, 2, 1, 4, 3, 5, 12, 11, 0, 14, 6, 13, 5, 8, 15, 1, 7, 9, 8, 15, 4, 10, 11, 6,
      10, 0, 13, 3, 9, 7, 2, 12>>,
    <<7, 10, 1, 15, 0, 12, 11, 5, 14, 9, 8, 3, 9, 7, 4, 8, 13, 6, 2, 1, 6, 11, 12, 2, 3, 0, 5, 14,
      10, 13, 15, 4, 13, 3, 4, 9, 6, 10, 1, 12, 11, 0, 2, 5, 0, 13, 14, 2, 8, 15, 7, 4, 15, 1, 10, 7,
      5, 6, 12, 11, 3, 8, 9, 14>>,
    <<8, 4, 2, 15, 13, 10, 7, 12, 4, 1, 9, 6, 11, 13, 14, 0, 6, 8, 5, 3, 10, 7, 0, 9, 1, 11, 15, 5,
      12, 2, 3, 14, 14, 11, 5, 12, 4, 1, 9, 10, 8, 6, 15, 0, 7, 8, 2, 5, 11, 2, 0, 15, 13, 14, 3, 4,
      6, 13, 10, 3, 1, 7, 12, 9>>,
    <<9, 5, 0, 14, 5, 2, 11, 4, 3, 15, 6, 8, 10, 9, 12, 7, 4, 11, 13, 0, 2, 1, 14, 13, 15, 12, 8, 3,
      1, 6, 7, 10, 3, 8, 10, 7, 14, 5, 0, 10, 8, 2, 13, 4, 5, 15, 6, 1, 15, 6, 4, 11, 9, 12, 7, 0, 2,
      9, 11, 14, 12, 3, 1, 13>>,
    <<4, 2, 10, 9, 15, 5, 6, 0, 8, 11, 3, 12, 1, 14, 12, 3, 11, 4, 5, 15, 0, 10, 9, 6, 13, 7, 14, 1,
      7, 13, 2, 8, 7, 12, 13, 3, 4, 2, 8, 13, 11, 7, 6, 0, 2, 9, 1, 10, 0, 11, 10, 6, 3, 4, 15, 8,
      14, 1, 5, 15, 9, 14, 12, 5>>,
    <<13, 14, 3, 0, 10, 5, 12, 15, 1, 8, 6, 3, 7, 11, 9, 12, 2, 7, 5, 10, 15, 9, 0, 6, 8, 4, 11, 13,
      4, 2, 14, 1, 4, 2, 9, 15, 3, 8, 0, 6, 13, 11, 10, 5, 14, 1, 5, 10, 15, 4, 12, 9, 6, 3, 11, 12,
      1, 14, 7, 0, 8, 13, 2, 7>>
  >>
DES_SPtrans ==
  [k \in 0 .. 7 |-> [n \in 0 .. 63 |-> {SPplaces[k + 1][b + 1] : b \in OnesOf(SPnibbles[k + 1][n + 1])}]]

\* n bits of a word, as a number.
Field(w, from, n) ==
  LET upto[i \in 0 .. n] == IF i = 0 THEN 0 ELSE upto[i - 1] + IF from + i - 1 \in w THEN 2^(i - 1) ELSE 0
  IN upto[n]

\* What the salt exchanges between the halves of r, with a subkey.
LOAD_DATA(r, subkey, swapped) ==
  LET t == Exor(r, ShiftR(r, 16)) \cap swapped IN Exor(Exor(t, Exor(r, subkey)), ShiftL(t, 16))

D_ENCRYPT(ll, r, subkeys, E0, E1) ==
  LET u == LOAD_DATA(r, subkeys[1], E0)
      t == RotateR(LOAD_DATA(r, subkeys[2], E1), 4, 32)
      even == {DES_SPtrans[2 * i][Field(u, 8 * i + 2, 6)] : i \in 0 .. 3}
      odd == {DES_SPtrans[2 * i + 1][Field(t, 8 * i + 2, 6)] : i \in 0 .. 3}
  IN Exor(ll, UNION (even \cup odd))    \* no two tables have a place in common

fcrypt_body(schedule, E0, E1) ==
  LET rounds[j \in 0 .. 25, i \in 0 .. 16] ==
        IF i = 0 THEN IF j = 0 THEN <<{}, {}>>
                      ELSE LET end == rounds[j - 1, 16] IN <<end[2], end[1]>>
        ELSE LET lr == rounds[j, i - 1]
             IN <<lr[2], D_ENCRYPT(lr[1], lr[2], schedule[i], E0, E1)>>
      end == rounds[25, 0]
      p1 == PERM_OP(RotateR(end[1], 3, 32), RotateR(end[2], 3, 32), 1, Alternate(1))
      p5 == Exchanged(Exchanged(Exchanged(Exchanged(p1, 8), 2), 16), 4)
  IN <<p5[2], p5[1]>>

-----------------------------------------------------------------------------
(* fcrypt.c *)

\* The number of a character of the salt; more than 63 when it is none of the 64.
con_salt(c) == IF c < 58 THEN (c + \hD2) % 256 ELSE IF c < 91 THEN c - 53 ELSE c - 59
cov_2char(n) == IF n < 12 THEN n + 46 ELSE IF n < 38 THEN n + 53 ELSE n + 59

\* Bits of a block from the highest one of its first byte on, none behind its 64.
BlockBit(out, n) ==
  IF n < 64 /\ 8 * ((n \div 8) % 4) + 7 - (n % 8) \in out[1 + n \div 32] THEN 1 ELSE 0

SixBits(out, n) == 32 * BlockBit(out, n) + 16 * BlockBit(out, n + 1) + 8 * BlockBit(out, n + 2)
                   + 4 * BlockBit(out, n + 3) + 2 * BlockBit(out, n + 4) + BlockBit(out, n + 5)

DES_fcrypt(buf, two) ==
  LET ret == [i \in 1 .. 2 |-> IF two[i] = 0 THEN 65 ELSE two[i]]
      key == [i \in 1 .. 8 |-> IF i <= Len(buf) THEN (buf[i] * 2) % 256 ELSE 0]
      out == fcrypt_body(DES_set_key_unchecked(key),
                         ShiftL(OnesOf(con_salt(ret[1])), 2), ShiftL(OnesOf(con_salt(ret[2])), 6))
  IN ret \o [i \in 1 .. 11 |-> cov_2char(SixBits(out, 6 * (i - 1)))]

-----------------------------------------------------------------------------
(* prikey128.c *)

\* A number of 128 bits gives, from its lowest bit on, the salt, a word of the family
\* and a shift, by which the password is taken from three words, and 13 bytes.
prikey128(ind) ==
  LET two == <<Field(ind, 0, 7), Field(ind, 7, 7)>>
      b == Field(ind, 14, 5)
      c == Field(ind, 19, 5)
      d == UNION {{32 * i + p : p \in family[(b + i) % 32]} : i \in 0 .. 2}
      shifted == {p - c : p \in {q \in d : q >= c}}
      key == [i \in 1 .. 8 |-> Field(shifted, 6 * (i - 1), 6) + \h21]
  IN DES_fcrypt(key, two) \o [i \in 1 .. 13 |-> Field(ind, 24 + 8 * (i - 1), 8)]

-----------------------------------------------------------------------------
(* Keys, passwords and numbers. *)

DesInit == desKey = <<>> /\ password = <<>> /\ salt = <<>> /\ number = {}

Nothing == desKey = <<>> /\ salt = <<>> /\ number = {}

ScheduleKey ==
  Nothing /\ desKey' \in DesKeys /\ UNCHANGED <<password, salt, number>>
EncryptPassword ==
  /\ Nothing
  /\ \E t \in Passwords : password' = t.password /\ salt' = t.salt
  /\ UNCHANGED <<desKey, number>>
MakeKey ==
  Nothing /\ number' \in Numbers /\ UNCHANGED <<desKey, password, salt>>

DesNext == ScheduleKey \/ EncryptPassword \/ MakeKey

-----------------------------------------------------------------------------
(* FIPS 46 and crypt(3): bits are numbered from 1, the highest first, and a block is *)
(* the set of its ones.                                                               *)

Picked(table, w) == {i \in DOMAIN table : table[i] \in w}
InitialPermutation == [i \in 1 .. 64 |->
  LET row == (i - 1) \div 8 IN (IF row < 4 THEN 58 + 2 * row ELSE 49 + 2 * row) - 8 * ((i - 1) % 8)]
FinalPermutation == [i \in 1 .. 64 |-> CHOOSE j \in 1 .. 64 : InitialPermutation[j] = i]
Expansion == [i \in 1 .. 48 |-> ((4 * ((i - 1) \div 6) + ((i - 1) % 6) + 31) % 32) + 1]
Permutation == <<16, 7, 20, 21, 29, 12, 28, 17, 1, 15, 23, 26, 5, 18, 31, 10,
                 2, 8, 24, 14, 32, 27, 3, 9, 19, 13, 30, 6, 22, 11, 4, 25>>
PC1C == [i \in 1 .. 28 |-> 57 - 8 * ((i - 1) % 8) + (i - 1) \div 8]
PC1D == [i \in 1 .. 28 |-> IF i > 24 THEN 28 - 8 * (i - 25) ELSE 63 - 8 * ((i - 1) % 8) - (i - 1) \div 8]
PC2 == <<14, 17, 11, 24, 1, 5, 3, 28, 15, 6, 21, 10, 23, 19, 12, 4, 26, 8, 16, 7, 27, 20, 13, 2,
         41, 52, 31, 37, 47, 55, 30, 40, 51, 45, 33, 48, 44, 49, 39, 56, 34, 53, 46, 42, 50, 36, 29, 32>>
SBoxes ==
  <<
    <<14, 4, 13, 1, 2, 15, 11, 8, 3, 10, 6, 12, 5, 9, 0, 7, 0, 15, 7, 4, 14, 2, 13, 1, 10, 6, 12, 11,
      9, 5, 3, 8, 4, 1, 14, 8, 13, 6, 2, 11, 15, 12, 9, 7, 3, 10, 5, 0, 15, 12, 8, 2, 4, 9, 1, 7, 5,
      11, 3, 14, 10, 0, 6, 13>>,
    <<15, 1, 8, 14, 6, 11, 3, 4, 9, 7, 2, 13, 12, 0, 5, 10, 3, 13, 4, 7, 15, 2, 8, 14, 12, 0, 1, 10,
      6, 9, 11, 5, 0, 14, 7, 11, 10, 4, 13, 1, 5, 8, 12, 6, 9, 3, 2, 15, 13, 8, 10, 1, 3, 15, 4, 2,
      11, 6, 7, 12, 0, 5, 14, 9>>,
    <<10, 0, 9, 14, 6, 3, 15, 5, 1, 13, 12, 7, 11, 4, 2, 8, 13, 7, 0, 9, 3, 4, 6, 10, 2, 8, 5, 14,
      12, 11, 15, 1, 13, 6, 4, 9, 8, 15, 3, 0, 11, 1, 2, 12, 5, 10, 14, 7, 1, 10, 13, 0, 6, 9, 8, 7,
      4, 15, 14, 3, 11, 5, 2, 12>>,
    <<7, 13, 14, 3, 0, 6, 9, 10, 1, 2, 8, 5, 11, 12, 4, 15, 13, 8, 11, 5, 6, 15, 0, 3, 4, 7, 2, 12,
      1, 10, 14, 9, 10, 6, 9, 0, 12, 11, 7, 13, 15, 1, 3, 14, 5, 2, 8, 4, 3, 15, 0, 6, 10, 1, 13, 8,
      9, 4, 5, 11, 12, 7, 2, 14>>,
    <<2, 12, 4, 1, 7, 10, 11, 6, 8, 5, 3, 15, 13, 0, 14, 9, 14, 11, 2, 12, 4, 7, 13, 1, 5, 0, 15, 10,
      3, 9, 8, 6, 4, 2, 1, 11, 10, 13, 7, 8, 15, 9, 12, 5, 6, 3, 0, 14, 11, 8, 12, 7, 1, 14, 2, 13,
      6, 15, 0, 9, 10, 4, 5, 3>>,
    <<12, 1, 10, 15, 9, 2, 6, 8, 0, 13, 3, 4, 14, 7, 5, 11, 10, 15, 4, 2, 7, 12, 9, 5, 6, 1, 13, 14,
      0, 11, 3, 8, 9, 14, 15, 5, 2, 8, 12, 3, 7, 0, 4, 10, 1, 13, 11, 6, 4, 3, 2, 12, 9, 5, 15, 10,
      11, 14, 1, 7, 6, 0, 8, 13>>,
    <<4, 11, 2, 14, 15, 0, 8, 13, 3, 12, 9, 7, 5, 10, 6, 1, 13, 0, 11, 7, 4, 9, 1, 10, 14, 3, 5, 12,
      2, 15, 8, 6, 1, 4, 11, 13, 12, 3, 7, 14, 10, 15, 6, 8, 0, 5, 9, 2, 6, 11, 13, 8, 1, 4, 10, 7,
      9, 5, 0, 15, 14, 2, 3, 12>>,
    <<13, 2, 8, 4, 6, 15, 11, 1, 10, 9, 3, 14, 5, 0, 12, 7, 1, 15, 13, 8, 10, 3, 7, 4, 12, 5, 6, 11,
      0, 14, 9, 2, 7, 11, 4, 1, 9, 12, 14, 2, 0, 6, 10, 13, 15, 3, 5, 8, 2, 1, 14, 7, 4, 10, 8, 13,
      15, 12, 9, 0, 3, 5, 6, 11>>
  >>
TotalTurns == <<1, 2, 4, 6, 8, 10, 12, 14, 15, 17, 19, 21, 23, 25, 27, 28>>

KeyBits(key) == {i \in 1 .. 64 : 7 - ((i - 1) % 8) \in OnesOf(key[1 + (i - 1) \div 8])}
TurnedLeft(w, n) == {((i - n - 1) % 28) + 1 : i \in w}
Subkeys(key) ==
  LET C == Picked(PC1C, KeyBits(key))
      D == Picked(PC1D, KeyBits(key))
      upto[r \in 0 .. 16] ==
        IF r = 0 THEN <<>>
        ELSE Append(upto[r - 1], Picked(PC2, TurnedLeft(C, TotalTurns[r])
                                             \cup {28 + i : i \in TurnedLeft(D, TotalTurns[r])}))
  IN upto[16]

\* Exchanges bits i and i + 24 of an expanded half where the salt has the bit i - 1.
Salted(x, n) ==
  LET in(i) == (n \div 2^((i - 1) % 24)) % 2 = 1
      other(i) == IF i <= 24 THEN i + 24 ELSE i - 24
  IN {i \in 1 .. 48 : (IF in(i) THEN other(i) ELSE i) \in x}
Cipher(half, subkey, n) ==
  LET x == Exor(Salted(Picked(Expansion, half), n), subkey)
      at(i, weight) == IF i \in x THEN weight ELSE 0
      boxed(k) == SBoxes[k + 1][1 + at(6 * k + 1, 32) + at(6 * k + 6, 16) + at(6 * k + 2, 8) + at(6 * k + 3, 4)
                                + at(6 * k + 4, 2) + at(6 * k + 5, 1)]
  IN Picked(Permutation, UNION {{4 * k + 4 - i : i \in OnesOf(boxed(k))} : k \in 0 .. 7})

Encrypted(block, subkeys, n) ==
  LET start == Picked(InitialPermutation, block)
      rounds[r \in 0 .. 16] ==
        IF r = 0 THEN <<start \cap (1 .. 32), {i \in 1 .. 32 : i + 32 \in start}>>
        ELSE LET lr == rounds[r - 1] IN <<lr[2], Exor(lr[1], Cipher(lr[2], subkeys[r], n))>>
      end == rounds[16]
  IN Picked(FinalPermutation, end[2] \cup {i + 32 : i \in end[1]})

\* The block that 25 encryptions make of zeros, with a salt of 12 bits.
Crypted(text, n) ==
  LET key == [i \in 1 .. 8 |-> IF i <= Len(text) THEN 2 * (text[i] % 128) ELSE 0]
      subkeys == Subkeys(key)
      times[j \in 0 .. 25] == IF j = 0 THEN {} ELSE LET block == times[j - 1] IN Encrypted(block, subkeys, n)
  IN times[25]

SaltNumber(two) == (con_salt(two[1]) % 64) + 64 * (con_salt(two[2]) % 64)

-----------------------------------------------------------------------------
(* Properties. *)

\* crypt of any password and salt, of characters that are none of the 64 too, is 25
\* times DES with the salt's exchanges, as FIPS 46 defines it (fcrypt.c:99, set_key.c:341,
\* fcrypt_b.c:80).
CryptRight ==
  salt # <<>> =>
    LET ret == DES_fcrypt(password, salt)
        used == [i \in 1 .. 2 |-> IF salt[i] = 0 THEN 65 ELSE salt[i]]
        block == Crypted(password, SaltNumber(used))
        six(k) == {i \in 1 .. 6 : 6 * k + i \in block}
        number6(w) == LET at(i) == IF i \in w THEN 2^(6 - i) ELSE 0
                      IN at(1) + at(2) + at(3) + at(4) + at(5) + at(6)
    IN ret = used \o [k \in 1 .. 11 |-> cov_2char(number6(six(k - 1)))]

\* A key of odd parity is called weak exactly when its subkeys are of at most two
\* kinds, and then those of a listed key in reverse are its own; the parity of a key
\* is of no concern to its subkeys (set_key.c:112-155).
WeakKeysRight ==
  desKey # <<>> =>
    LET key == [i \in 1 .. 8 |-> odd_parity(desKey[i])]
        subkeys == DES_set_key_unchecked(key)
        kinds == {subkeys[i] : i \in 1 .. 16}
        checked == DES_set_key_checked(key)
    IN /\ DES_set_key_unchecked(desKey) = subkeys
       /\ DES_set_key_checked(desKey) = IF desKey = key THEN checked ELSE -1
       /\ checked = IF Cardinality(kinds) <= 2 THEN -2 ELSE 0
       /\ checked = -2 =>
            \E weak \in weak_keys : DES_set_key_unchecked(weak) = [i \in 1 .. 16 |-> subkeys[17 - i]]

\* The password of a private key is 48 bits of the family read as one ring of bits, at
\* any place of it, whatever words they cross (prikey128.c:35-45).
PrivateKeysRight ==
  number # {} =>
    LET place == 32 * Field(number, 14, 5) + Field(number, 19, 5)
        ring(p) == IF (p % 32) \in family[(p \div 32) % 32] THEN 1 ELSE 0
        text == [i \in 1 .. 8 |-> 33 + ring(place + 6 * i - 6) + 2 * ring(place + 6 * i - 5)
                   + 4 * ring(place + 6 * i - 4) + 8 * ring(place + 6 * i - 3)
                   + 16 * ring(place + 6 * i - 2) + 32 * ring(place + 6 * i - 1)]
        made == prikey128(number)
    IN /\ SubSeq(made, 1, 13) = DES_fcrypt(text, <<Field(number, 0, 7), Field(number, 7, 7)>>)
       /\ Len(made) = 26

DesRight == CryptRight /\ WeakKeysRight /\ PrivateKeysRight
=============================================================================

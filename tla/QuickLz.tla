------------------------------- MODULE QuickLz --------------------------------
(***************************************************************************)
(* QuickLZ at level 3, as SendPack and RecvPack use it (crypto/quicklz.c). *)
(* Memory is a sequence of cells of one byte: a byte of the text, the first*)
(* byte of a token or of a control word with all its value, or what is     *)
(* behind such a first byte.  Positions start at 1.                        *)
(***************************************************************************)
EXTENDS Integers, Sequences, FiniteSets

CONSTANTS
  CwordBits,    \* bits of a control word, its guard included (32 in the code)
  Unmatched,    \* UNCONDITIONAL_MATCHLEN (6)
  LzEnd,        \* UNCOMPRESSED_END (4)
  Slots,        \* QLZ_POINTERS (16)
  HashValues,   \* QLZ_HASH_VALUES (4096)
  MaxMatch,     \* the longest match looked for (255)
  ByteSize,     \* the values of a byte (256)
  ShortSize,    \* texts below it have a head of 3 bytes (216)
  OffsetBits,   \* bits of an offset in a token of 1, 2, 2 and 3 or 4 bytes (6, 14, 10, 17)
  LengthBits,   \* bits of a length in a token of 2, 3 and 4 bytes (4, 5, 8)
  LzTexts       \* the texts

ASSUME LzAssumption ==
  /\ {CwordBits, Unmatched, LzEnd, Slots, HashValues, MaxMatch, ByteSize, ShortSize} \subseteq Nat \ {0}
  /\ OffsetBits \in [1 .. 4 -> Nat \ {0}] /\ LengthBits \in [1 .. 3 -> Nat \ {0}]
  /\ LzEnd >= 4 /\ MaxMatch - 3 < 2^LengthBits[3]
  /\ \A t \in LzTexts : t \in Seq(Nat)

VARIABLES
  lztext,     \* the text
  lzpackage   \* what is sent of it

lzVars == <<lztext, lzpackage>>

MINOFFSET == 2
CWORD_LEN == 4

\* Cells.
Lit(b) == <<"byte", b>>
Behind == <<"more", 0>>
Cells(tag, value, n) == [i \in 1 .. n |-> IF i = 1 THEN <<tag, value>> ELSE Behind]
Guard == 2^(CwordBits - 1)

-----------------------------------------------------------------------------
(* Tokens: tag, length and offset from the low bits up. *)

L1 == 4 * 2^LengthBits[1]
L2 == 4 * 2^LengthBits[2]
L3 == L2 * 2^LengthBits[3]

\* Mutant: a length that is one too long for its bits.
ShortLengthLong(len) == len - 3 <= 2^LengthBits[1]
ShortLength(len) == len - 3 < 2^LengthBits[1]

Token(len, offset) ==
  IF len = 3 /\ offset < 2^OffsetBits[1] THEN Cells("token", offset * 4, 1)
  ELSE IF len = 3 /\ offset < 2^OffsetBits[2] THEN Cells("token", offset * 4 + 1, 2)
  ELSE IF ShortLength(len) /\ offset < 2^OffsetBits[3]
  THEN Cells("token", (len - 3) * 4 + offset * L1 + 2, 2)
  ELSE IF len - 2 < 2^LengthBits[2] THEN Cells("token", (len - 2) * 4 + offset * L2 + 3, 3)
  ELSE Cells("token", (len - 3) * L2 + offset * L3 + 3, 4)

\* Length, offset and size of the token that starts with fetch.
Untoken(fetch) ==
  CASE fetch % 4 = 0 -> [len |-> 3, offset |-> fetch \div 4, size |-> 1]
    [] fetch % 4 = 1 -> [len |-> 3, offset |-> fetch \div 4, size |-> 2]
    [] fetch % 4 = 2 -> [len |-> (fetch % L1) \div 4 + 3, offset |-> fetch \div L1, size |-> 2]
    [] fetch % 4 = 3 /\ fetch % L2 # 3 ->
         [len |-> (fetch % L2) \div 4 + 2, offset |-> fetch \div L2, size |-> 3]
    [] fetch % L2 = 3 -> [len |-> (fetch % L3) \div L2 + 3, offset |-> fetch \div L3, size |-> 4]

-----------------------------------------------------------------------------
(* qlz_compress_core.  Its state: the position in the text, the cells written, *)
(* where the control word goes and its value, for every hash the positions     *)
(* seen last and a counter of one byte.                                        *)

Fetch(t, p) == SubSeq(t, p, p + 2)
hash_func(fetch) == (fetch[1] + 2 * fetch[2] + 4 * fetch[3]) % HashValues

CoreInit == [src |-> 1, out |-> Cells("cword", 0, CWORD_LEN), ptr |-> 1, cword |-> Guard,
             seen |-> [h \in 0 .. HashValues - 1 |-> [k \in 0 .. Slots - 1 |-> 0]],
             counter |-> [h \in 0 .. HashValues - 1 |-> 0]]

\* The position is put among those of its hash.
Remember(t, s, p) ==
  LET h == hash_func(Fetch(t, p))
  IN [s EXCEPT !.seen[h][s.counter[h] % Slots] = p, !.counter[h] = (@ + 1) % ByteSize]
RECURSIVE RememberAll(_, _, _, _)
RememberAll(t, s, p, q) == IF p > q THEN s ELSE RememberAll(t, Remember(t, s, p), p + 1, q)

\* The longest match that is known, the nearest of several; 0 if there is none.
Lesser(m, n) == IF m < n THEN m ELSE n
MatchLen(t, s, o) ==
  LET remaining == Lesser(MaxMatch, Len(t) - LzEnd - s.src + 1)
  IN CHOOSE m \in 3 .. remaining :
       /\ \A i \in 3 .. m - 1 : t[o + i] = t[s.src + i]
       /\ m = remaining \/ t[o + m] # t[s.src + m]
Candidates(t, s) ==
  LET h == hash_func(Fetch(t, s.src))
  IN {o \in {s.seen[h][k] : k \in 0 .. Lesser(Slots, s.counter[h]) - 1} :
        o < s.src - MINOFFSET /\ Fetch(t, o) = Fetch(t, s.src)}
Best(t, s) ==
  LET found == Candidates(t, s)
      longest == CHOOSE o \in found : \A q \in found :
                   \/ MatchLen(t, s, o) > MatchLen(t, s, q)
                   \/ MatchLen(t, s, o) = MatchLen(t, s, q) /\ o >= q
      matched(o) == [len |-> MatchLen(t, s, o), at |-> o]
  IN IF found = {} THEN [len |-> 0, at |-> 0] ELSE matched(longest)

Literal(t, s) == [s EXCEPT !.out = Append(@, Lit(t[s.src])), !.src = @ + 1, !.cword = @ \div 2]

\* One byte or one match: best is found, then the position is known.
Emit(t, s, best, known) ==
  LET offset == s.src - best.at
  IN IF best.len > 2 /\ offset < 2^OffsetBits[4] - 1
     THEN [RememberAll(t, known, s.src + 1, s.src + best.len - 1) EXCEPT
             !.src = @ + best.len, !.cword = @ \div 2 + Guard, !.out = @ \o Token(best.len, offset)]
     ELSE Literal(t, known)
Step(t, s) == Emit(t, s, Best(t, s), Remember(t, s, s.src))

\* The control word is full: the next one.
Close(s) == [s EXCEPT !.out[s.ptr] = <<"cword", s.cword \div 2 + Guard>>]
Flush(s) ==
  [Close(s) EXCEPT !.ptr = Len(s.out) + 1, !.cword = Guard, !.out = @ \o Cells("cword", 0, CWORD_LEN)]
Flushed(s) == IF s.cword % 2 = 1 THEN Flush(s) ELSE s

\* Text that does not shrink is given up in its second half.
Hopeless(t, s) ==
  LET done == s.src - 1
  IN s.cword % 2 = 1 /\ done > Len(t) \div 2 /\ Len(s.out) > done - done \div 32

RECURSIVE Matches(_, _)
Matches(t, s) ==
  IF s.src > Len(t) - Unmatched - LzEnd \/ Hopeless(t, s) THEN s ELSE Matches(t, Step(t, Flushed(s)))
RECURSIVE Literals(_, _)
Literals(t, s) == IF s.src > Len(t) THEN s ELSE Literals(t, Literal(t, Flushed(s)))
RECURSIVE ShiftDown(_)
ShiftDown(s) == IF s.cword % 2 = 1 THEN s ELSE ShiftDown([s EXCEPT !.cword = @ \div 2])

\* The cells, and what is returned: 0 if the text was given up, at least 9.
AtLeastNine(out) ==
  [out |-> out \o [i \in 1 .. (IF Len(out) < 9 THEN 9 - Len(out) ELSE 0) |-> Behind],
   ret |-> IF Len(out) < 9 THEN 9 ELSE Len(out)]
CoreFinish(t, s) ==
  IF s.src <= Len(t) - Unmatched - LzEnd THEN [out |-> s.out, ret |-> 0]
  ELSE AtLeastNine(Close(ShiftDown(Literals(t, s))).out)
qlz_compress_core(t) == CoreFinish(t, Matches(t, CoreInit))

\* What is sent: the text itself if it does not get shorter.
Base(t) == IF Len(t) < ShortSize THEN 3 ELSE 9
Headed(t, core) ==
  LET r == Base(t) + core.ret
      width == IF Base(t) = 3 THEN ByteSize ELSE ByteSize^4
  IN IF core.ret = 0 \/ r >= Len(t) THEN [i \in DOMAIN t |-> Lit(t[i])]
     ELSE Cells("head", [base |-> Base(t), r |-> r % width, size |-> Len(t) % width], Base(t)) \o core.out
qlz_compress(t) == Headed(t, qlz_compress_core(t))

-----------------------------------------------------------------------------
(* qlz_decompress_core: the cells written and the next to write, the next to  *)
(* read and the control word; done, and whether it failed.                    *)

qlz_size_decompressed(z) == z[1][2].size
qlz_size_compressed(z) == z[1][2].r

\* Cells written from a position on; behind the end they are counted only.
Write(s, at, cells) ==
  [s EXCEPT !.dest = [i \in DOMAIN s.dest |->
                        IF i \in at .. at + Len(cells) - 1 THEN cells[i - at + 1] ELSE s.dest[i]],
            !.high = IF at + Len(cells) - 1 > @ THEN at + Len(cells) - 1 ELSE @]
Read4(mem, at) == [i \in 1 .. 4 |-> IF at + i - 1 \in DOMAIN mem THEN mem[at + i - 1] ELSE Behind]

\* memcpy_up: four cells at every third.
RECURSIVE memcpy_up(_, _, _, _, _)
memcpy_up(s, dst, from, n, f) ==
  IF f >= n /\ f > 0 THEN s
  ELSE memcpy_up(Write(s, dst + f, Read4(s.dest, from + f)), dst, from, n, f + MINOFFSET + 1)

\* bitlut: the zeros at the end of four bits.
bitlut(bits) == CHOOSE n \in 0 .. 4 : bits % 2^n = 0 /\ (n = 4 \/ (bits \div 2^n) % 2 = 1)

Failed(s) == [s EXCEPT !.done = TRUE, !.ok = FALSE]

\* The bytes at the end.
RECURSIVE Rest(_, _)
Rest(z, s) ==
  LET here == IF s.cword = 1 THEN [s EXCEPT !.src = @ + CWORD_LEN, !.cword = Guard] ELSE s
  IN IF s.dst > Len(s.dest) THEN [s EXCEPT !.done = TRUE]
     ELSE IF here.src > qlz_size_compressed(z) THEN Failed(s)
     ELSE Rest(z, [Write(here, here.dst, <<z[here.src]>>) EXCEPT
                     !.dst = @ + 1, !.src = @ + 1, !.cword = @ \div 2])

Unmatch(z, s) ==
  LET token == Untoken(z[s.src][2])
      from == s.dst - token.offset
  IN IF from < 1 \/ from > s.dst - MINOFFSET - 1 \/ token.len > Len(s.dest) - s.dst - LzEnd + 1
     THEN Failed(s)
     ELSE [memcpy_up(s, s.dst, from, token.len, 0) EXCEPT
             !.dst = @ + token.len, !.src = @ + token.size, !.cword = @ \div 2]

\* Up to four bytes at once.
Unread(z, s) ==
  LET n == bitlut(s.cword % 16)
  IN [Write(s, s.dst, Read4(z, s.src)) EXCEPT !.dst = @ + n, !.src = @ + n, !.cword = @ \div 2^n]

RECURSIVE Unpacked(_, _)
Unpacked(z, s) ==
  LET here == IF s.cword = 1 THEN [s EXCEPT !.cword = z[s.src][2], !.src = @ + CWORD_LEN] ELSE s
  IN IF s.done THEN s
     ELSE IF (s.cword = 1 /\ s.src + CWORD_LEN - 1 > qlz_size_compressed(z))
             \/ here.src + 3 > qlz_size_compressed(z)
     THEN Failed(s)
     ELSE IF here.cword % 2 = 1 THEN Unpacked(z, Unmatch(z, here))
     ELSE IF here.dst < Len(s.dest) - Unmatched - LzEnd THEN Unpacked(z, Unread(z, here))
     ELSE Rest(z, here)

qlz_decompress(z) ==
  Unpacked(z, [dest |-> [i \in 1 .. qlz_size_decompressed(z) |-> Behind], dst |-> 1,
               src |-> z[1][2].base + 1, cword |-> 1, high |-> 0, done |-> FALSE, ok |-> TRUE])

\* What RecvPack makes of it: <<>> is an error.
Unzipped(z, size) ==
  IF Len(z) = size THEN z
  ELSE IF Len(z) < 9 \/ qlz_size_decompressed(z) # size THEN <<>>
  ELSE qlz_decompress(z).dest

-----------------------------------------------------------------------------
LzInit == lztext = <<>> /\ lzpackage = <<>>
LzNext ==
  /\ lztext = <<>>
  /\ \E t \in LzTexts : lztext' = t /\ lzpackage' = qlz_compress(t)

-----------------------------------------------------------------------------
(* Properties. *)

\* A package of PKG_LEN bytes that was compressed is T_LEN bytes long, shorter, has
\* the lengths in its head and is read as it was sent; nothing is written or read
\* behind what there is (qlz_compress, qlz_decompress, net_pkg.c:155 and 243).
LzBack ==
  lztext # <<>> =>
    /\ Len(lzpackage) <= Len(lztext)
    /\ Unzipped(lzpackage, Len(lztext)) = [i \in DOMAIN lztext |-> Lit(lztext[i])]
    /\ Len(lzpackage) < Len(lztext) =>
         /\ qlz_size_compressed(lzpackage) = Len(lzpackage)
         /\ qlz_decompress(lzpackage).ok /\ qlz_decompress(lzpackage).high <= Len(lztext)
=============================================================================

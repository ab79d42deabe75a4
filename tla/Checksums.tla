------------------------------ MODULE Checksums -------------------------------
(***************************************************************************)
(* The checksums of crypto: gencrc (16 bits, of a key exchange) and         *)
(* ssh_crc32 (32 bits, of a package, a rotor and a key), each with its      *)
(* table, and MD5 (md5_dgst.c, md5_one.c, md32_common.h) of a message that  *)
(* comes in pieces.  A word of MD5's buffer is filled byte by byte with |=,  *)
(* so it must have been cleared when its first byte comes.                  *)
(***************************************************************************)
EXTENDS Integers, Sequences

-----------------------------------------------------------------------------
(* Words of 32 bits as pairs of halves <<high, low>>: what ^, &, |, ~, +, >> and  *)
(* ROTATE do to unsigned ints.                                                  *)

Half == 65536

\* The two operations on nibbles, from which those on words are made.
LOCAL Bit(n, i) == (n \div 2^i) % 2
LOCAL FromBits(F(_)) == F(0) + 2 * F(1) + 4 * F(2) + 8 * F(3)
AndNibbles == [m \in 0 .. 15, n \in 0 .. 15 |->
                 LET at(i) == Bit(m, i) * Bit(n, i) IN FromBits(at)]
XorNibbles == [m \in 0 .. 15, n \in 0 .. 15 |->
                 LET at(i) == (Bit(m, i) + Bit(n, i)) % 2 IN FromBits(at)]
LOCAL Nibble(n, i) == (n \div 16^i) % 16
LOCAL Nibbles(table, m, n) ==
  table[Nibble(m, 0), Nibble(n, 0)] + 16 * table[Nibble(m, 1), Nibble(n, 1)]
  + 256 * table[Nibble(m, 2), Nibble(n, 2)] + 4096 * table[Nibble(m, 3), Nibble(n, 3)]
HalfXor(m, n) == Nibbles(XorNibbles, m, n)
HalfAnd(m, n) == Nibbles(AndNibbles, m, n)

WordXor(v, w) == <<HalfXor(v[1], w[1]), HalfXor(v[2], w[2])>>
BitAnd(v, w) == <<HalfAnd(v[1], w[1]), HalfAnd(v[2], w[2])>>
BitNot(w) == <<Half - 1 - w[1], Half - 1 - w[2]>>
BitOr(v, w) == BitNot(BitAnd(BitNot(v), BitNot(w)))
WordPlus(v, w) ==
  LET low == v[2] + w[2] IN <<(v[1] + w[1] + (low \div Half)) % Half, low % Half>>
\* n < 16
RightShift(w, n) == <<w[1] \div 2^n, ((w[1] % 2^n) * 2^(16 - n)) + (w[2] \div 2^n)>>
LeftTurn(w, n) ==
  <<((w[1] * 2^n) % Half) + (w[2] \div 2^(16 - n)), ((w[2] * 2^n) % Half) + (w[1] \div 2^(16 - n))>>
ROTATE(w, n) == IF n < 16 THEN LeftTurn(w, n) ELSE LeftTurn(<<w[2], w[1]>>, n - 16)

\* The byte b at place i of a word, the lowest one at place 0.
ByteIn(b, i) ==
  LET half == IF i % 2 = 0 THEN b ELSE b * 256 IN IF i < 2 THEN <<0, half>> ELSE <<half, 0>>
ByteOf(w, i) ==
  LET half == IF i < 2 THEN w[2] ELSE w[1] IN IF i % 2 = 0 THEN half % 256 ELSE half \div 256

-----------------------------------------------------------------------------
(* The two CRCs *)

CONSTANTS
  LaterBytes,  \* what follows the first byte of a text
  CrcLength    \* of the longest text (a bound of the model)

ASSUME CrcAssumption == LaterBytes \subseteq 0 .. 255 /\ CrcLength \in Nat

VARIABLE summed    \* the text
crcVars == <<summed>>

\* crctab and crc32_tab.
crctab == <<
  \h0000, \h1081, \h2102, \h3183, \h4204, \h5285, \h6306, \h7387,
  \h8408, \h9489, \hA50A, \hB58B, \hC60C, \hD68D, \hE70E, \hF78F>>
crc32_tab == <<
  <<\h0000, \h0000>>, <<\h7707, \h3096>>, <<\hEE0E, \h612C>>, <<\h9909, \h51BA>>,
  <<\h076D, \hC419>>, <<\h706A, \hF48F>>, <<\hE963, \hA535>>, <<\h9E64, \h95A3>>,
  <<\h0EDB, \h8832>>, <<\h79DC, \hB8A4>>, <<\hE0D5, \hE91E>>, <<\h97D2, \hD988>>,
  <<\h09B6, \h4C2B>>, <<\h7EB1, \h7CBD>>, <<\hE7B8, \h2D07>>, <<\h90BF, \h1D91>>,
  <<\h1DB7, \h1064>>, <<\h6AB0, \h20F2>>, <<\hF3B9, \h7148>>, <<\h84BE, \h41DE>>,
  <<\h1ADA, \hD47D>>, <<\h6DDD, \hE4EB>>, <<\hF4D4, \hB551>>, <<\h83D3, \h85C7>>,
  <<\h136C, \h9856>>, <<\h646B, \hA8C0>>, <<\hFD62, \hF97A>>, <<\h8A65, \hC9EC>>,
  <<\h1401, \h5C4F>>, <<\h6306, \h6CD9>>, <<\hFA0F, \h3D63>>, <<\h8D08, \h0DF5>>,
  <<\h3B6E, \h20C8>>, <<\h4C69, \h105E>>, <<\hD560, \h41E4>>, <<\hA267, \h7172>>,
  <<\h3C03, \hE4D1>>, <<\h4B04, \hD447>>, <<\hD20D, \h85FD>>, <<\hA50A, \hB56B>>,
  <<\h35B5, \hA8FA>>, <<\h42B2, \h986C>>, <<\hDBBB, \hC9D6>>, <<\hACBC, \hF940>>,
  <<\h32D8, \h6CE3>>, <<\h45DF, \h5C75>>, <<\hDCD6, \h0DCF>>, <<\hABD1, \h3D59>>,
  <<\h26D9, \h30AC>>, <<\h51DE, \h003A>>, <<\hC8D7, \h5180>>, <<\hBFD0, \h6116>>,
  <<\h21B4, \hF4B5>>, <<\h56B3, \hC423>>, <<\hCFBA, \h9599>>, <<\hB8BD, \hA50F>>,
  <<\h2802, \hB89E>>, <<\h5F05, \h8808>>, <<\hC60C, \hD9B2>>, <<\hB10B, \hE924>>,
  <<\h2F6F, \h7C87>>, <<\h5868, \h4C11>>, <<\hC161, \h1DAB>>, <<\hB666, \h2D3D>>,
  <<\h76DC, \h4190>>, <<\h01DB, \h7106>>, <<\h98D2, \h20BC>>, <<\hEFD5, \h102A>>,
  <<\h71B1, \h8589>>, <<\h06B6, \hB51F>>, <<\h9FBF, \hE4A5>>, <<\hE8B8, \hD433>>,
  <<\h7807, \hC9A2>>, <<\h0F00, \hF934>>, <<\h9609, \hA88E>>, <<\hE10E, \h9818>>,
  <<\h7F6A, \h0DBB>>, <<\h086D, \h3D2D>>, <<\h9164, \h6C97>>, <<\hE663, \h5C01>>,
  <<\h6B6B, \h51F4>>, <<\h1C6C, \h6162>>, <<\h8565, \h30D8>>, <<\hF262, \h004E>>,
  <<\h6C06, \h95ED>>, <<\h1B01, \hA57B>>, <<\h8208, \hF4C1>>, <<\hF50F, \hC457>>,
  <<\h65B0, \hD9C6>>, <<\h12B7, \hE950>>, <<\h8BBE, \hB8EA>>, <<\hFCB9, \h887C>>,
  <<\h62DD, \h1DDF>>, <<\h15DA, \h2D49>>, <<\h8CD3, \h7CF3>>, <<\hFBD4, \h4C65>>,
  <<\h4DB2, \h6158>>, <<\h3AB5, \h51CE>>, <<\hA3BC, \h0074>>, <<\hD4BB, \h30E2>>,
  <<\h4ADF, \hA541>>, <<\h3DD8, \h95D7>>, <<\hA4D1, \hC46D>>, <<\hD3D6, \hF4FB>>,
  <<\h4369, \hE96A>>, <<\h346E, \hD9FC>>, <<\hAD67, \h8846>>, <<\hDA60, \hB8D0>>,
  <<\h4404, \h2D73>>, <<\h3303, \h1DE5>>, <<\hAA0A, \h4C5F>>, <<\hDD0D, \h7CC9>>,
  <<\h5005, \h713C>>, <<\h2702, \h41AA>>, <<\hBE0B, \h1010>>, <<\hC90C, \h2086>>,
  <<\h5768, \hB525>>, <<\h206F, \h85B3>>, <<\hB966, \hD409>>, <<\hCE61, \hE49F>>,
  <<\h5EDE, \hF90E>>, <<\h29D9, \hC998>>, <<\hB0D0, \h9822>>, <<\hC7D7, \hA8B4>>,
  <<\h59B3, \h3D17>>, <<\h2EB4, \h0D81>>, <<\hB7BD, \h5C3B>>, <<\hC0BA, \h6CAD>>,
  <<\hEDB8, \h8320>>, <<\h9ABF, \hB3B6>>, <<\h03B6, \hE20C>>, <<\h74B1, \hD29A>>,
  <<\hEAD5, \h4739>>, <<\h9DD2, \h77AF>>, <<\h04DB, \h2615>>, <<\h73DC, \h1683>>,
  <<\hE363, \h0B12>>, <<\h9464, \h3B84>>, <<\h0D6D, \h6A3E>>, <<\h7A6A, \h5AA8>>,
  <<\hE40E, \hCF0B>>, <<\h9309, \hFF9D>>, <<\h0A00, \hAE27>>, <<\h7D07, \h9EB1>>,
  <<\hF00F, \h9344>>, <<\h8708, \hA3D2>>, <<\h1E01, \hF268>>, <<\h6906, \hC2FE>>,
  <<\hF762, \h575D>>, <<\h8065, \h67CB>>, <<\h196C, \h3671>>, <<\h6E6B, \h06E7>>,
  <<\hFED4, \h1B76>>, <<\h89D3, \h2BE0>>, <<\h10DA, \h7A5A>>, <<\h67DD, \h4ACC>>,
  <<\hF9B9, \hDF6F>>, <<\h8EBE, \hEFF9>>, <<\h17B7, \hBE43>>, <<\h60B0, \h8ED5>>,
  <<\hD6D6, \hA3E8>>, <<\hA1D1, \h937E>>, <<\h38D8, \hC2C4>>, <<\h4FDF, \hF252>>,
  <<\hD1BB, \h67F1>>, <<\hA6BC, \h5767>>, <<\h3FB5, \h06DD>>, <<\h48B2, \h364B>>,
  <<\hD80D, \h2BDA>>, <<\hAF0A, \h1B4C>>, <<\h3603, \h4AF6>>, <<\h4104, \h7A60>>,
  <<\hDF60, \hEFC3>>, <<\hA867, \hDF55>>, <<\h316E, \h8EEF>>, <<\h4669, \hBE79>>,
  <<\hCB61, \hB38C>>, <<\hBC66, \h831A>>, <<\h256F, \hD2A0>>, <<\h5268, \hE236>>,
  <<\hCC0C, \h7795>>, <<\hBB0B, \h4703>>, <<\h2202, \h16B9>>, <<\h5505, \h262F>>,
  <<\hC5BA, \h3BBE>>, <<\hB2BD, \h0B28>>, <<\h2BB4, \h5A92>>, <<\h5CB3, \h6A04>>,
  <<\hC2D7, \hFFA7>>, <<\hB5D0, \hCF31>>, <<\h2CD9, \h9E8B>>, <<\h5BDE, \hAE1D>>,
  <<\h9B64, \hC2B0>>, <<\hEC63, \hF226>>, <<\h756A, \hA39C>>, <<\h026D, \h930A>>,
  <<\h9C09, \h06A9>>, <<\hEB0E, \h363F>>, <<\h7207, \h6785>>, <<\h0500, \h5713>>,
  <<\h95BF, \h4A82>>, <<\hE2B8, \h7A14>>, <<\h7BB1, \h2BAE>>, <<\h0CB6, \h1B38>>,
  <<\h92D2, \h8E9B>>, <<\hE5D5, \hBE0D>>, <<\h7CDC, \hEFB7>>, <<\h0BDB, \hDF21>>,
  <<\h86D3, \hD2D4>>, <<\hF1D4, \hE242>>, <<\h68DD, \hB3F8>>, <<\h1FDA, \h836E>>,
  <<\h81BE, \h16CD>>, <<\hF6B9, \h265B>>, <<\h6FB0, \h77E1>>, <<\h18B7, \h4777>>,
  <<\h8808, \h5AE6>>, <<\hFF0F, \h6A70>>, <<\h6606, \h3BCA>>, <<\h1101, \h0B5C>>,
  <<\h8F65, \h9EFF>>, <<\hF862, \hAE69>>, <<\h616B, \hFFD3>>, <<\h166C, \hCF45>>,
  <<\hA00A, \hE278>>, <<\hD70D, \hD2EE>>, <<\h4E04, \h8354>>, <<\h3903, \hB3C2>>,
  <<\hA767, \h2661>>, <<\hD060, \h16F7>>, <<\h4969, \h474D>>, <<\h3E6E, \h77DB>>,
  <<\hAED1, \h6A4A>>, <<\hD9D6, \h5ADC>>, <<\h40DF, \h0B66>>, <<\h37D8, \h3BF0>>,
  <<\hA9BC, \hAE53>>, <<\hDEBB, \h9EC5>>, <<\h47B2, \hCF7F>>, <<\h30B5, \hFFE9>>,
  <<\hBDBD, \hF21C>>, <<\hCABA, \hC28A>>, <<\h53B3, \h9330>>, <<\h24B4, \hA3A6>>,
  <<\hBAD0, \h3605>>, <<\hCDD7, \h0693>>, <<\h54DE, \h5729>>, <<\h23D9, \h67BF>>,
  <<\hB366, \h7A2E>>, <<\hC461, \h4AB8>>, <<\h5D68, \h1B02>>, <<\h2A6F, \h2B94>>,
  <<\hB40B, \hBE37>>, <<\hC30C, \h8EA1>>, <<\h5A05, \hDF1B>>, <<\h2D02, \hEF8D>>>>

\* Half a byte: the register moves by four bits.
Quarter(crc, nibble) == HalfXor(crc \div 16, crctab[HalfXor(crc % 16, nibble) + 1])

RECURSIVE Register16(_), Register32(_)
Register16(text) ==
  IF text = <<>> THEN Half - 1
  ELSE LET b == text[Len(text)]
       IN Quarter(Quarter(Register16(SubSeq(text, 1, Len(text) - 1)), b % 16), b \div 16)
gencrc(text) == Half - 1 - Register16(text)

\* Mutant: the register is complemented first, as other CRCs do.
StartComplemented == <<Half - 1, Half - 1>>
Start32 == <<0, 0>>
Register32(text) ==
  IF text = <<>> THEN Start32
  ELSE LET crc == Register32(SubSeq(text, 1, Len(text) - 1))
           low == HalfXor(crc[2] % 256, text[Len(text)])
       IN WordXor(crc32_tab[low + 1], RightShift(crc, 8))
ssh_crc32(text) == Register32(text)

CrcInit == summed = <<>>
CrcNext ==
  /\ Len(summed) < CrcLength
  /\ \E b \in IF summed = <<>> THEN 0 .. 255 ELSE LaterBytes : summed' = Append(summed, b)

-----------------------------------------------------------------------------
(* Properties. *)

\* The register without tables: bit by bit, the lowest first, with the polynomial.
RECURSIVE Shifted(_, _, _), Plain(_, _, _)
Shifted(reg, polynomial, n) ==
  IF n = 0 THEN reg
  ELSE LET moved == RightShift(reg, 1)
       IN Shifted(IF reg[2] % 2 = 1 THEN WordXor(moved, polynomial) ELSE moved, polynomial, n - 1)
Plain(text, polynomial, start) ==
  IF text = <<>> THEN start
  ELSE LET before == Plain(SubSeq(text, 1, Len(text) - 1), polynomial, start)
       IN Shifted(WordXor(before, <<0, text[Len(text)]>>), polynomial, 8)

\* Both tables give what the shift register gives (crc32.c:14-40); a text with its
\* 16-bit checksum behind it, the low byte first, leaves the residue F0B8; the example of
\* the source has the checksum it puts behind it (crc.c:13; line 11 names another).
UDFFaaa == <<85, 68, 70, 70, 97, 97, 97>>
ChecksRight ==
  LET crc == gencrc(summed) IN
  /\ ssh_crc32(summed) = Plain(summed, <<\hEDB8, \h8320>>, <<0, 0>>)
  /\ <<0, Half - 1 - crc>> = Plain(summed, <<0, \h8408>>, <<0, Half - 1>>)
  /\ Register16(summed \o <<crc % 256, crc \div 256>>) = \hF0B8
  /\ summed = <<>> => gencrc(UDFFaaa) = \hEA65

-----------------------------------------------------------------------------
(* MD5 *)

CONSTANTS
  LengthWidth,  \* bits of Nl (32)
  Pieces,       \* lengths of pieces
  MaxPieces,    \* of a message (a bound of the model)
  Junk          \* words an unset buffer can have

HASH_CBLOCK == 64
HASH_LBLOCK == HASH_CBLOCK \div 4

ASSUME Md5Assumption ==
  /\ Pieces \subseteq Nat \ {0} /\ MaxPieces \in Nat
  /\ LengthWidth \in 4 .. 32

VARIABLES
  ctx,     \* MD5_CTX: [state (A, B, C, D), Nl, Nh, data, num]
  fed,     \* [bytes, pieces] of the message so far
  digest   \* what MD5_Final wrote, <<>>: nothing yet

md5Vars == <<ctx, fed, digest>>

\* The message: 123456789012...
MessageByte(i) == 48 + (i % 10)
Piece(from, n) == [i \in 1 .. n |-> MessageByte(from + i)]

-----------------------------------------------------------------------------
(* One block *)

SineTable == <<
  <<\hD76A, \hA478>>, <<\hE8C7, \hB756>>, <<\h2420, \h70DB>>, <<\hC1BD, \hCEEE>>,
  <<\hF57C, \h0FAF>>, <<\h4787, \hC62A>>, <<\hA830, \h4613>>, <<\hFD46, \h9501>>,
  <<\h6980, \h98D8>>, <<\h8B44, \hF7AF>>, <<\hFFFF, \h5BB1>>, <<\h895C, \hD7BE>>,
  <<\h6B90, \h1122>>, <<\hFD98, \h7193>>, <<\hA679, \h438E>>, <<\h49B4, \h0821>>,
  <<\hF61E, \h2562>>, <<\hC040, \hB340>>, <<\h265E, \h5A51>>, <<\hE9B6, \hC7AA>>,
  <<\hD62F, \h105D>>, <<\h0244, \h1453>>, <<\hD8A1, \hE681>>, <<\hE7D3, \hFBC8>>,
  <<\h21E1, \hCDE6>>, <<\hC337, \h07D6>>, <<\hF4D5, \h0D87>>, <<\h455A, \h14ED>>,
  <<\hA9E3, \hE905>>, <<\hFCEF, \hA3F8>>, <<\h676F, \h02D9>>, <<\h8D2A, \h4C8A>>,
  <<\hFFFA, \h3942>>, <<\h8771, \hF681>>, <<\h6D9D, \h6122>>, <<\hFDE5, \h380C>>,
  <<\hA4BE, \hEA44>>, <<\h4BDE, \hCFA9>>, <<\hF6BB, \h4B60>>, <<\hBEBF, \hBC70>>,
  <<\h289B, \h7EC6>>, <<\hEAA1, \h27FA>>, <<\hD4EF, \h3085>>, <<\h0488, \h1D05>>,
  <<\hD9D4, \hD039>>, <<\hE6DB, \h99E5>>, <<\h1FA2, \h7CF8>>, <<\hC4AC, \h5665>>,
  <<\hF429, \h2244>>, <<\h432A, \hFF97>>, <<\hAB94, \h23A7>>, <<\hFC93, \hA039>>,
  <<\h655B, \h59C3>>, <<\h8F0C, \hCC92>>, <<\hFFEF, \hF47D>>, <<\h8584, \h5DD1>>,
  <<\h6FA8, \h7E4F>>, <<\hFE2C, \hE6E0>>, <<\hA301, \h4314>>, <<\h4E08, \h11A1>>,
  <<\hF753, \h7E82>>, <<\hBD3A, \hF235>>, <<\h2AD7, \hD2BB>>, <<\hEB86, \hD391>>>>
Turns == <<<<7, 12, 17, 22>>, <<5, 9, 14, 20>>, <<4, 11, 16, 23>>, <<6, 10, 15, 21>>>>
WordOf(round, j) ==
  (CASE round = 0 -> j [] round = 1 -> 5 * j + 1 [] round = 2 -> 3 * j + 5 [] round = 3 -> 7 * j) % 16
\* F, G, H and I.
Nonlinear(round, b, c, d) ==
  CASE round = 0 -> WordXor(BitAnd(WordXor(c, d), b), d)
    [] round = 1 -> WordXor(BitAnd(WordXor(b, c), d), c)
    [] round = 2 -> WordXor(WordXor(b, c), d)
    [] round = 3 -> WordXor(BitOr(BitNot(d), b), c)

\* R0 to R3; the four variables change places from step to step.
Stepped(s, X, j) ==
  LET round == j \div 16
      sum == WordPlus(WordPlus(s[1], X[WordOf(round, j)]),
                  WordPlus(SineTable[j + 1], Nonlinear(round, s[2], s[3], s[4])))
  IN <<s[4], WordPlus(ROTATE(sum, Turns[round + 1][(j % 4) + 1]), s[2]), s[2], s[3]>>
RECURSIVE Rounds(_, _, _)
Rounds(s, X, j) == IF j = 64 THEN s ELSE Rounds(Stepped(s, X, j), X, j + 1)
md5_block_host_order(state, X) ==
  LET s == Rounds(state, X, 0) IN [i \in 1 .. 4 |-> WordPlus(state[i], s[i])]

-----------------------------------------------------------------------------
(* The buffer *)

\* HOST_p_c2l: bytes from place n of a word to its end; the one at place 0 clears it.
RECURSIVE p_c2l(_, _, _)
p_c2l(bytes, l, n) ==
  IF n = 4 \/ bytes = <<>> THEN l
  ELSE p_c2l(Tail(bytes), IF n = 0 THEN ByteIn(bytes[1], 0) ELSE BitOr(l, ByteIn(bytes[1], n)), n + 1)
c2l(bytes) == p_c2l(bytes, <<0, 0>>, 0)
\* HOST_c2l_p: the first bytes of a word that is not full.
\* Mutant: what was in the word stays.
c2l_p_Kept(bytes, l) == IF bytes = <<>> THEN <<0, 0>> ELSE p_c2l(bytes, BitOr(l, ByteIn(bytes[1], 0)), 1)
c2l_p(bytes, l) == c2l(bytes)

\* The words of data from place sw on, filled with bytes.
BytesFrom(s, n) == SubSeq(s, n + 1, Len(s))
UpTo(s, n) == SubSeq(s, 1, IF n < Len(s) THEN n ELSE Len(s))
RECURSIVE WordsIn(_, _, _)
WordsIn(data, sw, bytes) ==
  IF bytes = <<>> \/ sw = HASH_LBLOCK THEN data
  ELSE WordsIn([data EXCEPT ![sw] = IF Len(bytes) >= 4 THEN c2l(UpTo(bytes, 4)) ELSE c2l_p(bytes, @)],
               sw + 1, BytesFrom(bytes, 4))

\* bytes behind the num bytes that are there already.
Filled(data, num, bytes) ==
  LET sw == num \div 4
      sc == num % 4
  IN WordsIn([data EXCEPT ![sw] = p_c2l(UpTo(bytes, 4 - sc), @, sc)], sw + 1, BytesFrom(bytes, 4 - sc))

\* The length in bits, in two words.
Counted(c, len) ==
  LET l == (c.Nl + len * 8) % 2^LengthWidth
  IN [c EXCEPT !.Nl = l, !.Nh = @ + (IF l < c.Nl THEN 1 ELSE 0) + len \div 2^(LengthWidth - 3)]

\* md5_block_data_order: whole blocks are not copied.
RECURSIVE WholeBlocks(_, _)
WholeBlocks(c, bytes) ==
  IF Len(bytes) < HASH_CBLOCK
  THEN IF bytes = <<>> THEN c
       ELSE LET kept == WordsIn(c.data, 0, bytes)
            IN [c EXCEPT !.num = Len(bytes),
                  !.data = IF Len(bytes) % 4 = 0 THEN [kept EXCEPT ![Len(bytes) \div 4] = <<0, 0>>] ELSE kept]
  ELSE LET X == WordsIn(c.data, 0, UpTo(bytes, HASH_CBLOCK))
       IN WholeBlocks([c EXCEPT !.state = md5_block_host_order(@, X)], BytesFrom(bytes, HASH_CBLOCK))

MD5_Update(c, bytes) ==
  LET counted == Counted(c, Len(bytes))
      room == HASH_CBLOCK - c.num
      full == Filled(c.data, c.num, UpTo(bytes, room))
  IN IF c.num = 0 THEN WholeBlocks(counted, bytes)
     ELSE IF Len(bytes) < room
     THEN [counted EXCEPT !.num = @ + Len(bytes), !.data = full]
     ELSE WholeBlocks([counted EXCEPT !.num = 0, !.data = full,
                         !.state = md5_block_host_order(@, full)], BytesFrom(bytes, room))

\* MD5_Final: the byte 128, zeros, the length.
Zeros(data, from) ==
  [i \in DOMAIN data |-> IF i >= from /\ i < HASH_LBLOCK - 2 THEN <<0, 0>> ELSE data[i]]
LengthWord(n) == <<n \div Half, n % Half>>
HASH_MAKE_STRING(state) == [i \in 1 .. 16 |-> ByteOf(state[((i - 1) \div 4) + 1], (i - 1) % 4)]
MD5_Final(c) ==
  LET i == c.num \div 4
      j == c.num % 4
      closed == [c.data EXCEPT ![i] = p_c2l(UpTo(<<128, 0, 0, 0>>, 4 - j),
                                            IF j = 0 THEN <<0, 0>> ELSE @, j)]
      noRoom == i + 1 > HASH_LBLOCK - 2
      first == [k \in DOMAIN closed |-> IF k = i + 1 THEN <<0, 0>> ELSE closed[k]]
      state == IF noRoom THEN md5_block_host_order(c.state, first) ELSE c.state
      last == [Zeros(closed, IF noRoom THEN 0 ELSE i + 1) EXCEPT
                 ![HASH_LBLOCK - 2] = LengthWord(c.Nl), ![HASH_LBLOCK - 1] = LengthWord(c.Nh)]
  IN HASH_MAKE_STRING(md5_block_host_order(state, last))

-----------------------------------------------------------------------------
\* MD5_Init leaves the buffer as it was.
InitialState == <<<<\h6745, \h2301>>, <<\hEFCD, \hAB89>>, <<\h98BA, \hDCFE>>, <<\h1032, \h5476>>>>
MD5_Init(junk) ==
  [state |-> InitialState, Nl |-> 0, Nh |-> 0, num |-> 0, data |-> [i \in 0 .. HASH_LBLOCK - 1 |-> junk]]

Md5Init == ctx \in {MD5_Init(junk) : junk \in Junk} /\ fed = [bytes |-> 0, pieces |-> 0] /\ digest = <<>>

Update ==
  /\ digest = <<>> /\ fed.pieces < MaxPieces
  /\ \E n \in Pieces :
       /\ ctx' = MD5_Update(ctx, Piece(fed.bytes, n))
       /\ fed' = [bytes |-> fed.bytes + n, pieces |-> fed.pieces + 1]
  /\ UNCHANGED digest

Finish ==
  /\ digest = <<>>
  /\ digest' = MD5_Final(ctx) /\ ctx' = [ctx EXCEPT !.num = 0]
  /\ UNCHANGED fed

Md5Next == Update \/ Finish

-----------------------------------------------------------------------------
(* Properties. *)

\* RFC 1321: the message, a bit 1, bits 0, the length in the last two words.
LittleEndian(n) == [i \in 1 .. 4 |-> (n \div 256^(i - 1)) % 256]
Padded(n) ==
  LET zeros == [i \in 1 .. ((119 - (n % 64)) % 64) |-> 0]
  IN Piece(0, n) \o <<128>> \o zeros \o LittleEndian((n * 8) % 2^LengthWidth)
     \o LittleEndian((n * 8) \div 2^LengthWidth)
RECURSIVE Digested(_, _)
Digested(state, bytes) ==
  IF bytes = <<>> THEN state
  ELSE Digested(md5_block_host_order(state, [i \in 0 .. 15 |->
                 <<bytes[4 * i + 4] * 256 + bytes[4 * i + 3], bytes[4 * i + 2] * 256 + bytes[4 * i + 1]>>]),
               BytesFrom(bytes, 64))

\* Two examples of RFC 1321, which md5_dgst.c:65 says it implements.
Example(n) ==
  CASE n = 0 -> <<\hD4, \h1D, \h8C, \hD9, \h8F, \h00, \hB2, \h04,
                  \hE9, \h80, \h09, \h98, \hEC, \hF8, \h42, \h7E>>
    [] n = 80 -> <<\h57, \hED, \hF4, \hA2, \h2B, \hE3, \hC9, \h55,
                   \hAC, \h49, \hDA, \h2E, \h21, \h07, \hB6, \h7A>>

\* However the message is cut into pieces, and whatever was in the buffer, the digest
\* is that of the whole message (md32_common.h:408-607, md5_dgst.c:71-300).
DigestRight ==
  digest # <<>> =>
    /\ digest = HASH_MAKE_STRING(Digested(InitialState, Padded(fed.bytes)))
    /\ fed.bytes \in {0, 80} => digest = Example(fed.bytes)
=============================================================================

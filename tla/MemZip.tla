-------------------------------- MODULE MemZip --------------------------------
(***************************************************************************)
(* memzip.c: compression by matches that start with a marker; markers in   *)
(* the text are escaped.  A byte is a number; positions start at 0 as in   *)
(* the code, a text of n bytes is a function from 0 .. n - 1.              *)
(***************************************************************************)
EXTENDS Integers, Sequences

CONSTANTS
  ESC,          \* the escape; behind it the marker of long matches and those of short ones
  Shorts,       \* short markers, for the lengths from 3 (6 in the code)
  LongLengths,  \* lengths that long matches have (256)
  Near,         \* distances of one byte (192)
  Far,          \* distances of two bytes, behind them (16384)
  LowByte,      \* values of the second byte of a distance (256)
  Third,        \* distances of matches of 3 bytes (256)
  Slip,         \* by how much the window slips (16384)
  Enough,       \* the gain that ends the search among matches that overlap (20)
  ZipTexts      \* the texts, not empty

ASSUME MemZipAssumption ==
  /\ ESC \in Nat /\ {Shorts, LongLengths, Near, Far, LowByte, Third, Slip, Enough} \subseteq Nat \ {0}
  /\ \A t \in ZipTexts : t \in Seq(Nat) /\ t # <<>>

VARIABLE ziptext

zipVars == <<ziptext>>

MFLG == ESC + 1
MBASE == ESC + 2
MAX_DISTANCE == Near + Far
MaxZip == 2 + Shorts + LongLengths    \* 264
NIL == -1

Marker(b) == b \in ESC .. MBASE + Shorts - 1

-----------------------------------------------------------------------------
(* The text t, of length n; the window starts at begin.  Positions in the   *)
(* window with the same three bytes are chained: head gives the last one,   *)
(* prev the one before (the hash value is the three bytes).                 *)

ByteAt(t, p) == t[p + 1]
Triple(t, p) == IF p + 2 < Len(t) THEN SubSeq(t, p + 1, p + 3) ELSE <<>>
Triples(t) == {Triple(t, p) : p \in 0 .. Len(t) - 1}

Chain(t, s, p) ==
  [s EXCEPT !.prev[p] = s.head[Triple(t, s.begin + p)], !.head[Triple(t, s.begin + p)] = p]
RECURSIVE ChainAll(_, _, _, _)
ChainAll(t, s, p, end) == IF p >= end THEN s ELSE ChainAll(t, Chain(t, s, p), p + 1, end)

\* win_slip: positions move down, those that leave the window are forgotten.
Slipped(pos) == IF pos < Slip THEN NIL ELSE pos - Slip
win_slip(s) ==
  [s EXCEPT !.head = [h \in DOMAIN @ |-> Slipped(@[h])],
            !.prev = [p \in DOMAIN @ |-> IF p < Slip THEN Slipped(@[p + Slip]) ELSE @[p]],
            !.begin = @ + Slip]

\* How long the match at pos is, at most MaxZip.
MatchAt(t, cur, pos) ==
  LET most == IF Len(t) - cur < MaxZip THEN Len(t) - cur ELSE MaxZip
  IN CHOOSE i \in 0 .. most :
       /\ \A k \in 0 .. i - 1 : ByteAt(t, pos + k) = ByteAt(t, cur + k)
       /\ i = most \/ ByteAt(t, pos + i) # ByteAt(t, cur + i)

\* What it gains: its length less the bytes that stand for it.
GainOf(len, distance) ==
  IF len = 3 THEN 1 ELSE len - 2 - (IF distance > Near THEN 1 ELSE 0) - (IF len > 2 + Shorts THEN 1 ELSE 0)

\* deflate: along the chain, the first match of the greatest gain.
RECURSIVE AlongChain(_, _, _, _, _)
AlongChain(t, s, cur, pos, best) ==
  LET distance == cur - pos
      len == MatchAt(t, s.begin + cur, s.begin + pos)
      gain == GainOf(len, distance)
      better == [gain |-> gain, len |-> len, distance |-> distance]
  IN IF pos = NIL \/ pos < cur - MAX_DISTANCE THEN best
     ELSE IF len < 3 \/ (len = 3 /\ distance > Third) \/ gain <= best.gain
     THEN AlongChain(t, s, cur, s.prev[pos], best)
     ELSE IF (distance < len /\ gain > Enough) \/ len = MaxZip THEN better
     ELSE AlongChain(t, s, cur, s.prev[pos], better)

NoMatch == [gain |-> -1, len |-> 0, distance |-> 0]
deflate(t, s, p) ==
  IF Len(t) - p < 3 THEN NoMatch
  ELSE AlongChain(t, s, p - s.begin, s.head[Triple(t, p)], NoMatch)

\* The bytes of a match.
DistanceBytes(len, distance) ==
  IF len = 3 \/ distance <= Near THEN <<distance - 1>>
  ELSE <<Near + (distance - Near - 1) \div LowByte, (distance - Near - 1) % LowByte>>
MatchBytes(m) ==
  (IF m.len <= 2 + Shorts THEN <<MBASE + m.len - 3>> ELSE <<MFLG, m.len - 3 - Shorts>>)
    \o DistanceBytes(m.len, m.distance)

-----------------------------------------------------------------------------
(* memzip.  The window slips before the chain would not hold the longest match. *)

PrevSize == 2 * Slip
ZipInitial(t) ==
  LET s == [head |-> [h \in Triples(t) |-> NIL], prev |-> [p \in 0 .. PrevSize - 1 |-> NIL], begin |-> 0,
            p |-> 1, out |-> <<ByteAt(t, 0)>>, gain |-> 0, broken |-> FALSE]
  IN [s EXCEPT !.head[Triple(t, 0)] = 0]

InWindow(s) == IF s.p - s.begin > PrevSize - MaxZip THEN win_slip(s) ELSE s

Found(t, s, m) ==
  [ChainAll(t, s, s.p - s.begin + 1, s.p - s.begin + m.len) EXCEPT
     !.p = @ + m.len, !.out = @ \o MatchBytes(m), !.gain = @ + m.gain]

\* Mutant: only the escape itself is escaped.
EscapedOnly(b) == b = ESC
Escaped(b) == Marker(b)

\* A byte as it is, escaped when it is a marker, unless there is no room.
Copied(t, s) ==
  LET b == ByteAt(t, s.p)
      full(out) == Len(out) > Len(t)
      put == IF Escaped(b) THEN Append(s.out, ESC) ELSE s.out
  IN IF full(s.out) \/ full(put) THEN [s EXCEPT !.broken = TRUE, !.out = IF full(@) THEN @ ELSE put]
     ELSE [s EXCEPT !.out = Append(put, b), !.p = @ + 1, !.gain = IF Escaped(b) THEN @ - 1 ELSE @]

RECURSIVE Zipping(_, _)
Zipping(t, s) ==
  LET here == InWindow(s)
      m == deflate(t, here, here.p)
      known == Chain(t, here, here.p - here.begin)
  IN IF s.broken \/ s.p >= Len(t) THEN s
     ELSE IF m.gain > 0 THEN Zipping(t, Found(t, known, m))
     ELSE Zipping(t, Copied(t, known))

memzip(t) == LET s == Zipping(t, ZipInitial(t)) IN IF s.broken THEN t ELSE s.out

\* Escapes cost exactly what the matches gain.
Even(t) == LET s == Zipping(t, ZipInitial(t)) IN ~s.broken /\ s.gain = 0 /\ s.out # t

-----------------------------------------------------------------------------
(* memunzip: a match may overlap what it makes. *)

RECURSIVE Repeat(_, _, _)
Repeat(buf, distance, n) ==
  IF n = 0 THEN buf ELSE Repeat(Append(buf, buf[Len(buf) + 1 - distance]), distance, n - 1)

\* From position i (from 1); <<>> is an error.
RECURSIVE Unzip(_, _, _, _)
Unzip(z, i, buf, size) ==
  LET length == IF z[i] = MFLG THEN z[i + 1] + 3 + Shorts ELSE z[i] - MBASE + 3
      at == IF z[i] = MFLG THEN i + 2 ELSE i + 1
      two == length # 3 /\ z[at] >= Near
      distance == IF two THEN (z[at] - Near) * LowByte + z[at + 1] + Near + 1 ELSE z[at] + 1
  IN IF i > Len(z) THEN buf
     ELSE IF Len(buf) >= size THEN <<>>
     ELSE IF z[i] = ESC THEN Unzip(z, i + 2, Append(buf, z[i + 1]), size)
     ELSE IF Marker(z[i])
     THEN Unzip(z, IF two THEN at + 2 ELSE at + 1, Repeat(buf, distance, length), size)
     ELSE Unzip(z, i + 1, Append(buf, z[i]), size)

memunzip(z, size) == IF Len(z) = size THEN z ELSE Unzip(z, 2, <<z[1]>>, size)

-----------------------------------------------------------------------------
ZipInit == ziptext = <<>>
ZipNext == ziptext = <<>> /\ ziptext' \in ZipTexts

-----------------------------------------------------------------------------
(* Properties. *)

\* What was compressed is read as it was, unless its escapes cost just what its
\* matches gain: it is as long as the text then and taken for the text.
ZipBack ==
  (ziptext # <<>> /\ ~Even(ziptext)) => memunzip(memzip(ziptext), Len(ziptext)) = ziptext

\* No position is chained behind the end of the table, in whatever window: the window
\* slips before the longest match would get there (memzip.c:189, 24-46).
ZipFits ==
  ziptext # <<>> =>
    LET s == Zipping(ziptext, ZipInitial(ziptext))
    IN \A h \in DOMAIN s.head : s.head[h] < PrevSize
=============================================================================

----------------------------- MODULE PackBuffers ------------------------------
(***************************************************************************)
(* The buffers of a connection: what SendPack and RecvPack allocate, keep   *)
(* and free, and how far they write, in the build that is used (net_pkg.c)  *)
(* and in two older ones (net_quicklz.c, net_memzip.c), which differ from    *)
(* each other in the compression.  The heads of the older builds, texts of   *)
(* up to 48 digits in the 36 bytes of HEADPACKLENGTH, are left out.          *)
(*                                                                         *)
(* A buffer is its size, 0: there is none.                                  *)
(***************************************************************************)
EXTENDS Frame

CONSTANTS
  BodyLengths,  \* PKG_LEN
  MaxPacks      \* packages sent or received (a bound of the model)

ASSUME PackBuffersAssumption == BodyLengths \subseteq Nat /\ MaxPacks \in Nat

VARIABLES
  build,   \* the build: NetPkg, NetQuicklz or NetMemzip
  undo,    \* UNDO_ZIP: the end of a forwarder
  conn,    \* [SendLen, SendBuffer, RecvLen, RecvBuffer]
  data,    \* PKG_LEN of the package in RecvBuffer, 0: none
  largest, \* PKG_LEN of the largest package received
  packs,   \* packages so far
  seen     \* [past: written behind a buffer, freed: read after free, lost: blocks nobody
           \*  has any more, failed: a body did not come as it should, longer: one came
           \*  that was longer than its text]

packBufferVars == <<build, undo, conn, data, largest, packs, seen>>

SDBC_BLKSZ == 65536
HEADPACKLENGTH == 36

\* keep: above it SendPack frees RecvBuffer; spare: above it RecvPack takes a new one;
\* sends: what is copied under UNDO_ZIP; zbuf: RecvPack takes a block for a compressed
\* body; more: what is allocated besides SendLen.
NetPkg ==
  [keep |-> 65536, spare |-> 32768, sends |-> "T_LEN", zbuf |-> FALSE, more |-> 0]
NetQuicklz ==
  [keep |-> 32768, spare |-> SDBC_BLKSZ, sends |-> "PKG_LEN", zbuf |-> TRUE, more |-> 0]
NetMemzip == [NetQuicklz EXCEPT !.more = 400]

-----------------------------------------------------------------------------
(* The buffers *)

initconnect == [SendLen |-> 0, SendBuffer |-> 0, RecvLen |-> 0, RecvBuffer |-> 0]

\* What a call did: the connection, and what went wrong.
Did(c, past, freed, lost) == [conn |-> c, past |-> past, freed |-> freed, lost |-> lost]

RecvFreed(c) == [c EXCEPT !.RecvLen = 0, !.RecvBuffer = 0]

\* The end of SendPack and quick_send_pkg: a large buffer is not kept.
quick_send_pkg(c) == IF c.SendLen > 32768 THEN [c EXCEPT !.SendLen = 0, !.SendBuffer = 0] ELSE c

SendRoom(b, c, len) ==
  LET left == c.SendLen - len
      new == len + 400 + HEADPACKLENGTH
  IN IF left < 100 + HEADPACKLENGTH \/ left > SDBC_BLKSZ
     THEN [c EXCEPT !.SendLen = new, !.SendBuffer = new + (IF @ = 0 THEN b.more ELSE 0)]
     ELSE c

\* head is [PKG_LEN, T_LEN], T_LEN as the compression (or, under UNDO_ZIP, the peer)
\* makes it; inRecv: the data is in RecvBuffer; open: there is a socket.
Sending(b, head, inRecv, open) ==
  LET kept == IF conn.RecvLen > b.keep THEN RecvFreed(conn) ELSE conn
      roomy == SendRoom(b, kept, IF undo THEN head.T_LEN ELSE head.PKG_LEN)
      copied == IF head.PKG_LEN = 0 THEN 0
                ELSE IF undo /\ b.sends = "PKG_LEN" THEN head.PKG_LEN ELSE head.T_LEN
  IN Did(IF open THEN quick_send_pkg(roomy) ELSE roomy, HEADPACKLENGTH + copied > roomy.SendBuffer,
         inRecv /\ head.PKG_LEN > 0 /\ kept.RecvBuffer = 0, 0)

\* What a package needs in RecvBuffer.
\* Mutant: the compressed body is forgotten.
NeededOnce(b, head) == (IF undo THEN head.T_LEN ELSE head.PKG_LEN) + 1
Needed(b, head) ==
  LET once == (IF undo THEN head.T_LEN ELSE head.PKG_LEN) + 1
  IN IF ~b.zbuf /\ ~undo /\ head.T_LEN < head.PKG_LEN THEN once + head.T_LEN + 1 ELSE once

RecvRoom(b, c, i) ==
  LET n == c.RecvLen - i
  IN IF c.RecvBuffer = 0 \/ n < 0 \/ n > b.spare
     THEN [c EXCEPT !.RecvLen = i, !.RecvBuffer = i] ELSE c

\* outcome: the body comes; the head or the body does not come in time; a part of it; its CRC is wrong; it
\* cannot be decompressed, which is seen before or afterwards.
Outcomes == {"ok", "nohead", "timeout", "short", "crc", "format", "length"}
Receiving(b, head, outcome) ==
  LET c == RecvRoom(b, conn, Needed(b, head))
      zips == ~undo /\ head.T_LEN # head.PKG_LEN
      zbuf == IF zips /\ ~b.zbuf THEN head.PKG_LEN + 1 ELSE 0    \* its place in RecvBuffer
      came == IF zips /\ b.zbuf THEN 0 ELSE zbuf + head.T_LEN
      past == \/ came > c.RecvBuffer
              \/ outcome \in {"ok", "length"} /\ head.PKG_LEN > c.RecvBuffer
              \/ outcome = "ok" /\ head.PKG_LEN >= c.RecvBuffer
      lost == IF zips /\ b.zbuf /\ outcome \in {"timeout", "crc", "format"} THEN 1 ELSE 0
  IN IF outcome = "nohead" \/ head.T_LEN = 0 THEN Did(conn, FALSE, FALSE, 0)
     ELSE Did(IF outcome = "short" THEN RecvFreed(c) ELSE c, past, FALSE, lost)

\* A buffer is freed when there is one; in net_pkg.c when there is a length.
Freeing(b) ==
  Did(initconnect, FALSE, FALSE,
      IF b.zbuf THEN 0
      ELSE (IF conn.SendLen = 0 /\ conn.SendBuffer # 0 THEN 1 ELSE 0)
           + (IF conn.RecvLen = 0 /\ conn.RecvBuffer # 0 THEN 1 ELSE 0))

\* The three builds.
SendPack_pkg(head, inRecv, open) == Sending(NetPkg, head, inRecv, open)
SendPack_quicklz(head, inRecv, open) == Sending(NetQuicklz, head, inRecv, open)
SendPack_memzip(head, inRecv, open) == Sending(NetMemzip, head, inRecv, open)
RecvPack_pkg(head, outcome) == Receiving(NetPkg, head, outcome)
RecvPack_quicklz(head, outcome) == Receiving(NetQuicklz, head, outcome)
RecvPack_memzip(head, outcome) == Receiving(NetMemzip, head, outcome)
freeconnect_pkg == Freeing(NetPkg)
freeconnect_quicklz == Freeing(NetQuicklz)
freeconnect_memzip == Freeing(NetMemzip)

-----------------------------------------------------------------------------
(* One connection *)

PackBuffersInit ==
  /\ build \in {"pkg", "quicklz", "memzip"} /\ undo \in BOOLEAN
  /\ conn = initconnect /\ data = 0 /\ largest = 0 /\ packs = 0
  /\ seen = [past |-> FALSE, freed |-> FALSE, lost |-> 0, failed |-> FALSE, longer |-> FALSE]

\* A body of length n as it may come, longer than its text too.
HeadOf(n) ==
  {[PKG_LEN |-> n, T_LEN |-> t] :
     t \in {n, n + 1} \cup {k \in {n - (n \div 8), n \div 2} : k >= 9}}

\* As it is sent: a forwarder has T_LEN from its peer, memzip may make a body longer.
SentHeads(n) == {head \in HeadOf(n) : head.T_LEN <= n \/ undo \/ build = "memzip"}

Note(did, failed, longer) ==
  /\ conn' = did.conn
  /\ seen' = [past |-> seen.past \/ did.past, freed |-> seen.freed \/ did.freed,
              lost |-> seen.lost + did.lost, failed |-> seen.failed \/ failed, longer |-> seen.longer \/ longer]
  /\ packs' = packs + 1
  /\ UNCHANGED <<build, undo>>

CallSend(head, inRecv, open) ==
  CASE build = "pkg" -> SendPack_pkg(head, inRecv, open)
    [] build = "quicklz" -> SendPack_quicklz(head, inRecv, open)
    [] build = "memzip" -> SendPack_memzip(head, inRecv, open)
CallRecv(head, outcome) ==
  CASE build = "pkg" -> RecvPack_pkg(head, outcome)
    [] build = "quicklz" -> RecvPack_quicklz(head, outcome)
    [] build = "memzip" -> RecvPack_memzip(head, outcome)

SendOne ==
  /\ packs < MaxPacks
  /\ \E n \in BodyLengths, open \in BOOLEAN : \E head \in SentHeads(n) :
       Note(CallSend(head, FALSE, open), FALSE, FALSE)
  /\ data' = 0
  /\ UNCHANGED largest

\* Echo: what was received is sent back from where it is.
Echo ==
  /\ packs < MaxPacks /\ data > 0
  /\ \E head \in SentHeads(data) : Note(CallSend(head, TRUE, TRUE), FALSE, FALSE)
  /\ data' = 0
  /\ UNCHANGED largest

RecvOne ==
  /\ packs < MaxPacks
  /\ \E n \in BodyLengths : \E head \in HeadOf(n), outcome \in Outcomes :
       /\ outcome \in {"format", "length"} => ~undo /\ head.T_LEN # head.PKG_LEN
       /\ outcome = "format" => build # "memzip"
       /\ outcome \in {"ok", "length"} /\ ~undo /\ head.T_LEN # head.PKG_LEN =>
            head.T_LEN >= 9 \/ build = "memzip"
       /\ Note(CallRecv(head, outcome), outcome # "ok", outcome # "nohead" /\ head.T_LEN > n)
       /\ data' = IF outcome = "ok" /\ head.T_LEN > 0 THEN n ELSE 0
       /\ largest' = IF outcome # "nohead" /\ n > largest THEN n ELSE largest

FreeOne ==
  /\ packs < MaxPacks
  /\ Note(CASE build = "pkg" -> freeconnect_pkg
            [] build = "quicklz" -> freeconnect_quicklz
            [] build = "memzip" -> freeconnect_memzip, FALSE, FALSE)
  /\ data' = 0
  /\ UNCHANGED largest

PackBuffersNext == SendOne \/ Echo \/ RecvOne \/ FreeOne

PackBuffersSpec == PackBuffersInit /\ [][PackBuffersNext]_packBufferVars

FramesSpec == FrameSpec /\ PackBuffersSpec

-----------------------------------------------------------------------------
(* Properties. *)

\* Nothing is written behind a buffer, but in a forwarder, where the byte behind the text
\* goes where the text would end if it were not compressed (net_pkg.c:260), and in the
\* build that is used when a body comes that is longer than its text, for which there is
\* no room behind it (net_pkg.c:204-223); nothing is lost, but in the older builds when a
\* compressed body does not come as it should (net_quicklz.c:217-242); Echo sends what
\* it received unless the buffer is so large that SendPack frees it first
\* (net_pkg.c:134-138).
BuffersKept ==
  /\ seen.past => undo \/ (build = "pkg" /\ seen.longer)
  /\ seen.lost > 0 => build # "pkg" /\ seen.failed
  /\ seen.freed => 2 * largest + 2 > (IF build = "pkg" THEN NetPkg.keep ELSE NetQuicklz.keep)
  /\ (conn.SendLen = 0) <=> (conn.SendBuffer = 0)
  /\ conn.RecvLen = conn.RecvBuffer

\* What is received is what was sent, through the buffers there are (net_pkg.c,
\* net_quicklz.c, net_memzip.c).
FramesAgree == FramesRead /\ BuffersKept
=============================================================================

-------------------------------- MODULE Frame ---------------------------------
(***************************************************************************)
(* What SendPack and RecvPack (net_pkg.c) make of a packet: the check      *)
(* number of its head, the compression, the encryption and the CRC of its  *)
(* body, end to end and through a forwarder, which receives and sends with *)
(* UNDO_ZIP: it leaves compressed what comes compressed.                   *)
(*                                                                         *)
(* A body is the text with the coats it was given, the last one first:     *)
(* [text, coats].  Encryption is the inverse of decryption with the same   *)
(* key and mode (module Enigma).  qlz_compress returns the text as it is   *)
(* when compressing would not make it shorter (external).                  *)
(***************************************************************************)
EXTENDS Integers, Sequences

CONSTANTS
  HalfBits,  \* bits of half a number (16 in the code)
  Inits,     \* values of family[29]
  LastPara,  \* numbers of a head besides the first (8 in the code)
  Sizes,     \* PKG_LEN of a body, greater than 1
  MaxLinks   \* connections from the client to the server (a bound of the model)

ASSUME FrameAssumption ==
  /\ HalfBits \in Nat \ {0} /\ Inits \subseteq Nat /\ LastPara \in Nat
  /\ MaxLinks \in Nat /\ Sizes \subseteq Nat \ {0, 1}

VARIABLES
  para,  \* the numbers of a head
  init,  \* the number both ends start the sum from
  body,  \* a body: [size, short: its size when it is compressed]
  links  \* the connections it passes, from the client to the server

frameVars == <<para, init, body, links>>

Power(b, n) == LET upto[k \in 0 .. n] == IF k = 0 THEN 1 ELSE b * upto[k - 1] IN upto[n]
HalfSize == Power(2, HalfBits)
CheckNumbers == 0 .. HalfSize * HalfSize - 1
Low(n) == n % HalfSize

-----------------------------------------------------------------------------
(* The head *)

Sum(p) ==
  LET upto[i \in 0 .. LastPara] == IF i = 0 THEN Low(p[0]) ELSE upto[i - 1] + p[i]
  IN upto[LastPara]

\* Mutant: the old check number takes part in the new one.
ChknumKept(p, start) == [p EXCEPT ![0] = Low(@) + HalfSize * Low(start + Sum(p) + @ \div HalfSize)]

\* The sum of all numbers takes the upper half of the first.
chknum(p, start) == [p EXCEPT ![0] = Low(@) + HalfSize * Low(start + Sum(p))]

NetHeadPack(p, start) == chknum(p, start)

\* FORMATERR is <<>>.
NetHeadDispack(p, start) ==
  IF chknum(p, start)[0] = p[0] THEN [p EXCEPT ![0] = Low(@)] ELSE <<>>

-----------------------------------------------------------------------------
(* The body; a connection is [key, crypt: the mode, zip, undo]. *)

pack_encode(conn, b) ==
  IF conn.crypt = 0 THEN b ELSE [b EXCEPT !.coats = <<<<conn.key, conn.crypt>>>> \o @]

pack_decode(conn, b) ==
  IF conn.crypt = 0 THEN b
  ELSE IF b.coats # <<>> /\ b.coats[1] = <<conn.key, conn.crypt>>
       THEN [b EXCEPT !.coats = Tail(@)]
       ELSE [b EXCEPT !.text = "garbled"]

\* A head and a body to send, with T_LEN and PKG_CRC (the CRC of a body stands for it).
qlz_compress(head, b) ==
  IF body.short < head.PKG_LEN
  THEN [b EXCEPT !.coats = <<"zip">> \o @] ELSE b
qlz_length(head) == IF body.short < head.PKG_LEN THEN body.short ELSE head.PKG_LEN

SendPack(conn, pack) ==
  LET zips == conn.zip /\ ~conn.undo
      text == IF zips THEN qlz_compress(pack.head, pack.body) ELSE pack.body
      sent == pack_encode(conn, text)
  IN [head |-> [PKG_LEN |-> pack.head.PKG_LEN,
                T_LEN |-> IF zips THEN qlz_length(pack.head)
                          ELSE IF conn.undo THEN pack.head.T_LEN ELSE pack.head.PKG_LEN,
                PKG_CRC |-> sent],
      body |-> sent, ret |-> "ok"]

RecvPack(conn, pack) ==
  LET text == pack_decode(conn, pack.body)
      zipped == ~conn.undo /\ pack.head.T_LEN # pack.head.PKG_LEN
  IN IF pack.body # pack.head.PKG_CRC THEN [pack EXCEPT !.ret = "CRCERR"]
     ELSE IF ~zipped THEN [pack EXCEPT !.body = text]
     ELSE IF text.coats = <<>> \/ text.coats[1] # "zip" THEN [pack EXCEPT !.ret = "FORMATERR"]
     ELSE [pack EXCEPT !.body = [text EXCEPT !.coats = Tail(@)]]

\* From link to link.  All ends but the client and the server undo no compression.
Outer(i) == [links[i] EXCEPT !.undo = i > 1]
Inner(i) == [links[i] EXCEPT !.undo = i < Len(links)]

Offered == [head |-> [PKG_LEN |-> body.size, T_LEN |-> 0, PKG_CRC |-> [text |-> "", coats |-> <<>>]],
          body |-> [text |-> "data", coats |-> <<>>], ret |-> "ok"]

Delivered ==
  LET at[i \in 0 .. Len(links)] ==
        IF i = 0 THEN Offered ELSE RecvPack(Inner(i), SendPack(Outer(i), at[i - 1]))
  IN at[Len(links)]

-----------------------------------------------------------------------------
(* Any head, any body over any connections *)

FrameInit == para = <<>> /\ init = 0 /\ body = <<>> /\ links = <<>>

GiveHead ==
  /\ para = <<>> /\ body = <<>>
  /\ para' \in [0 .. LastPara -> CheckNumbers] /\ init' \in Inits
  /\ UNCHANGED <<body, links>>

GiveBody ==
  /\ para = <<>> /\ body = <<>>
  /\ body' \in [size : Sizes, short : Sizes]
  /\ \E n \in 1 .. MaxLinks :
     \E mode \in [1 .. n -> 0 .. 3], zip \in [1 .. n -> BOOLEAN] :
       links' = [i \in 1 .. n |-> [key |-> i, crypt |-> mode[i], zip |-> zip[i], undo |-> FALSE]]
  /\ UNCHANGED <<para, init>>

FrameNext == GiveHead \/ GiveBody

FrameSpec == FrameInit /\ [][FrameNext]_frameVars

-----------------------------------------------------------------------------
(* Properties. *)

\* A head is read as it was sent, its first number cut to half a number, though it
\* may be sent again with its old check number in it.  A change of one number is
\* noticed unless it leaves the lower half alone.
HeadsRead ==
  para # <<>> =>
    LET sent == NetHeadPack(para, init) IN
    /\ NetHeadDispack(sent, init) = [para EXCEPT ![0] = Low(@)]
    /\ NetHeadDispack(NetHeadPack(sent, init), init) = [para EXCEPT ![0] = Low(@)]
    /\ \A i \in 1 .. LastPara, n \in CheckNumbers :
         LET got == NetHeadDispack([sent EXCEPT ![i] = n], init)
         IN (got = <<>>) <=> Low(n) # Low(sent[i])

\* The server gets the client's text, through any number of forwarders and whichever
\* of the connections compress and encrypt.
BodiesRead ==
  body # <<>> => Delivered.ret = "ok" /\ Delivered.body = [text |-> "data", coats |-> <<>>]
                 /\ Delivered.head.PKG_LEN = body.size

\* What is received is what was sent.
FramesRead == HeadsRead /\ BodiesRead
=============================================================================

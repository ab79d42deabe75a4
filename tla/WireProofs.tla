------------------------------- MODULE WireProofs ------------------------------
(***************************************************************************)
(* The two ends of a connection stay in step (Wire), for any sizes of head, *)
(* bodies, writes and kernel buffers and for any number of packets.         *)
(***************************************************************************)
EXTENDS Wire, SequenceTheorems, TLAPS

Byte == Nat \X Nat

WireTypes ==
  /\ WireTypeOK
  /\ out \in [step : {"idle", "write", "yield", "failed", "gone"}, bcount : Nat, buf : Nat, fflag : BOOLEAN]
  /\ in \in [step : {"idle", "read", "yield"}, buf : Seq(Byte), repeat : 0 .. 4, fflag : BOOLEAN]
  /\ wire \in Seq(Byte) /\ head \in Seq(Byte) /\ arrived \in Seq(Seq(Byte))

Size(p) == HeadSize + bodies[p]
Count == Len(bodies)

\* What SendNet has written of the last packet.
Sending ==
  /\ out.bcount = out.buf
  /\ IF Count = 0 THEN out.buf = 0 /\ out.step \notin {"write", "yield"}
                  ELSE out.buf <= Size(Count) /\ (out.step = "idle" => out.buf = Size(Count))

\* The byte to be written next.
Due == IF Count > 0 /\ out.buf < Size(Count) THEN <<Count, out.buf + 1>> ELSE <<Count + 1, 1>>

\* The bytes on the wire and the one after them.
Stream(j) == IF j <= Len(wire) THEN wire[j] ELSE Due

\* Byte follows byte, packet follows packet.
InOrder ==
  /\ \A i \in 1 .. Len(wire) : \E p \in 1 .. Count, x \in Nat \ {0} : wire[i] = <<p, x>> /\ x <= Size(p)
  /\ \A i \in 1 .. Len(wire), j \in 1 .. Len(wire) + 1, p \in 1 .. Count, x \in Nat :
       i < j /\ wire[i] = <<p, x>> =>
         /\ x + (j - i) <= Size(p) => Stream(j) = <<p, x + (j - i)>>
         /\ x + (j - i) = Size(p) + 1 => Stream(j) = <<p + 1, 1>>

\* How much RecvPack has of the next packet.
Here == Len(arrived) + 1
Got == IF in.step = "idle" THEN 0 ELSE IF part = "head" THEN Len(in.buf) ELSE HeadSize + Len(in.buf)

\* The byte to be read next is the first on the wire.
Wanted == IF Got > 0 /\ Got = Size(Here) THEN <<Here + 1, 1>> ELSE <<Here, Got + 1>>
Joined == Stream(1) = Wanted

Taken ==
  /\ Got > 0 => Here <= Count /\ Got <= Size(Here)
  /\ in.step # "idle" /\ part = "head" =>
       Len(in.buf) <= HeadSize /\ \A m \in 1 .. Len(in.buf) : in.buf[m] = <<Here, m>>
  /\ in.step # "idle" /\ part = "body" =>
       /\ Len(head) = HeadSize /\ \A m \in 1 .. HeadSize : head[m] = <<Here, m>>
       /\ \A m \in 1 .. Len(in.buf) : in.buf[m] = <<Here, HeadSize + m>>

\* The descriptor does not block only while a fiber may wait.
Mode == nonblock => in.step # "idle" /\ in.fflag

WholePackets == Len(arrived) <= Count /\ \A p \in 1 .. Len(arrived) : arrived[p] = Packet(p)

WireInv ==
  /\ WireTypes /\ Sending /\ WholePackets
  /\ IF result = "ok" THEN InOrder /\ Joined /\ Taken /\ Mode ELSE in.step = "idle"

-----------------------------------------------------------------------------
LEMMA Sizes ==
  ASSUME WireTypes
  PROVE  /\ HeadSize \in Nat \ {0} /\ Count \in Nat
         /\ \A p \in 1 .. Count : bodies[p] \in Nat /\ Size(p) \in Nat /\ Size(p) >= HeadSize
         /\ Len(wire) \in Nat /\ Len(in.buf) \in Nat /\ Len(arrived) \in Nat /\ out.buf \in Nat
<1>1. /\ HeadSize \in Nat \ {0} /\ BodySizes \subseteq Nat
      /\ bodies \in Seq(BodySizes) /\ wire \in Seq(Byte) /\ in.buf \in Seq(Byte) /\ arrived \in Seq(Seq(Byte))
      /\ out.buf \in Nat
  BY WireAssumption DEF WireTypes, WireTypeOK
<1> HIDE DEF Byte
<1>2. Len(bodies) \in Nat /\ \A p \in 1 .. Len(bodies) : bodies[p] \in Nat
  <2>1. Len(bodies) \in Nat /\ \A p \in 1 .. Len(bodies) : bodies[p] \in BodySizes
    BY <1>1
  <2> QED BY <1>1, <2>1
<1>3. Len(wire) \in Nat /\ Len(in.buf) \in Nat /\ Len(arrived) \in Nat
  BY <1>1
<1> QED BY <1>1, <1>2, <1>3 DEF Size, Count

LEMMA WireStart == WireInit => WireInv
<1> SUFFICES ASSUME WireInit PROVE WireInv
  OBVIOUS
<1> USE WireAssumption DEF WireInit
<1>1. <<>> \in Seq(Byte) /\ <<>> \in Seq(Seq(Byte)) /\ <<>> \in Seq(BodySizes)
  OBVIOUS
<1>2. WireTypes
  <2>1. Len(wire) = 0 /\ Len(bodies) = 0
    OBVIOUS
  <2>2. WireTypeOK
    <3>1. bodies \in Seq(BodySizes) /\ Len(bodies) <= MaxPackets /\ Len(wire) <= Room
      BY <1>1, <2>1
    <3>2. /\ out.step \in {"idle", "write", "yield", "failed", "gone"}
          /\ part \in {"head", "body"} /\ in.step \in {"idle", "read", "yield"} /\ in.repeat \in 0 .. 4
          /\ lasterr \in {"none", "again", "other"} /\ rcvtimeo \in {0, HeadTime, 5}
          /\ result \in {"ok", "timeout", "short"}
      OBVIOUS
    <3>3. yields \in BOOLEAN /\ shut \in BOOLEAN /\ nonblock \in BOOLEAN /\ out.fflag \in BOOLEAN
      OBVIOUS
    <3> QED BY <3>1, <3>2, <3>3 DEF WireTypeOK
  <2> HIDE DEF Byte
  <2> QED BY <1>1, <2>2 DEF WireTypes
<1>3. Count = 0 /\ Len(wire) = 0 /\ Len(arrived) = 0 /\ Here = 1 /\ Got = 0
  BY DEF Count, Here, Got
<1>4. Sending /\ WholePackets /\ Taken /\ Mode
  BY <1>3 DEF Sending, WholePackets, Taken, Mode
<1>5. InOrder /\ Joined
  BY <1>3 DEF InOrder, Joined, Stream, Due, Wanted
<1> QED BY <1>2, <1>4, <1>5 DEF WireInv

\* The stream does not change with what is not part of it.
LEMMA StreamStands ==
  ASSUME UNCHANGED <<bodies, wire, out.buf>>
  PROVE  InOrder' <=> InOrder
BY DEF InOrder, Stream, Due, Size, Count

LEMMA JoinStands ==
  ASSUME UNCHANGED <<bodies, wire, out.buf, arrived>>, Got' = Got
  PROVE  Joined' <=> Joined
BY DEF Joined, Stream, Due, Wanted, Here, Size, Count

LEMMA PacketsStand ==
  ASSUME UNCHANGED <<bodies, arrived>>
  PROVE  WholePackets' <=> WholePackets
BY DEF WholePackets, Packet, Count

\* The sender's steps without a byte.
LEMMA SenderStep ==
  ASSUME WireInv, WriteFull \/ WriteResumed \/ WriteFails \/ Sent \/ Shut
  PROVE  WireInv'
<1> USE DEF WireInv
<1>1. /\ out.fflag \in BOOLEAN /\ shut \in BOOLEAN
      /\ out \in [step : {"idle", "write", "yield", "failed", "gone"}, bcount : Nat, buf : Nat, fflag : BOOLEAN]
  BY DEF WireTypes, WireTypeOK
<1>2. UNCHANGED <<yields, bodies, wire, recvVars>> /\ shut' \in BOOLEAN
  BY <1>1 DEF WriteFull, WriteResumed, WriteFails, Sent, Shut
<1>3. /\ out' \in [step : {"idle", "write", "yield", "failed", "gone"}, bcount : Nat, buf : Nat, fflag : BOOLEAN]
      /\ out'.buf = out.buf /\ out'.bcount = out.bcount
      /\ out'.step = "idle" => out.bcount = Whole
      /\ out'.step \in {"write", "yield", "idle"} => out.step \in {"write", "yield"}
  <2>1. CASE WriteFull
    <3>1. out' = [out EXCEPT !.step = "yield"] /\ out.step = "write"
      BY <2>1 DEF WriteFull, Writing
    <3> QED BY <1>1, <3>1
  <2>2. CASE WriteResumed
    <3>1. PICK f \in BOOLEAN : out' = [out EXCEPT !.step = "write", !.fflag = f]
      BY <2>2 DEF WriteResumed
    <3>2. out.step = "yield"
      BY <2>2 DEF WriteResumed
    <3> QED BY <1>1, <3>1, <3>2
  <2>3. CASE WriteFails
    <3>1. out' = [out EXCEPT !.step = "failed"]
      BY <2>3 DEF WriteFails
    <3> QED BY <1>1, <3>1
  <2>4. CASE Sent
    <3>1. out' = [out EXCEPT !.step = "idle"] /\ out.step = "write" /\ out.bcount = Whole
      BY <2>4 DEF Sent
    <3> QED BY <1>1, <3>1
  <2>5. CASE Shut
    <3>1. out' = [out EXCEPT !.step = "gone"]
      BY <2>5 DEF Shut
    <3> QED BY <1>1, <3>1
  <2> QED BY <2>1, <2>2, <2>3, <2>4, <2>5
<1>4. WireTypes'
  <2>1. out'.step \in {"idle", "write", "yield", "failed", "gone"} /\ out'.fflag \in BOOLEAN
    BY <1>3
  <2> HIDE DEF Byte
  <2> QED BY <1>2, <1>3, <2>1 DEF WireTypes, WireTypeOK, recvVars
<1>5. Sending'
  BY <1>2, <1>3 DEF Sending, Whole, Size, Count
<1>6. WholePackets'
  BY <1>2, PacketsStand DEF recvVars
<1>7. UNCHANGED <<bodies, wire, out.buf, in, part, head, arrived, nonblock, result>>
  BY <1>2, <1>3 DEF recvVars
<1>8. Got' = Got /\ (Taken' <=> Taken) /\ (Mode' <=> Mode)
  BY <1>7 DEF Got, Taken, Here, Mode, Size, Count
<1> QED BY <1>4, <1>5, <1>6, <1>7, <1>8, StreamStands, JoinStands

LEMMA SendStep ==
  ASSUME WireInv, Send
  PROVE  WireInv'
<1> USE DEF WireInv
<1>1. PICK b \in BodySizes : bodies' = Append(bodies, b)
  BY DEF Send
<1>2. /\ out.step = "idle" /\ Count < MaxPackets
      /\ out' = [step |-> "write", bcount |-> 0, buf |-> 0, fflag |-> yields]
      /\ UNCHANGED <<yields, wire, shut, part, head, in, lasterr, rcvtimeo, nonblock, arrived, result>>
  BY DEF Send, recvVars, Count
<1>3. /\ bodies' \in Seq(BodySizes) /\ Count' = Count + 1 /\ bodies'[Count + 1] = b
      /\ \A p \in 1 .. Count : bodies'[p] = bodies[p]
  BY <1>1 DEF WireTypes, WireTypeOK, Count
<1>4. /\ HeadSize \in Nat \ {0} /\ Count \in Nat /\ Len(arrived) \in Nat /\ Len(wire) \in Nat
      /\ \A p \in 1 .. Count : HeadSize + bodies'[p] = Size(p) /\ Size(p) \in Nat
      /\ b \in Nat
  <2>1. \A p \in 1 .. Count : HeadSize + bodies'[p] = Size(p)
    BY <1>3 DEF Size
  <2> QED BY <2>1, Sizes, WireAssumption
<1>5. WireTypes'
  BY <1>2, <1>3, WireAssumption DEF WireTypes, WireTypeOK, Count
<1>6. Sending'
  <2>1. Count' # 0 /\ Count' = Count + 1
    BY <1>3, <1>4
  <2>2. 0 <= HeadSize + bodies'[Count'] /\ out'.buf = 0 /\ out'.bcount = 0 /\ out'.step = "write"
    BY <1>2, <1>3, <1>4
  <2> QED BY <2>1, <2>2 DEF Sending, Size
<1>7. WholePackets'
  <2>1. \A p \in 1 .. Count : Packet(p)' = Packet(p)
    BY <1>3 DEF Packet
  <2> QED BY <1>2, <1>3, <1>4, <2>1 DEF WholePackets
<1>8. Due = <<Count + 1, 1>> /\ Due' = <<Count + 1, 1>>
  <2>1. ~(Count > 0 /\ out.buf < Size(Count))
    BY <1>2, <1>4, Sizes DEF Sending
  <2>2. Count' > 0 /\ out'.buf < HeadSize + bodies'[Count'] /\ Count' = Count + 1 /\ out'.buf + 1 = 1
    BY <1>2, <1>3, <1>4
  <2> QED BY <2>1, <2>2 DEF Due, Size
<1>9. \A j : Stream(j)' = Stream(j)
  BY <1>2, <1>8 DEF Stream
<1>10. ASSUME result = "ok" PROVE InOrder' /\ Joined' /\ Taken' /\ Mode'
  <2>1. Here' = Here /\ Got' = Got /\ Here \in Nat
    BY <1>2, <1>4 DEF Here, Got
  <2>2. Taken' /\ Mode'
    <3>1. Got > 0 => Here \in 1 .. Count
      BY <1>4, <1>10, <2>1 DEF Taken, Here
    <3>2. Got > 0 => Here <= Count' /\ Got <= HeadSize + bodies'[Here]
      BY <1>3, <1>4, <1>10, <3>1 DEF Taken
    <3>3. Mode'
      BY <1>2, <1>10 DEF Mode
    <3> QED BY <1>2, <1>10, <2>1, <3>2, <3>3 DEF Taken, Size
  <2>3. Got > 0 => Here \in 1 .. Count
    BY <1>4, <1>10, <2>1 DEF Taken, Here
  <2>4. Wanted' = Wanted
    BY <1>4, <2>1, <2>3 DEF Wanted, Size
  <2>5. Joined'
    BY <1>9, <1>10, <2>4 DEF Joined
  <2>6. \A i \in 1 .. Len(wire) : \E p \in 1 .. Count, x \in Nat \ {0} : wire[i] = <<p, x>> /\ x <= Size(p)
    BY <1>10 DEF InOrder
  <2>7. ASSUME NEW i \in 1 .. Len(wire)
        PROVE  \E p \in 1 .. Count', x \in Nat \ {0} : wire[i] = <<p, x>> /\ x <= HeadSize + bodies'[p]
    <3>1. PICK p \in 1 .. Count, x \in Nat \ {0} : wire[i] = <<p, x>> /\ x <= Size(p)
      BY <2>6
    <3>2. p \in 1 .. Count' /\ HeadSize + bodies'[p] = Size(p)
      BY <1>3, <1>4
    <3>3. x <= HeadSize + bodies'[p]
      BY <3>1, <3>2
    <3> QED BY <3>1, <3>2, <3>3
  <2>8. ASSUME NEW i \in 1 .. Len(wire), NEW j \in 1 .. Len(wire) + 1, NEW p \in 1 .. Count', NEW x \in Nat,
               i < j, wire[i] = <<p, x>>
        PROVE  /\ x + (j - i) <= HeadSize + bodies'[p] => Stream(j) = <<p, x + (j - i)>>
               /\ x + (j - i) = HeadSize + bodies'[p] + 1 => Stream(j) = <<p + 1, 1>>
    <3>1. p \in 1 .. Count
      BY <2>6, <2>8
    <3> QED BY <1>4, <1>10, <2>8, <3>1 DEF InOrder
  <2>9. InOrder'
    <3>1. wire' = wire
      BY <1>2
    <3>2. \A i \in 1 .. Len(wire') : \E p \in 1 .. Count', x \in Nat \ {0} :
            wire'[i] = <<p, x>> /\ x <= HeadSize + bodies'[p]
      BY <2>7, <3>1
    <3>3. \A i \in 1 .. Len(wire'), j \in 1 .. Len(wire') + 1, p \in 1 .. Count', x \in Nat :
            i < j /\ wire'[i] = <<p, x>> =>
              /\ x + (j - i) <= HeadSize + bodies'[p] => Stream(j)' = <<p, x + (j - i)>>
              /\ x + (j - i) = HeadSize + bodies'[p] + 1 => Stream(j)' = <<p + 1, 1>>
      BY <1>9, <2>8, <3>1
    <3> QED BY <3>2, <3>3 DEF InOrder, Size
  <2> QED BY <2>2, <2>5, <2>9
<1> QED BY <1>2, <1>5, <1>6, <1>7, <1>10

\* Some bytes of the last packet.
LEMMA WriteStep ==
  ASSUME WireInv, Write
  PROVE  WireInv'
<1> USE DEF WireInv
<1>0. PICK n \in Nat, c \in Nat, b \in Nat : n = Len(wire) /\ c = Count /\ b = out.buf
  BY Sizes
<1>1. PICK k \in 1 .. Least(Asked, Room - n) :
        /\ wire' = wire \o SubSeq(Packet(c), b + 1, b + k)
        /\ out' = [out EXCEPT !.bcount = @ + k, !.buf = b + k,
                              !.step = IF k < Asked /\ out.fflag THEN "yield" ELSE "write"]
  BY <1>0 DEF Write, Count, Behind
<1>2. /\ out.step = "write" /\ out.bcount < Whole /\ result = "ok"
      /\ UNCHANGED <<yields, bodies, shut, part, head, in, lasterr, rcvtimeo, nonblock, arrived, result>>
  BY DEF Write, Writing, recvVars
<1>3. /\ n \in Nat /\ c \in Nat \ {0} /\ b \in Nat /\ Size(c) \in Nat /\ b < Size(c) /\ out.bcount = b
      /\ Whole = Size(c)
  BY <1>0, <1>2, Sizes DEF Sending, Whole, Size, Count
<1>4. /\ k \in Nat \ {0} /\ b + k <= Size(c) /\ n + k <= Room
  BY <1>0, <1>3, WireAssumption DEF Asked, Least
<1>5. Due = <<c, b + 1>>
  BY <1>0, <1>3 DEF Due
<1> DEFINE new == SubSeq(Packet(c), b + 1, b + k)
<1>6. new \in Seq(Byte) /\ Len(new) = k /\ \A m \in 1 .. k : new[m] = <<c, b + m>>
  <2>1. Packet(c) \in Seq(Byte) /\ Len(Packet(c)) = Size(c)
        /\ \A x \in 1 .. Size(c) : Packet(c)[x] = <<c, x>>
    <3>1. Packet(c) = [x \in 1 .. Size(c) |-> <<c, x>>]
      BY DEF Packet, Size
    <3>2. \A x \in 1 .. Size(c) : <<c, x>> \in Byte
      BY <1>3 DEF Byte
    <3> HIDE DEF Byte
    <3>3. Packet(c) \in [1 .. Size(c) -> Byte]
      BY <3>1, <3>2, Zenon
    <3>4. Packet(c) \in Seq(Byte) /\ Len(Packet(c)) = Size(c)
      BY <1>3, <3>3, SeqDef, LenProperties
    <3> QED BY <3>1, <3>4
  <2> HIDE DEF Byte
  <2>2. b + 1 \in 1 .. Len(Packet(c)) /\ b + k \in 1 .. Len(Packet(c)) /\ b + 1 <= b + k + 1
    BY <1>3, <1>4, <2>1
  <2>3. /\ new \in Seq(Byte) /\ Len(new) = IF b + 1 <= b + k THEN b + k - (b + 1) + 1 ELSE 0
        /\ \A m \in 1 .. b + k - (b + 1) + 1 : new[m] = Packet(c)[b + 1 + m - 1]
    <3>1. b + 1 \in Int /\ b + k \in Int /\ \A i \in b + 1 .. b + k : Packet(c)[i] \in Byte
      BY <1>3, <1>4, <2>1
    <3> QED BY <3>1, SubSeqProperties
  <2>5. b + 1 <= b + k /\ b + k - (b + 1) + 1 = k
    BY <1>3, <1>4
  <2>4. \A m \in 1 .. k : b + 1 + m - 1 = b + m /\ b + m \in 1 .. Size(c)
    BY <1>3, <1>4
  <2> QED BY <2>1, <2>3, <2>4, <2>5
<1>7. /\ wire' \in Seq(Byte) /\ Len(wire') = n + k /\ \A i \in 1 .. n : wire'[i] = wire[i]
      /\ \A m \in 1 .. k : wire'[n + m] = <<c, b + m>>
  <2>1. wire \in Seq(Byte)
    BY DEF WireTypes
  <2> HIDE DEF Byte, new
  <2>2. wire' = wire \o new
    BY <1>1 DEF new
  <2>3. Len(wire') = n + k /\ \A i \in 1 .. n + k : wire'[i] = IF i <= n THEN wire[i] ELSE new[i - n]
    BY <1>0, <1>6, <2>1, <2>2, ConcatProperties
  <2>4. \A m \in 1 .. k : wire'[n + m] = new[m]
    BY <1>3, <1>4, <2>3
  <2>5. wire' \in Seq(Byte)
    BY <1>6, <2>1, <2>2, ConcatProperties
  <2> QED BY <1>3, <1>4, <1>6, <2>3, <2>4, <2>5
<1> HIDE DEF new
<1>8. /\ out' \in [step : {"idle", "write", "yield", "failed", "gone"}, bcount : Nat, buf : Nat, fflag : BOOLEAN]
      /\ out'.buf = b + k /\ out'.bcount = b + k /\ out'.step \in {"write", "yield"}
  <2>1. out \in [step : {"idle", "write", "yield", "failed", "gone"}, bcount : Nat, buf : Nat, fflag : BOOLEAN]
    BY DEF WireTypes
  <2>2. PICK s \in {"write", "yield"} : out' = [out EXCEPT !.bcount = @ + k, !.buf = b + k, !.step = s]
    BY <1>1
  <2>3. out.bcount + k = b + k /\ b + k \in Nat
    BY <1>3, <1>4
  <2>4. s \in {"idle", "write", "yield", "failed", "gone"}
    OBVIOUS
  <2> QED BY <2>1, <2>2, <2>3, <2>4
<1>9. WireTypes'
  <2>1. Len(wire') <= Room /\ out'.step \in {"idle", "write", "yield", "failed", "gone"} /\ out'.fflag \in BOOLEAN
    BY <1>4, <1>7, <1>8
  <2> HIDE DEF Byte
  <2> QED BY <1>2, <1>7, <1>8, <2>1 DEF WireTypes, WireTypeOK
<1>10. Sending'
  BY <1>0, <1>2, <1>3, <1>4, <1>8 DEF Sending, Size, Count
<1>11. WholePackets'
  BY <1>2, PacketsStand
<1>12. Due' = IF b + k < Size(c) THEN <<c, b + k + 1>> ELSE <<c + 1, 1>>
  BY <1>0, <1>2, <1>3, <1>8 DEF Due, Size, Count
<1>13. \A i \in 1 .. n + 1 : Stream(i)' = Stream(i)
  <2>1. wire'[n + 1] = <<c, b + 1>>
    BY <1>4, <1>7
  <2> SUFFICES ASSUME NEW i \in 1 .. n + 1 PROVE Stream(i)' = Stream(i)
    OBVIOUS
  <2>2. i <= Len(wire')
    BY <1>3, <1>4, <1>7
  <2>3. Stream(i)' = wire'[i]
    BY <2>2 DEF Stream
  <2>4. CASE i = n + 1
    <3>1. ~(i <= Len(wire))
      BY <1>0, <1>3, <2>4
    <3> QED BY <1>5, <2>1, <2>3, <2>4, <3>1 DEF Stream
  <2>5. CASE i # n + 1
    <3>1. i <= Len(wire) /\ i \in 1 .. n
      BY <1>0, <1>3, <2>5
    <3> QED BY <1>7, <2>3, <3>1 DEF Stream
  <2> QED BY <2>4, <2>5
<1>14. \A m \in 1 .. k : Stream(n + m)' = <<c, b + m>>
  <2> SUFFICES ASSUME NEW m \in 1 .. k PROVE Stream(n + m)' = <<c, b + m>>
    OBVIOUS
  <2>1. n + m <= Len(wire')
    BY <1>3, <1>4, <1>7
  <2> QED BY <1>7, <2>1 DEF Stream
<1>15. Stream(n + k + 1)' = Due'
  BY <1>3, <1>4, <1>7 DEF Stream
<1>16. /\ \A i \in 1 .. n : \E p \in 1 .. c, x \in Nat \ {0} : wire[i] = <<p, x>> /\ x <= Size(p)
       /\ \A i \in 1 .. n, j \in 1 .. n + 1, p \in 1 .. c, x \in Nat :
            i < j /\ wire[i] = <<p, x>> =>
              /\ x + (j - i) <= Size(p) => Stream(j) = <<p, x + (j - i)>>
              /\ x + (j - i) = Size(p) + 1 => Stream(j) = <<p + 1, 1>>
  BY <1>0, <1>2 DEF InOrder
<1>17. \A p \in 1 .. c : Size(p) \in Nat
  BY <1>0, Sizes
\* The bytes before are of this packet and close up, or their packets are complete.
<1>18. ASSUME NEW i \in 1 .. n, NEW p \in 1 .. c, NEW x \in Nat, wire[i] = <<p, x>>
       PROVE  /\ p = c => x + (n + 1 - i) = b + 1
              /\ p # c => x + (n + 1 - i) > Size(p)
              /\ x <= Size(p)
  <2>1. Stream(n + 1) = <<c, b + 1>>
    BY <1>0, <1>3, <1>5 DEF Stream
  <2>2. /\ x + (n + 1 - i) <= Size(p) => Stream(n + 1) = <<p, x + (n + 1 - i)>>
        /\ x + (n + 1 - i) = Size(p) + 1 => Stream(n + 1) = <<p + 1, 1>>
    <3>1. n + 1 \in 1 .. n + 1 /\ i < n + 1
      BY <1>3
    <3> QED BY <1>16, <1>18, <3>1
  <2>3. x <= Size(p)
    BY <1>16, <1>18
  <2>4. CASE x + (n + 1 - i) <= Size(p)
    BY <1>3, <2>1, <2>2, <2>3, <2>4
  <2>5. CASE p = c /\ x + (n + 1 - i) > Size(p)
    <3>1. CASE x + (n + 1 - i) = Size(p) + 1
      BY <1>3, <2>1, <2>2, <2>5, <3>1
    <3>2. CASE x + (n + 1 - i) > Size(p) + 1
      <4> DEFINE j == i + (Size(p) + 1 - x)
      <4>1. j \in 1 .. n /\ i < j /\ x + (j - i) = Size(p) + 1
        BY <1>3, <1>17, <2>3, <3>2
      <4> HIDE DEF j
      <4>2. Stream(j) = <<p + 1, 1>>
        BY <1>3, <1>16, <1>18, <4>1
      <4>3. Stream(j) = wire[j]
        BY <1>0, <1>3, <4>1 DEF Stream
      <4>4. PICK q \in 1 .. c, y \in Nat \ {0} : wire[j] = <<q, y>>
        BY <1>16, <4>1
      <4> QED BY <1>3, <2>5, <4>2, <4>3, <4>4
    <3> QED BY <1>3, <1>17, <2>5, <3>1, <3>2
  <2>6. CASE p # c /\ x + (n + 1 - i) > Size(p)
    BY <2>3, <2>6
  <2> QED BY <1>3, <1>17, <2>4, <2>5, <2>6
<1>19. InOrder'
  <2>1. \A i \in 1 .. n + k : \E p \in 1 .. c, x \in Nat \ {0} : wire'[i] = <<p, x>> /\ x <= Size(p)
    <3> SUFFICES ASSUME NEW i \in 1 .. n + k
                 PROVE  \E p \in 1 .. c, x \in Nat \ {0} : wire'[i] = <<p, x>> /\ x <= Size(p)
      OBVIOUS
    <3>1. CASE i <= n
      <4>1. i \in 1 .. n /\ wire'[i] = wire[i]
        BY <1>3, <1>7, <3>1
      <4> QED BY <1>16, <4>1
    <3>2. CASE i > n
      <4> DEFINE m == i - n
      <4>1. m \in 1 .. k /\ i = n + m /\ b + m \in Nat \ {0} /\ b + m <= Size(c) /\ c \in 1 .. c
        BY <1>3, <1>4, <3>2
      <4> HIDE DEF m
      <4> QED BY <1>7, <4>1
    <3> QED BY <1>3, <1>4, <3>1, <3>2
  <2>2. ASSUME NEW i \in 1 .. n + k, NEW j \in 1 .. n + k + 1, NEW p \in 1 .. c, NEW x \in Nat,
               i < j, wire'[i] = <<p, x>>
        PROVE  /\ x + (j - i) <= Size(p) => Stream(j)' = <<p, x + (j - i)>>
               /\ x + (j - i) = Size(p) + 1 => Stream(j)' = <<p + 1, 1>>
    \* Where the last bytes are, and the next to come.
    <3>1. ASSUME j > n
          PROVE  /\ b + (j - n) <= Size(c) => Stream(j)' = <<c, b + (j - n)>>
                 /\ b + (j - n) = Size(c) + 1 => Stream(j)' = <<c + 1, 1>>
      <4>1. CASE j <= n + k
        <5> DEFINE m == j - n
        <5>1. m \in 1 .. k /\ j = n + m
          BY <1>3, <1>4, <3>1, <4>1
        <5> HIDE DEF m
        <5>2. Stream(j)' = <<c, b + m>> /\ j - n = m /\ b + m <= Size(c)
          BY <1>3, <1>4, <1>14, <5>1
        <5> QED BY <1>3, <5>1, <5>2
      <4>2. CASE j = n + k + 1
        <5>1. j - n = k + 1 /\ b + (j - n) = b + k + 1
          BY <1>3, <1>4, <4>2
        <5>2. Stream(j)' = IF b + k < Size(c) THEN <<c, b + k + 1>> ELSE <<c + 1, 1>>
          BY <1>12, <1>15, <4>2
        <5> QED BY <1>3, <1>4, <5>1, <5>2
      <4> QED BY <1>3, <1>4, <4>1, <4>2
    <3>2. CASE i > n
      <4> DEFINE m == i - n
      <4>1. m \in 1 .. k /\ i = n + m /\ j > n
        BY <1>3, <1>4, <2>2, <3>2
      <4> HIDE DEF m
      <4>2. p = c /\ x = b + m
        BY <1>7, <2>2, <4>1
      <4>3. x + (j - i) = b + (j - n)
        BY <1>3, <1>4, <4>1, <4>2
      <4> QED BY <3>1, <4>1, <4>2, <4>3
    <3>3. CASE i <= n /\ j <= n + 1
      <4>1. i \in 1 .. n /\ j \in 1 .. n + 1 /\ wire[i] = <<p, x>> /\ Stream(j)' = Stream(j)
        BY <1>3, <1>4, <1>7, <1>13, <2>2, <3>3
      <4> QED BY <1>16, <2>2, <4>1
    <3>4. CASE i <= n /\ j > n + 1
      <4>1. i \in 1 .. n /\ wire[i] = <<p, x>>
        BY <1>3, <1>7, <2>2, <3>4
      <4>2. /\ p = c => x + (n + 1 - i) = b + 1
            /\ p # c => x + (n + 1 - i) > Size(p)
        BY <1>18, <4>1
      <4>3. CASE p = c
        <5>1. x + (j - i) = b + (j - n)
          BY <1>3, <4>2, <4>3
        <5> QED BY <1>3, <3>1, <3>4, <4>3, <5>1
      <4>4. CASE p # c
        <5>1. x + (j - i) > Size(p) + 1
          BY <1>3, <1>17, <3>4, <4>2, <4>4
        <5> QED BY <1>17, <5>1
      <4> QED BY <4>3, <4>4
    <3> QED BY <1>3, <1>4, <3>2, <3>3, <3>4
  <2>3. /\ \A i \in 1 .. Len(wire') : \E p \in 1 .. Count', x \in Nat \ {0} : wire'[i] = <<p, x>> /\ x <= HeadSize + bodies'[p]
        /\ \A i \in 1 .. Len(wire'), j \in 1 .. Len(wire') + 1, p \in 1 .. Count', x \in Nat :
             i < j /\ wire'[i] = <<p, x>> =>
               /\ x + (j - i) <= HeadSize + bodies'[p] => Stream(j)' = <<p, x + (j - i)>>
               /\ x + (j - i) = HeadSize + bodies'[p] + 1 => Stream(j)' = <<p + 1, 1>>
    <3>1. Count' = c /\ Len(wire') = n + k
      BY <1>0, <1>2, <1>7 DEF Count
    <3>2. \A p : HeadSize + bodies'[p] = Size(p)
      BY <1>2 DEF Size
    <3>3. ASSUME NEW i \in 1 .. Len(wire'), NEW j \in 1 .. Len(wire') + 1, NEW p \in 1 .. Count', NEW x \in Nat,
                 i < j, wire'[i] = <<p, x>>
          PROVE  /\ x + (j - i) <= HeadSize + bodies'[p] => Stream(j)' = <<p, x + (j - i)>>
                 /\ x + (j - i) = HeadSize + bodies'[p] + 1 => Stream(j)' = <<p + 1, 1>>
      <4>1. i \in 1 .. n + k /\ j \in 1 .. n + k + 1 /\ p \in 1 .. c
        BY <3>1
      <4> QED BY <2>2, <3>2, <3>3, <4>1
    <3>4. \A i \in 1 .. Len(wire') : \E p \in 1 .. Count', x \in Nat \ {0} :
            wire'[i] = <<p, x>> /\ x <= HeadSize + bodies'[p]
      BY <2>1, <3>1, <3>2
    <3> QED BY <3>3, <3>4
  <2> QED BY <2>3 DEF InOrder, Size
<1>20. Here' = Here /\ Got' = Got /\ Taken' /\ Mode'
  BY <1>2 DEF Here, Got, Taken, Mode, Size, Count
<1>21. Joined'
  <2>1. Wanted' = Wanted
    BY <1>2, <1>20 DEF Wanted, Size
  <2>2. 1 \in 1 .. n + 1
    BY <1>3
  <2> QED BY <1>2, <1>13, <2>1, <2>2 DEF Joined
<1> QED BY <1>2, <1>9, <1>10, <1>11, <1>19, <1>20, <1>21

-----------------------------------------------------------------------------
(* The receiver. *)

\* What RecvPack has read leads to the byte it reads next.
LEMMA Awaited ==
  ASSUME WireInv, result = "ok", in.step # "idle", ~Enough(Len(in.buf)), wire # <<>>
  PROVE  /\ Here \in 1 .. Count /\ Got \in Nat /\ Got < Size(Here)
         /\ wire[1] = <<Here, Got + 1>>
         /\ Expected \in Nat /\ Len(in.buf) \in Nat /\ Expected > Len(in.buf)
         /\ Got + (Expected - Len(in.buf)) <= Size(Here)
<1> USE DEF WireInv
<1>1. HeadSize \in Nat \ {0} /\ Count \in Nat /\ Len(in.buf) \in Nat /\ Len(arrived) \in Nat /\ Here \in Nat \ {0}
  BY Sizes DEF Here
<1>2. Len(wire) \in Nat \ {0} /\ Stream(1) = wire[1]
  <2>1. wire \in Seq(Byte) /\ Len(wire) \in Nat
    BY Sizes DEF WireTypes
  <2> HIDE DEF Byte
  <2>2. Len(wire) # 0
    BY <2>1, EmptySeq
  <2> QED BY <2>1, <2>2 DEF Stream
<1>3. PICK p \in 1 .. Count, x \in Nat \ {0} : wire[1] = <<p, x>> /\ x <= Size(p)
  BY <1>2 DEF InOrder
<1>4. wire[1] = Wanted /\ Taken
  BY <1>2 DEF Joined
<1>5. part \in {"head", "body"}
  BY DEF WireTypes, WireTypeOK
<1>6. CASE part = "head"
  <2>1. Expected = HeadSize /\ Got = Len(in.buf) /\ Len(in.buf) < HeadSize
    BY <1>1, <1>4, <1>6 DEF Expected, Got, Taken, Enough
  <2>2. Got > 0 => Here \in 1 .. Count /\ Got < Size(Here)
    BY <1>1, <1>4, <2>1, Sizes DEF Taken
  <2>3. wire[1] = <<Here, Got + 1>>
    BY <1>1, <1>4, <2>1, <2>2, Sizes DEF Wanted
  <2>4. Here = p
    BY <1>3, <2>3
  <2> QED BY <1>1, <1>3, <2>1, <2>3, <2>4, Sizes
<1>7. CASE part = "body"
  <2>1. Got = HeadSize + Len(in.buf) /\ Got > 0 /\ head[1] = <<Here, 1>>
    BY <1>1, <1>4, <1>7 DEF Got, Taken
  <2>2. Here \in 1 .. Count /\ Got <= Size(Here)
    BY <1>1, <1>4, <2>1 DEF Taken
  <2>3. Expected = bodies[Here] /\ bodies[Here] \in Nat
    BY <1>7, <2>1, <2>2, Sizes DEF Expected
  <2>4. Len(in.buf) < bodies[Here] /\ Size(Here) = HeadSize + bodies[Here]
    BY <1>1, <2>1, <2>2, <2>3 DEF Enough, Size
  <2>5. wire[1] = <<Here, Got + 1>>
    BY <1>1, <1>4, <2>1, <2>3, <2>4 DEF Wanted
  <2> QED BY <1>1, <2>1, <2>2, <2>3, <2>4, <2>5
<1> QED BY <1>5, <1>6, <1>7

\* Some bytes of what is expected.
LEMMA ReadStep ==
  ASSUME WireInv, Read
  PROVE  WireInv'
<1> USE DEF WireInv
<1>0. PICK n \in Nat, e \in Nat, g \in Nat, h \in Nat, b \in Nat :
        n = Len(wire) /\ e = Expected /\ g = Got /\ h = Here /\ b = Len(in.buf)
  <2>1. in.step # "idle" /\ ~Enough(Len(in.buf)) /\ wire # <<>> /\ result = "ok"
    BY DEF Read, Filling
  <2>2. Len(wire) \in Nat /\ Expected \in Nat /\ Got \in Nat /\ Here \in 1 .. Count /\ Len(in.buf) \in Nat
    BY <2>1, Awaited, Sizes
  <2>3. Here \in Nat
    BY <2>2, Sizes
  <2> QED BY <2>2, <2>3
<1>1. PICK k \in 1 .. Least(e - b, n) :
        /\ in' = [in EXCEPT !.buf = @ \o SubSeq(wire, 1, k), !.repeat = 0]
        /\ wire' = SubSeq(wire, k + 1, n)
  BY <1>0 DEF Read
<1>2. /\ in.step = "read" /\ ~Enough(Len(in.buf)) /\ wire # <<>> /\ result = "ok"
      /\ UNCHANGED <<yields, shut, bodies, out, part, head, lasterr, rcvtimeo, nonblock, arrived, result>>
  BY DEF Read, Filling, sendVars
<1>3. /\ h \in 1 .. Count /\ g < Size(h) /\ wire[1] = <<h, g + 1>> /\ e > b /\ g + (e - b) <= Size(h)
      /\ Size(h) \in Nat
  BY <1>0, <1>2, Awaited, Sizes
<1>4. k \in Nat \ {0} /\ k <= n /\ g + k <= Size(h) /\ b + k <= e
  <2>1. k \in Nat \ {0} /\ k <= n /\ k <= e - b
    BY <1>3 DEF Least
  <2>2. g + k <= g + (e - b) /\ b + k <= e
    BY <2>1
  <2> QED BY <1>3, <2>1, <2>2
<1>5. wire \in Seq(Byte) /\ in.buf \in Seq(Byte) /\ n = Len(wire)
  BY <1>0 DEF WireTypes
<1>6. /\ \A i \in 1 .. n : \E p \in 1 .. Count, x \in Nat \ {0} : wire[i] = <<p, x>> /\ x <= Size(p)
      /\ \A i \in 1 .. n, j \in 1 .. n + 1, p \in 1 .. Count, x \in Nat :
           i < j /\ wire[i] = <<p, x>> =>
             /\ x + (j - i) <= Size(p) => Stream(j) = <<p, x + (j - i)>>
             /\ x + (j - i) = Size(p) + 1 => Stream(j) = <<p + 1, 1>>
  BY <1>0, <1>2 DEF InOrder
<1>7. \A m \in 1 .. k : wire[m] = <<h, g + m>>
  <2> SUFFICES ASSUME NEW m \in 1 .. k PROVE wire[m] = <<h, g + m>>
    OBVIOUS
  <2>1. CASE m = 1
    BY <1>3, <2>1
  <2>2. CASE m # 1
    <3>1. 1 \in 1 .. n /\ m \in 1 .. n + 1 /\ 1 < m /\ g + 1 \in Nat
      BY <1>4, <2>2
    <3>2. g + 1 + (m - 1) <= Size(h) /\ g + 1 + (m - 1) = g + m
      BY <1>3, <1>4
    <3>3. Stream(m) = <<h, g + 1 + (m - 1)>>
      BY <1>3, <1>6, <3>1, <3>2
    <3>4. Stream(m) = wire[m]
      BY <1>4, <1>5 DEF Stream
    <3> QED BY <3>2, <3>3, <3>4
  <2> QED BY <2>1, <2>2
<1> DEFINE new == SubSeq(wire, 1, k)
           rest == SubSeq(wire, k + 1, n)
<1>8. new \in Seq(Byte) /\ Len(new) = k /\ \A m \in 1 .. k : new[m] = <<h, g + m>>
  <2> HIDE DEF Byte
  <2>1. 1 \in Int /\ k \in Int /\ \A i \in 1 .. k : wire[i] \in Byte
    BY <1>4, <1>5, ElementOfSeq
  <2>2. /\ new \in Seq(Byte) /\ Len(new) = IF 1 <= k THEN k - 1 + 1 ELSE 0
        /\ \A i \in 1 .. k - 1 + 1 : new[i] = wire[1 + i - 1]
    BY <2>1, SubSeqProperties
  <2>3. k - 1 + 1 = k /\ 1 <= k /\ \A i \in 1 .. k : 1 + i - 1 = i
    BY <1>4
  <2> QED BY <1>7, <2>2, <2>3
<1>9. rest \in Seq(Byte) /\ Len(rest) = n - k /\ \A i \in 1 .. n - k : rest[i] = wire[k + i]
  <2> HIDE DEF Byte
  <2>1. k + 1 \in Int /\ n \in Int /\ \A i \in k + 1 .. n : wire[i] \in Byte
    BY <1>4, <1>5, ElementOfSeq
  <2>2. /\ rest \in Seq(Byte) /\ Len(rest) = IF k + 1 <= n THEN n - (k + 1) + 1 ELSE 0
        /\ \A i \in 1 .. n - (k + 1) + 1 : rest[i] = wire[k + 1 + i - 1]
    BY <2>1, SubSeqProperties
  <2>3. n - (k + 1) + 1 = n - k /\ (~(k + 1 <= n) => n - k = 0) /\ \A i \in 1 .. n - k : k + 1 + i - 1 = k + i
    BY <1>4
  <2> QED BY <2>2, <2>3
<1>10. /\ wire' \in Seq(Byte) /\ Len(wire') = n - k /\ \A i \in 1 .. n - k : wire'[i] = wire[k + i]
  BY <1>1, <1>9
<1>11. /\ in'.buf = in.buf \o new /\ in'.step = "read" /\ in'.fflag = in.fflag /\ in'.repeat = 0
       /\ in'.buf \in Seq(Byte) /\ Len(in'.buf) = b + k
       /\ \A m \in 1 .. b + k : in'.buf[m] = IF m <= b THEN in.buf[m] ELSE new[m - b]
  <2>1. in \in [step : {"idle", "read", "yield"}, buf : Seq(Byte), repeat : 0 .. 4, fflag : BOOLEAN]
    BY DEF WireTypes
  <2> HIDE DEF Byte, new
  <2>2. in' = [in EXCEPT !.buf = in.buf \o new, !.repeat = 0]
    BY <1>1, <2>1 DEF new
  <2>3. in'.buf = in.buf \o new /\ in'.step = "read" /\ in'.fflag = in.fflag /\ in'.repeat = 0
    BY <1>2, <2>1, <2>2
  <2>4. /\ in.buf \o new \in Seq(Byte) /\ Len(in.buf \o new) = b + k
        /\ \A m \in 1 .. b + k : (in.buf \o new)[m] = IF m <= b THEN in.buf[m] ELSE new[m - b]
    <3>1. /\ in.buf \o new \in Seq(Byte) /\ Len(in.buf \o new) = Len(in.buf) + Len(new)
          /\ \A m \in 1 .. Len(in.buf) + Len(new) :
               (in.buf \o new)[m] = IF m <= Len(in.buf) THEN in.buf[m] ELSE new[m - Len(in.buf)]
      BY <1>5, <1>8, ConcatProperties
    <3>2. Len(in.buf) = b /\ Len(new) = k
      BY <1>0, <1>8
    <3> QED BY <3>1, <3>2
  <2> QED BY <2>3, <2>4
<1>12. in' \in [step : {"idle", "read", "yield"}, buf : Seq(Byte), repeat : 0 .. 4, fflag : BOOLEAN]
  <2>1. in \in [step : {"idle", "read", "yield"}, buf : Seq(Byte), repeat : 0 .. 4, fflag : BOOLEAN]
    BY DEF WireTypes
  <2> HIDE DEF Byte, new
  <2>2. in' = [in EXCEPT !.buf = in.buf \o new, !.repeat = 0] /\ in.buf \o new \in Seq(Byte)
    BY <1>1, <1>11, <2>1 DEF new
  <2>3. 0 \in 0 .. 4
    OBVIOUS
  <2> QED BY <2>1, <2>2, <2>3
<1> HIDE DEF new, rest
<1>13. WireTypes'
  <2>1. Len(wire') <= Room
    <3>1. Len(wire) <= Room
      BY DEF WireTypes, WireTypeOK
    <3> QED BY <1>0, <1>4, <1>10, <3>1, WireAssumption
  <2>2. in'.repeat \in 0 .. 4 /\ in'.step \in {"idle", "read", "yield"}
    BY <1>11
  <2> HIDE DEF Byte
  <2> QED BY <1>2, <1>10, <1>12, <2>1, <2>2 DEF WireTypes, WireTypeOK
<1>14. Sending' /\ WholePackets' /\ Mode'
  BY <1>2, <1>11, PacketsStand DEF Sending, Mode, Size, Count
<1>15. Here' = h /\ Count' = Count /\ Got' = g + k
  <2>1. Got' = Got + k
    BY <1>0, <1>2, <1>11, WireAssumption DEF Got
  <2> QED BY <1>0, <1>2, <2>1 DEF Here, Count
<1>16. \A p : HeadSize + bodies'[p] = Size(p)
  BY <1>2 DEF Size
<1>17. Taken'
  <2>1. part' = "head" => b + k <= HeadSize
    BY <1>0, <1>2, <1>4 DEF Expected
  <2>2. /\ part = "head" => g = b /\ \A m \in 1 .. b : in.buf[m] = <<h, m>>
        /\ part = "body" => /\ Len(head) = HeadSize /\ \A m \in 1 .. HeadSize : head[m] = <<h, m>>
                            /\ g = HeadSize + b /\ \A m \in 1 .. b : in.buf[m] = <<h, HeadSize + m>>
    BY <1>0, <1>2 DEF Taken, Got
  <2>3. ASSUME part = "head", NEW m \in 1 .. b + k PROVE in'.buf[m] = <<h, m>>
    <3>1. CASE m <= b
      BY <1>11, <2>2, <2>3, <3>1
    <3>2. CASE m > b
      <4>1. m - b \in 1 .. k /\ g + (m - b) = m
        BY <1>4, <2>2, <2>3, <3>2
      <4> QED BY <1>8, <1>11, <3>2, <4>1
    <3> QED BY <3>1, <3>2
  <2>4. ASSUME part = "body", NEW m \in 1 .. b + k PROVE in'.buf[m] = <<h, HeadSize + m>>
    <3>1. CASE m <= b
      <4>1. m \in 1 .. b
        BY <3>1
      <4> QED BY <1>11, <2>2, <2>4, <3>1, <4>1
    <3>2. CASE m > b
      <4>1. m - b \in 1 .. k /\ g + (m - b) = HeadSize + m
        <5>1. HeadSize \in Nat /\ g = HeadSize + b
          BY <2>2, <2>4, WireAssumption
        <5>2. m \in Nat /\ m <= b + k /\ b \in Nat /\ k \in Nat
          <6>1. b \in Nat
            BY <1>0
          <6>2. k \in Nat
            BY <1>4
          <6> QED BY <2>4, <6>1, <6>2
        <5> QED BY <3>2, <5>1, <5>2
      <4>2. in'.buf[m] = new[m - b]
        BY <1>11, <3>2
      <4>3. new[m - b] = <<h, g + (m - b)>>
        BY <1>8, <4>1
      <4> QED BY <4>1, <4>2, <4>3
    <3> QED BY <3>1, <3>2
  <2>5. Here' <= Count' /\ Got' <= HeadSize + bodies'[Here']
    BY <1>3, <1>4, <1>15, <1>16
  <2> QED BY <1>2, <1>11, <1>15, <2>1, <2>2, <2>3, <2>4, <2>5 DEF Taken, Size
\* The stream without its first k bytes.
<1>18. Due' = Due
  BY <1>2 DEF Due, Size, Count
<1>19. ASSUME NEW j \in 1 .. n - k + 1 PROVE Stream(j)' = Stream(k + j)
  <2>1. CASE j = n - k + 1
    <3>1. ~(j <= Len(wire')) /\ ~(k + j <= Len(wire))
      BY <1>0, <1>4, <1>10, <2>1
    <3> QED BY <1>18, <3>1 DEF Stream
  <2>2. CASE j # n - k + 1
    <3>1. j <= Len(wire') /\ k + j <= Len(wire) /\ j \in 1 .. n - k
      BY <1>0, <1>4, <1>10, <2>2
    <3> QED BY <1>10, <3>1 DEF Stream
  <2> QED BY <2>1, <2>2
<1>20. InOrder'
  <2>1. \A i \in 1 .. n - k : \E p \in 1 .. Count, x \in Nat \ {0} : wire'[i] = <<p, x>> /\ x <= Size(p)
    <3> SUFFICES ASSUME NEW i \in 1 .. n - k
                 PROVE  \E p \in 1 .. Count, x \in Nat \ {0} : wire'[i] = <<p, x>> /\ x <= Size(p)
      OBVIOUS
    <3>1. k + i \in 1 .. n /\ wire'[i] = wire[k + i]
      BY <1>4, <1>10
    <3> QED BY <1>6, <3>1
  <2>2. ASSUME NEW i \in 1 .. n - k, NEW j \in 1 .. n - k + 1, NEW p \in 1 .. Count, NEW x \in Nat,
               i < j, wire'[i] = <<p, x>>
        PROVE  /\ x + (j - i) <= Size(p) => Stream(j)' = <<p, x + (j - i)>>
               /\ x + (j - i) = Size(p) + 1 => Stream(j)' = <<p + 1, 1>>
    <3>1. k + i \in 1 .. n /\ k + j \in 1 .. n + 1 /\ k + i < k + j /\ (k + j) - (k + i) = j - i
      BY <1>4, <2>2
    <3>2. wire[k + i] = <<p, x>> /\ Stream(j)' = Stream(k + j)
      BY <1>10, <1>19, <2>2
    <3>3. /\ x + ((k + j) - (k + i)) <= Size(p) => Stream(k + j) = <<p, x + ((k + j) - (k + i))>>
          /\ x + ((k + j) - (k + i)) = Size(p) + 1 => Stream(k + j) = <<p + 1, 1>>
      BY <1>6, <3>1, <3>2
    <3> QED BY <3>1, <3>2, <3>3
  <2>3. ASSUME NEW i \in 1 .. Len(wire'), NEW j \in 1 .. Len(wire') + 1, NEW p \in 1 .. Count', NEW x \in Nat,
               i < j, wire'[i] = <<p, x>>
        PROVE  /\ x + (j - i) <= HeadSize + bodies'[p] => Stream(j)' = <<p, x + (j - i)>>
               /\ x + (j - i) = HeadSize + bodies'[p] + 1 => Stream(j)' = <<p + 1, 1>>
    <3>1. i \in 1 .. n - k /\ j \in 1 .. n - k + 1 /\ p \in 1 .. Count
      BY <1>10, <1>15
    <3> QED BY <1>16, <2>2, <2>3, <3>1
  <2>4. \A i \in 1 .. Len(wire') : \E p \in 1 .. Count', x \in Nat \ {0} :
          wire'[i] = <<p, x>> /\ x <= HeadSize + bodies'[p]
    <3>1. Len(wire') = n - k /\ Count' = Count
      BY <1>10, <1>15
    <3> SUFFICES ASSUME NEW i \in 1 .. n - k
                 PROVE  \E p \in 1 .. Count, x \in Nat \ {0} : wire'[i] = <<p, x>> /\ x <= HeadSize + bodies'[p]
      BY <3>1
    <3>2. PICK p \in 1 .. Count, x \in Nat \ {0} : wire'[i] = <<p, x>> /\ x <= Size(p)
      BY <2>1
    <3> QED BY <1>16, <3>2
  <2> QED BY <2>3, <2>4 DEF InOrder, Size
<1>21. Joined'
  <2>1. Stream(1)' = Stream(k + 1)
    BY <1>4, <1>19
  <2>2. 1 \in 1 .. n /\ k + 1 \in 1 .. n + 1 /\ 1 < k + 1 /\ g + 1 \in Nat /\ g + 1 + (k + 1 - 1) = g + k + 1
    BY <1>4
  <2>3. /\ g + k + 1 <= Size(h) => Stream(k + 1) = <<h, g + k + 1>>
        /\ g + k + 1 = Size(h) + 1 => Stream(k + 1) = <<h + 1, 1>>
    <3>1. /\ g + 1 + (k + 1 - 1) <= Size(h) => Stream(k + 1) = <<h, g + 1 + (k + 1 - 1)>>
          /\ g + 1 + (k + 1 - 1) = Size(h) + 1 => Stream(k + 1) = <<h + 1, 1>>
      <4> DEFINE j == k + 1
                 x == g + 1
      <4>1. 1 \in 1 .. n /\ j \in 1 .. n + 1 /\ 1 < j /\ x \in Nat /\ wire[1] = <<h, x>> /\ h \in 1 .. Count
        BY <1>3, <2>2
      <4> HIDE DEF j, x
      <4>2. /\ x + (j - 1) <= Size(h) => Stream(j) = <<h, x + (j - 1)>>
            /\ x + (j - 1) = Size(h) + 1 => Stream(j) = <<h + 1, 1>>
        BY <1>6, <4>1
      <4> QED BY <4>2 DEF j, x
    <3> QED BY <2>2, <3>1
  <2>4. Wanted' = IF g + k = Size(h) THEN <<h + 1, 1>> ELSE <<h, g + k + 1>>
    BY <1>4, <1>15, <1>16 DEF Wanted, Size
  <2> QED BY <1>3, <1>4, <2>1, <2>3, <2>4 DEF Joined
<1> QED BY <1>2, <1>13, <1>14, <1>17, <1>20, <1>21

LEMMA LimitedTypes ==
  ASSUME WireTypes, NEW p \in {"head", "body"}
  PROVE  Limited(p) \in {0, HeadTime, 5}
BY DEF WireTypes, WireTypeOK, Limited, Seconds

\* The receiver's steps without a byte: it goes on with what it has, or fails.
LEMMA QuietStep ==
  ASSUME WireInv, Resumed \/ YieldExpires \/ YieldRefused \/ ReadEnd \/ ReadReset \/ ReadAgain
  PROVE  WireInv'
<1> USE DEF WireInv
<1>1. /\ in.step # "idle" /\ result = "ok"
      /\ UNCHANGED <<yields, shut, bodies, out, part, head, arrived>>
  <2>1. in.step # "idle"
    BY DEF Resumed, YieldExpires, YieldRefused, ReadEnd, ReadReset, ReadAgain, Filling
  <2>2. UNCHANGED <<yields, shut, bodies, out, part, head, arrived>>
    BY DEF Resumed, YieldExpires, YieldRefused, ReadEnd, ReadReset, ReadAgain, NothingRead, Fail, sendVars
  <2> QED BY <2>1, <2>2
<1>2. /\ in \in [step : {"idle", "read", "yield"}, buf : Seq(Byte), repeat : 0 .. 4, fflag : BOOLEAN]
      /\ part \in {"head", "body"} /\ lasterr \in {"none", "again", "other"} /\ nonblock \in BOOLEAN
      /\ rcvtimeo \in {0, HeadTime, 5} /\ Limited(part) \in {0, HeadTime, 5}
  BY LimitedTypes DEF WireTypes, WireTypeOK
<1> DEFINE Ends ==
             /\ result' \in {"timeout", "short"} /\ in' = [in EXCEPT !.step = "idle"]
             /\ wire' = wire \/ wire' = <<>>
             /\ nonblock' \in BOOLEAN
           GoesOn ==
             /\ result' = "ok" /\ wire' = wire
             /\ \E s \in {"read", "yield"}, r \in 0 .. 4, f \in BOOLEAN :
                  /\ in' = [in EXCEPT !.step = s, !.repeat = r, !.fflag = f]
                  /\ nonblock' = FALSE \/ (nonblock' = nonblock /\ f = in.fflag)
<1>3. ASSUME NEW e, NothingRead(e), Filling
      PROVE  /\ \/ Fail("timeout") \/ Fail("short")
                \/ /\ result' = result
                   /\ \E r \in 0 .. 4 : in' = [in EXCEPT !.step = "yield", !.repeat = r, !.fflag = in.fflag]
                   /\ nonblock' = nonblock
             /\ nonblock' \in BOOLEAN
             /\ e = "other" => Fail("short")
  <2>1. CASE ~in.fflag /\ e = "again" /\ Fail("timeout") /\ UNCHANGED nonblock
    BY <1>2, <2>1
  <2>2. CASE e = "other" /\ Fail("short") /\ nonblock' = (nonblock /\ ~in.fflag)
    BY <2>2
  <2>3. CASE /\ e # "other" /\ Fail(IF e = "again" THEN "timeout" ELSE "short") /\ UNCHANGED nonblock
    BY <1>2, <2>3
  <2>4. CASE /\ e # "other" /\ in' = [in EXCEPT !.repeat = Least(@ + 1, 4), !.step = "yield"]
             /\ UNCHANGED <<nonblock, result>>
    <3> DEFINE r == Least(in.repeat + 1, 4)
    <3>1. in.repeat \in 0 .. 4
      BY <1>2
    <3>2. r \in 0 .. 4
      BY <3>1 DEF Least
    <3> HIDE DEF r
    <3>3. in' = [in EXCEPT !.repeat = r, !.step = "yield"]
      BY <1>2, <2>4 DEF r
    <3> HIDE DEF Byte
    <3>4. in' = [in EXCEPT !.step = "yield", !.repeat = r, !.fflag = in.fflag]
      BY <1>2, <3>3
    <3> QED BY <1>2, <2>4, <3>2, <3>4
  <2> QED BY <1>3, <2>1, <2>2, <2>3, <2>4 DEF NothingRead
<1>4. Ends \/ GoesOn
  <2>1. CASE Resumed
    <3>1. in' = [in EXCEPT !.step = "read"] /\ UNCHANGED <<wire, nonblock, result>>
      BY <2>1 DEF Resumed
    <3> HIDE DEF Byte
    <3>2. in' = [in EXCEPT !.step = "read", !.repeat = in.repeat, !.fflag = in.fflag]
      BY <1>2, <3>1
    <3>3. in.repeat \in 0 .. 4 /\ in.fflag \in BOOLEAN
      BY <1>2
    <3> QED BY <1>1, <3>1, <3>2, <3>3
  <2>2. CASE YieldRefused
    <3>1. in' = [in EXCEPT !.step = "read", !.fflag = FALSE] /\ nonblock' = FALSE /\ UNCHANGED <<wire, result>>
      BY <2>2 DEF YieldRefused
    <3> HIDE DEF Byte
    <3>2. in' = [in EXCEPT !.step = "read", !.repeat = in.repeat, !.fflag = FALSE]
      BY <1>2, <3>1
    <3>3. in.repeat \in 0 .. 4
      BY <1>2
    <3> QED BY <1>1, <3>1, <3>2, <3>3
  <2>3. CASE YieldExpires
    BY <2>3 DEF YieldExpires, Fail
  <2>4. CASE ReadReset
    <3>1. Filling /\ NothingRead("other") /\ wire' = <<>>
      BY <2>4 DEF ReadReset
    <3> QED BY <1>3, <3>1 DEF Fail
  <2>5. CASE ReadEnd \/ ReadAgain
    <3>1. PICK e : Filling /\ NothingRead(e) /\ wire' = wire
      BY <2>5 DEF ReadEnd, ReadAgain
    <3>2. CASE Fail("timeout") \/ Fail("short")
      BY <1>3, <3>1, <3>2 DEF Fail
    <3>3. CASE /\ result' = result
               /\ \E r \in 0 .. 4 : in' = [in EXCEPT !.step = "yield", !.repeat = r, !.fflag = in.fflag]
               /\ nonblock' = nonblock
      BY <1>1, <1>2, <3>1, <3>3
    <3> QED BY <1>3, <3>1, <3>2, <3>3
  <2> QED BY <2>1, <2>2, <2>3, <2>4, <2>5
<1> HIDE DEF Ends, GoesOn
<1>5. lasterr' \in {"none", "again", "other"} /\ rcvtimeo' \in {0, HeadTime, 5}
  BY <1>2, WireAssumption DEF Resumed, YieldExpires, YieldRefused, ReadEnd, ReadReset, ReadAgain
<1>6. wire' \in Seq(Byte) /\ Len(wire') <= Room
  <2>1. wire \in Seq(Byte) /\ Len(wire) <= Room
    BY DEF WireTypes, WireTypeOK
  <2> HIDE DEF Byte
  <2>2. <<>> \in Seq(Byte) /\ Len(<<>>) <= Room
    BY WireAssumption, EmptySeq
  <2> QED BY <1>4, <2>1, <2>2 DEF Ends, GoesOn
<1>7. /\ in' \in [step : {"idle", "read", "yield"}, buf : Seq(Byte), repeat : 0 .. 4, fflag : BOOLEAN]
      /\ in'.buf = in.buf /\ nonblock' \in BOOLEAN /\ result' \in {"ok", "timeout", "short"}
      /\ Ends => in'.step = "idle" /\ result' # "ok"
      /\ GoesOn => result' = "ok" /\ wire' = wire /\ in'.step # "idle" /\ (nonblock' => nonblock /\ in'.fflag = in.fflag)
  <2> HIDE DEF Byte
  <2>1. CASE Ends
    <3>1. in' = [in EXCEPT !.step = "idle"] /\ result' \in {"timeout", "short"} /\ nonblock' \in BOOLEAN
      BY <2>1 DEF Ends
    <3>2. ~GoesOn
      BY <3>1 DEF GoesOn
    <3> QED BY <1>2, <3>1, <3>2
  <2>2. CASE GoesOn
    <3>1. PICK s \in {"read", "yield"}, r \in 0 .. 4, f \in BOOLEAN :
            /\ in' = [in EXCEPT !.step = s, !.repeat = r, !.fflag = f]
            /\ nonblock' = FALSE \/ (nonblock' = nonblock /\ f = in.fflag)
      BY <2>2 DEF GoesOn
    <3>2. result' = "ok" /\ wire' = wire
      BY <2>2 DEF GoesOn
    <3>3. ~Ends
      BY <3>2 DEF Ends
    <3>4. /\ in' \in [step : {"idle", "read", "yield"}, buf : Seq(Byte), repeat : 0 .. 4, fflag : BOOLEAN]
          /\ in'.buf = in.buf /\ in'.step = s /\ in'.fflag = f
      BY <1>2, <3>1
    <3>5. nonblock' \in BOOLEAN
      BY <1>2, <3>1
    <3>6. nonblock' => nonblock /\ in'.fflag = in.fflag
      BY <3>1, <3>4, Zenon
    <3> QED BY <3>2, <3>3, <3>4, <3>5, <3>6
  <2> QED BY <1>4, <2>1, <2>2
<1>8. WireTypes'
  <2>1. in'.step \in {"idle", "read", "yield"} /\ in'.repeat \in 0 .. 4
    BY <1>7
  <2> HIDE DEF Byte
  <2> QED BY <1>1, <1>5, <1>6, <1>7, <2>1 DEF WireTypes, WireTypeOK
<1>9. Sending' /\ WholePackets'
  BY <1>1, PacketsStand DEF Sending, Size, Count
<1>10. CASE Ends
  BY <1>7, <1>8, <1>9, <1>10
<1>11. CASE GoesOn
  <2>1. Got' = Got /\ Here' = Here /\ result' = "ok" /\ wire' = wire
    BY <1>1, <1>7, <1>11 DEF Got, Here
  <2>2. Taken'
    BY <1>1, <1>7, <1>11, <2>1 DEF Taken, Size, Count
  <2>3. Mode'
    BY <1>1, <1>7, <1>11 DEF Mode
  <2>4. InOrder' /\ Joined'
    BY <1>1, <2>1, StreamStands, JoinStands
  <2> QED BY <1>8, <1>9, <2>1, <2>2, <2>3, <2>4
<1> QED BY <1>4, <1>10, <1>11

\* What a call for a head or a body leaves.
LEMMA StartFacts ==
  ASSUME WireTypes, NEW p \in {"head", "body"}, Start(p)
  PROVE  /\ part' = p /\ in'.step = "read" /\ in'.buf = <<>> /\ Len(in'.buf) = 0 /\ in'.fflag = yields
         /\ nonblock' = yields /\ nonblock' \in BOOLEAN /\ rcvtimeo' \in {0, HeadTime, 5}
         /\ in' \in [step : {"idle", "read", "yield"}, buf : Seq(Byte), repeat : 0 .. 4, fflag : BOOLEAN]
<1>1. yields \in BOOLEAN /\ rcvtimeo \in {0, HeadTime, 5} /\ Limited(p) \in {0, HeadTime, 5}
  BY LimitedTypes DEF WireTypes, WireTypeOK
<1>2. /\ part' = p /\ in' = [step |-> "read", buf |-> <<>>, repeat |-> 0, fflag |-> yields]
      /\ nonblock' = yields /\ rcvtimeo' = IF yields THEN rcvtimeo ELSE Limited(p)
  BY DEF Start
<1> HIDE DEF Byte
<1>3. <<>> \in Seq(Byte) /\ Len(<<>>) = 0
  BY EmptySeq
<1> QED BY <1>1, <1>2, <1>3

LEMMA RecvStep ==
  ASSUME WireInv, Recv
  PROVE  WireInv'
<1> USE DEF WireInv
<1>1. /\ in.step = "idle" /\ result = "ok" /\ Start("head") /\ lasterr' \in {"none", "again", "other"}
      /\ UNCHANGED <<yields, wire, shut, bodies, out, head, arrived, result>>
  BY WireAssumption DEF Recv, sendVars
<1>2. /\ part' = "head" /\ in'.step = "read" /\ in'.buf = <<>> /\ Len(in'.buf) = 0 /\ in'.fflag = yields
      /\ nonblock' = yields /\ nonblock' \in BOOLEAN /\ rcvtimeo' \in {0, HeadTime, 5}
      /\ in' \in [step : {"idle", "read", "yield"}, buf : Seq(Byte), repeat : 0 .. 4, fflag : BOOLEAN]
  BY <1>1, StartFacts
<1>3. WireTypes'
  <2>1. in'.step \in {"idle", "read", "yield"} /\ in'.repeat \in 0 .. 4
    BY <1>2
  <2> HIDE DEF Byte
  <2> QED BY <1>1, <1>2, <2>1 DEF WireTypes, WireTypeOK
<1>4. Sending' /\ WholePackets'
  BY <1>1, PacketsStand DEF Sending, Size, Count
<1>5. Got = 0 /\ Got' = 0 /\ Here' = Here
  BY <1>1, <1>2 DEF Got, Here
<1>6. Taken'
  BY <1>2, <1>5, WireAssumption DEF Taken
<1>7. Mode'
  BY <1>2 DEF Mode
<1>8. InOrder' /\ Joined'
  BY <1>1, <1>5, StreamStands, JoinStands
<1> QED BY <1>1, <1>3, <1>4, <1>6, <1>7, <1>8

\* What a head, or a packet, that is complete looks like.
LEMMA FilledFacts ==
  ASSUME WireInv, Filled
  PROVE  /\ result = "ok" /\ Here \in 1 .. Count /\ Got <= Size(Here) /\ HeadSize \in Nat \ {0} /\ bodies[Here] \in Nat
         /\ part = "head" => /\ Len(in.buf) = HeadSize /\ \A m \in 1 .. HeadSize : in.buf[m] = <<Here, m>>
                             /\ T_LEN(in.buf) = bodies[Here] /\ Got = HeadSize
         /\ part = "body" => /\ Len(in.buf) = bodies[Here] /\ Got = HeadSize + bodies[Here]
<1> USE DEF WireInv, Filled
<1>1. /\ in.step = "read" /\ result = "ok" /\ Len(in.buf) = Expected /\ part \in {"head", "body"}
  BY DEF Enough, WireTypes, WireTypeOK
<1>2. HeadSize \in Nat \ {0} /\ Count \in Nat /\ Len(in.buf) \in Nat /\ Here \in Nat \ {0} /\ Taken
  BY <1>1, Sizes DEF Here
<1>3. CASE part = "head"
  <2>1. Len(in.buf) = HeadSize /\ Got = HeadSize
    BY <1>1, <1>3 DEF Expected, Got
  <2>2. Here \in 1 .. Count /\ Got <= Size(Here)
    BY <1>2, <2>1 DEF Taken
  <2>3. \A m \in 1 .. HeadSize : in.buf[m] = <<Here, m>>
    BY <1>1, <1>2, <1>3, <2>1 DEF Taken
  <2>4. in.buf[1] = <<Here, 1>>
    BY <1>2, <2>3
  <2>5. T_LEN(in.buf) = bodies[Here]
    BY <2>4 DEF T_LEN
  <2> QED BY <1>1, <1>2, <1>3, <2>1, <2>2, <2>3, <2>5, Sizes
<1>4. CASE part = "body"
  <2>1. Got = HeadSize + Len(in.buf) /\ Got > 0 /\ head[1] = <<Here, 1>>
    BY <1>1, <1>2, <1>4 DEF Got, Taken
  <2>2. Here \in 1 .. Count /\ Got <= Size(Here)
    BY <1>2, <2>1 DEF Taken
  <2>3. Expected = bodies[Here]
    BY <1>4, <2>1 DEF Expected
  <2> QED BY <1>1, <1>2, <1>4, <2>1, <2>2, <2>3, Sizes
<1> QED BY <1>1, <1>3, <1>4

LEMMA HeadReadStep ==
  ASSUME WireInv, HeadRead
  PROVE  WireInv'
<1> USE DEF WireInv
<1>1. /\ Filled /\ part = "head" /\ in.step = "read" /\ Start("body") /\ head' = in.buf
      /\ UNCHANGED <<yields, wire, shut, bodies, out, lasterr, arrived, result>>
  BY DEF HeadRead, Filled, sendVars
<1>2. /\ part' = "body" /\ in'.step = "read" /\ in'.buf = <<>> /\ Len(in'.buf) = 0 /\ in'.fflag = yields
      /\ nonblock' = yields /\ nonblock' \in BOOLEAN /\ rcvtimeo' \in {0, HeadTime, 5}
      /\ in' \in [step : {"idle", "read", "yield"}, buf : Seq(Byte), repeat : 0 .. 4, fflag : BOOLEAN]
  BY <1>1, StartFacts
<1>3. /\ result = "ok" /\ Here \in 1 .. Count /\ Got <= Size(Here) /\ HeadSize \in Nat \ {0}
      /\ Len(in.buf) = HeadSize /\ (\A m \in 1 .. HeadSize : in.buf[m] = <<Here, m>>) /\ Got = HeadSize
  BY <1>1, FilledFacts
<1>4. WireTypes'
  <2>1. in'.step \in {"idle", "read", "yield"} /\ in'.repeat \in 0 .. 4
    BY <1>2
  <2>2. head' \in Seq(Byte)
    BY <1>1 DEF WireTypes
  <2> HIDE DEF Byte
  <2> QED BY <1>1, <1>2, <2>1, <2>2 DEF WireTypes, WireTypeOK
<1>5. Sending' /\ WholePackets'
  BY <1>1, PacketsStand DEF Sending, Size, Count
<1>6. Got' = HeadSize /\ Here' = Here /\ Count' = Count /\ Size(Here)' = Size(Here)
  BY <1>1, <1>2, <1>3 DEF Got, Here, Size, Count
<1>7. Taken'
  BY <1>1, <1>2, <1>3, <1>6 DEF Taken
<1>8. Mode'
  BY <1>2 DEF Mode
<1>9. InOrder' /\ Joined'
  BY <1>1, <1>3, <1>6, StreamStands, JoinStands
<1> QED BY <1>1, <1>3, <1>4, <1>5, <1>7, <1>8, <1>9

LEMMA PacketReadStep ==
  ASSUME WireInv, PacketRead
  PROVE  WireInv'
<1> USE DEF WireInv
<1> DEFINE whole == IF part = "head" THEN in.buf ELSE head \o in.buf
<1>0. PICK a \in Nat, h \in Nat : a = Len(arrived) /\ h = Here
  BY Sizes DEF Here
<1>1. /\ Filled /\ in.step = "read" /\ in' = [in EXCEPT !.step = "idle"]
      /\ part = "body" \/ T_LEN(in.buf) = 0
      /\ arrived' = Append(arrived, whole) /\ nonblock' = (nonblock /\ ~in.fflag)
      /\ UNCHANGED <<yields, wire, shut, bodies, out, part, head, lasterr, rcvtimeo, result>>
  BY DEF PacketRead, Filled, sendVars
<1>2. /\ result = "ok" /\ h \in 1 .. Count /\ HeadSize \in Nat \ {0} /\ bodies[h] \in Nat /\ h = a + 1
      /\ part = "head" => /\ Len(in.buf) = HeadSize /\ \A m \in 1 .. HeadSize : in.buf[m] = <<h, m>>
                          /\ bodies[h] = 0 /\ Got = HeadSize
      /\ part = "body" => Len(in.buf) = bodies[h] /\ Got = HeadSize + bodies[h]
  BY <1>0, <1>1, FilledFacts DEF Here
<1>3. /\ in \in [step : {"idle", "read", "yield"}, buf : Seq(Byte), repeat : 0 .. 4, fflag : BOOLEAN]
      /\ head \in Seq(Byte) /\ in.buf \in Seq(Byte) /\ part \in {"head", "body"} /\ arrived \in Seq(Seq(Byte))
  BY DEF WireTypes, WireTypeOK
<1>4. /\ whole \in Seq(Byte) /\ Len(whole) = HeadSize + bodies[h]
      /\ \A m \in 1 .. HeadSize + bodies[h] : whole[m] = <<h, m>>
  <2>1. CASE part = "head"
    <3>1. whole = in.buf /\ HeadSize + bodies[h] = HeadSize
      BY <1>2, <2>1
    <3> QED BY <1>2, <1>3, <2>1, <3>1
  <2>2. CASE part = "body"
    <3>1. /\ Len(head) = HeadSize /\ \A m \in 1 .. HeadSize : head[m] = <<h, m>>
          /\ \A m \in 1 .. Len(in.buf) : in.buf[m] = <<h, HeadSize + m>>
      BY <1>0, <1>1, <1>2, <2>2 DEF Taken
    <3> HIDE DEF Byte
    <3>2. /\ head \o in.buf \in Seq(Byte) /\ Len(head \o in.buf) = Len(head) + Len(in.buf)
          /\ \A m \in 1 .. Len(head) + Len(in.buf) :
               (head \o in.buf)[m] = IF m <= Len(head) THEN head[m] ELSE in.buf[m - Len(head)]
      BY <1>3, ConcatProperties
    <3>3. ASSUME NEW m \in 1 .. HeadSize + bodies[h] PROVE (head \o in.buf)[m] = <<h, m>>
      <4>1. CASE m <= HeadSize
        <5>1. m \in 1 .. HeadSize
          BY <1>2, <4>1
        <5> QED BY <1>2, <2>2, <3>1, <3>2, <4>1, <5>1
      <4>2. CASE m > HeadSize
        <5>1. m - HeadSize \in 1 .. bodies[h] /\ HeadSize + (m - HeadSize) = m /\ ~(m <= HeadSize)
          BY <1>2, <4>2
        <5>2. (head \o in.buf)[m] = in.buf[m - HeadSize]
          BY <1>2, <2>2, <3>1, <3>2, <5>1
        <5> QED BY <1>2, <2>2, <3>1, <5>1, <5>2
      <4>3. m <= HeadSize \/ m > HeadSize
        BY <1>2
      <4> QED BY <4>1, <4>2, <4>3, Zenon
    <3>4. whole = head \o in.buf
      BY <2>2
    <3> QED BY <1>2, <2>2, <3>1, <3>2, <3>3, <3>4
  <2> QED BY <1>3, <2>1, <2>2
<1>5. whole = Packet(h)
  <2>1. Packet(h) = [m \in 1 .. HeadSize + bodies[h] |-> <<h, m>>]
    BY DEF Packet
  <2> HIDE DEF Byte, whole
  <2>2. whole \in [1 .. HeadSize + bodies[h] -> Byte]
    BY <1>4, LenProperties
  <2> QED BY <1>4, <2>1, <2>2
<1> HIDE DEF whole
<1>6. /\ arrived' \in Seq(Seq(Byte)) /\ Len(arrived') = a + 1 /\ arrived'[a + 1] = whole
      /\ \A p \in 1 .. a : arrived'[p] = arrived[p]
  <2> HIDE DEF Byte
  <2> QED BY <1>0, <1>1, <1>3, <1>4
<1>7. /\ in' \in [step : {"idle", "read", "yield"}, buf : Seq(Byte), repeat : 0 .. 4, fflag : BOOLEAN]
      /\ in'.step = "idle" /\ in'.fflag = in.fflag
  <2> HIDE DEF Byte
  <2> QED BY <1>1, <1>3
<1>8. WireTypes'
  <2>1. in'.step \in {"idle", "read", "yield"} /\ in'.repeat \in 0 .. 4 /\ nonblock' \in BOOLEAN
    BY <1>1, <1>7
  <2> HIDE DEF Byte
  <2> QED BY <1>1, <1>6, <1>7, <2>1 DEF WireTypes, WireTypeOK
<1>9. Sending'
  BY <1>1 DEF Sending, Size, Count
<1>10. WholePackets'
  <2>1. \A p : Packet(p)' = Packet(p)
    BY <1>1 DEF Packet
  <2>2. Len(arrived') <= Count'
    BY <1>1, <1>2, <1>6 DEF Count
  <2>3. ASSUME NEW p \in 1 .. a + 1 PROVE arrived'[p] = Packet(p)'
    <3>1. CASE p = a + 1
      BY <1>2, <1>5, <1>6, <2>1, <3>1
    <3>2. CASE p # a + 1
      <4>1. p \in 1 .. a
        BY <3>2
      <4> QED BY <1>0, <1>6, <2>1, <4>1 DEF WholePackets
    <3> QED BY <3>1, <3>2
  <2> QED BY <1>6, <2>2, <2>3 DEF WholePackets
<1>11. Got' = 0 /\ Here' = h + 1
  BY <1>2, <1>6, <1>7 DEF Got, Here
<1>12. Taken'
  BY <1>7, <1>11 DEF Taken
<1>13. Mode'
  BY <1>1, <1>2 DEF Mode
<1>14. Joined'
  <2>1. Got = Size(h) /\ Got > 0
    BY <1>2, <1>3 DEF Size
  <2>2. Wanted = <<h + 1, 1>>
    BY <1>0, <2>1 DEF Wanted
  <2>3. Wanted' = <<h + 1, 1>>
    BY <1>11 DEF Wanted
  <2>4. Stream(1)' = Stream(1)
    BY <1>1 DEF Stream, Due, Size, Count
  <2> QED BY <1>2, <2>2, <2>3, <2>4 DEF Joined
<1>15. InOrder'
  BY <1>1, <1>2, StreamStands
<1> QED BY <1>1, <1>2, <1>8, <1>9, <1>10, <1>12, <1>13, <1>14, <1>15

LEMMA WireStep == WireInv /\ [WireNext]_netVars => WireInv'
<1> SUFFICES ASSUME WireInv, [WireNext]_netVars PROVE WireInv'
  OBVIOUS
<1>1. CASE UNCHANGED netVars
  <2>1. UNCHANGED <<yields, wire, shut, bodies, out, part, head, in, lasterr, rcvtimeo, nonblock, arrived, result>>
    BY <1>1 DEF netVars, sendVars, recvVars
  <2>2. WireTypes' /\ Sending' /\ WholePackets'
    BY <2>1, PacketsStand DEF WireInv, WireTypes, WireTypeOK, Sending, Size, Count
  <2>3. Got' = Got /\ (Taken' <=> Taken) /\ (Mode' <=> Mode)
    BY <2>1 DEF Got, Taken, Here, Mode, Size, Count
  <2> QED BY <2>1, <2>2, <2>3, StreamStands, JoinStands DEF WireInv
<1>2. CASE Send \/ Write \/ WriteFull \/ WriteResumed \/ WriteFails \/ Sent \/ Shut
  BY <1>2, SendStep, WriteStep, SenderStep
<1>3. CASE Recv \/ ReadReset \/ YieldRefused
  BY <1>3, RecvStep, QuietStep
<1>4. CASE Receiver
  BY <1>4, ReadStep, QuietStep, HeadReadStep, PacketReadStep DEF Receiver
<1> QED BY <1>1, <1>2, <1>3, <1>4 DEF WireNext

\* For any sizes, any number of packets and any cutting of reads and writes, fibers
\* refused or not, RecvPack returns the packets as they were sent and leaves the
\* descriptor in the caller's mode (WireSafe; AIO_tcp.c:26-180, net_pkg.c:117-215).
THEOREM WireSafeAlways == WireSpec => []WireSafe
<1>1. WireInv => WireSafe
  <2> SUFFICES ASSUME WireInv PROVE WireSafe
    OBVIOUS
  <2> USE DEF WireInv
  <2>1. WireTypeOK
    BY DEF WireTypes
  <2>2. ModeRestored
    BY DEF ModeRestored, Mode
  <2>3. InStep
    <3>1. arrived \in Seq(Seq(Byte)) /\ Len(arrived) \in Nat
      BY Sizes DEF WireTypes
    <3>2. Len(arrived) <= Len(bodies) /\ \A p \in 1 .. Len(arrived) : arrived[p] = Packet(p)
      BY DEF WholePackets, Count
    <3>3. arrived = [p \in 1 .. Len(arrived) |-> arrived[p]]
      BY <3>1, LenProperties
    <3>4. [p \in 1 .. Len(arrived) |-> arrived[p]] = [p \in 1 .. Len(arrived) |-> Packet(p)]
      BY <3>2
    <3> QED BY <3>2, <3>3, <3>4 DEF InStep
  <2> QED BY <2>1, <2>2, <2>3 DEF WireSafe
<1> QED BY WireStart, WireStep, <1>1, PTL DEF WireSpec
=============================================================================

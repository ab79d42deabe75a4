--------------------------------- MODULE Wire ---------------------------------
(***************************************************************************)
(* One direction of a connection: SendNet and RecvNet (AIO_tcp.c) move the *)
(* bytes of packets whose heads and bodies RecvPack (net_pkg.c) asks for   *)
(* one by one.  Reads and writes move as many bytes as there are, and with *)
(* a yield function (tpool.c: do_event) the descriptor does not block and  *)
(* the fiber waits for it in the epoll of its server.                      *)
(*                                                                         *)
(* What the bytes mean is in module Frame.  A byte is the number of its    *)
(* packet and its place in it.                                             *)
(***************************************************************************)
EXTENDS Integers, SequencesExt

CONSTANTS
  HeadSize,    \* bytes of a head (36 in the code)
  BodySizes,   \* what T_LEN may be
  MaxPackets,  \* packets of a connection (a bound of the model)
  Room,        \* bytes the kernel buffers
  MTU,         \* the most bytes of one write, 0 for all of them
  HeadTime,    \* connect->timeout of the receiver, 0 for ever
  Errnos       \* what errno may be when RecvPack is called and when a fiber is resumed

ASSUME WireAssumption ==
  /\ HeadSize \in Nat \ {0} /\ BodySizes \subseteq Nat /\ Room \in Nat \ {0}
  /\ MaxPackets \in Nat /\ MTU \in Nat /\ HeadTime \in Nat
  /\ Errnos \subseteq {"none", "again", "other"}

VARIABLES
  yields,   \* a yield function is set
  bodies,   \* T_LEN of the packets that were given to SendPack
  out,      \* of SendNet: [step, bcount, buf, fflag: the flags are to be restored]
  wire,     \* the bytes in the kernel
  shut,     \* the sender has closed the connection
  part,     \* what RecvPack reads: "head", "body"
  head,     \* the head it has read
  in,       \* of RecvNet: [step, buf, repeat, fflag]
  lasterr,    \* errno of the receiving thread
  rcvtimeo, \* SO_RCVTIMEO of the receiver's socket
  nonblock, \* O_NONBLOCK of it
  arrived,  \* the packets RecvPack has returned
  result    \* of its last call

sendVars == <<bodies, out>>
recvVars == <<part, head, in, lasterr, rcvtimeo, nonblock, arrived, result>>
netVars == <<yields, wire, shut, sendVars, recvVars>>

Least(a, b) == IF a < b THEN a ELSE b
Packet(p) == [i \in 1 .. HeadSize + bodies[p] |-> <<p, i>>]
Reading == in.step \in {"read", "yield"}

WireInit ==
  /\ yields \in BOOLEAN
  /\ bodies = <<>> /\ out = [step |-> "idle", bcount |-> 0, buf |-> 0, fflag |-> FALSE]
  /\ wire = <<>> /\ shut = FALSE
  /\ part = "head" /\ head = <<>> /\ in = [step |-> "idle", buf |-> <<>>, repeat |-> 0, fflag |-> FALSE]
  /\ lasterr = "none" /\ rcvtimeo = 0 /\ nonblock = FALSE
  /\ arrived = <<>> /\ result = "ok"

-----------------------------------------------------------------------------
(* SendNet *)

Send ==
  /\ out.step = "idle" /\ ~shut /\ Len(bodies) < MaxPackets
  /\ \E b \in BodySizes : bodies' = Append(bodies, b)
  /\ out' = [step |-> "write", bcount |-> 0, buf |-> 0, fflag |-> yields]
  /\ UNCHANGED <<yields, wire, shut, recvVars>>

Whole == HeadSize + bodies[Len(bodies)]
Asked == IF MTU = 0 THEN Whole - out.bcount ELSE Least(Whole - out.bcount, MTU)
Writing == out.step = "write" /\ out.bcount < Whole

\* Mutant: the buffer stays where it is when a write was short.
Advanced(k) == IF k = Asked THEN out.buf + k ELSE out.buf

Behind(k) == out.buf + k

\* A write takes what fits; a short one waits for the descriptor.
Write ==
  /\ Writing /\ result = "ok"
  /\ \E k \in 1 .. Least(Asked, Room - Len(wire)) :
       /\ wire' = wire \o SubSeq(Packet(Len(bodies)), out.buf + 1, out.buf + k)
       /\ out' = [out EXCEPT !.bcount = @ + k, !.buf = Behind(k),
                             !.step = IF k < Asked /\ out.fflag THEN "yield" ELSE "write"]
  /\ UNCHANGED <<yields, bodies, shut, recvVars>>

\* EAGAIN
WriteFull ==
  /\ Writing /\ result = "ok" /\ out.fflag /\ Len(wire) = Room
  /\ out' = [out EXCEPT !.step = "yield"]
  /\ UNCHANGED <<yields, bodies, wire, shut, recvVars>>

\* The fiber is resumed, or it cannot yield and the descriptor blocks again.
WriteResumed ==
  /\ out.step = "yield"
  /\ \E can \in BOOLEAN : out' = [out EXCEPT !.step = "write", !.fflag = can]
  /\ UNCHANGED <<yields, bodies, wire, shut, recvVars>>

\* The receiver has closed the connection.
WriteFails ==
  /\ Writing /\ result # "ok"
  /\ out' = [out EXCEPT !.step = "failed"]
  /\ UNCHANGED <<yields, bodies, wire, shut, recvVars>>

Sent ==
  /\ out.step = "write" /\ out.bcount = Whole
  /\ out' = [out EXCEPT !.step = "idle"]
  /\ UNCHANGED <<yields, bodies, wire, shut, recvVars>>

\* The sender closes the connection or dies, in the middle of a packet too.
Shut ==
  /\ ~shut /\ shut' = TRUE
  /\ out' = [out EXCEPT !.step = "gone"]
  /\ UNCHANGED <<yields, bodies, wire, recvVars>>

-----------------------------------------------------------------------------
(* RecvNet *)

\* The seconds RecvPack gives it.
Seconds(p) == IF p = "head" THEN HeadTime ELSE 5

\* SO_RCVTIMEO is set when there are seconds to set, never taken back.
Limited(p) == IF Seconds(p) > 0 THEN Seconds(p) ELSE rcvtimeo

\* The call for the head or the body, from its first line.
Start(p) ==
  /\ part' = p
  /\ in' = [step |-> "read", buf |-> <<>>, repeat |-> 0, fflag |-> yields]
  /\ nonblock' = yields
  /\ rcvtimeo' = IF yields THEN rcvtimeo ELSE Limited(p)

\* RecvPack fails; whoever called it closes the connection.
Fail(r) ==
  /\ in' = [in EXCEPT !.step = "idle"]
  /\ result' = r
  /\ UNCHANGED <<part, head, arrived>>

Expected == IF part = "head" THEN HeadSize ELSE bodies[head[1][1]]

Recv ==
  /\ in.step = "idle" /\ result = "ok"
  /\ Start("head") /\ lasterr' \in Errnos
  /\ UNCHANGED <<yields, wire, shut, sendVars, head, arrived, result>>

\* Mutant: a short read is all there is.
EnoughShort(n) == n > 0

Enough(n) == n = Expected

Filling == in.step = "read" /\ ~Enough(Len(in.buf))

Read ==
  /\ Filling /\ wire # <<>>
  /\ \E k \in 1 .. Least(Expected - Len(in.buf), Len(wire)) :
       /\ in' = [in EXCEPT !.buf = @ \o SubSeq(wire, 1, k), !.repeat = 0]
       /\ wire' = SubSeq(wire, k + 1, Len(wire))
  /\ UNCHANGED <<yields, shut, sendVars, part, head, lasterr, rcvtimeo, nonblock, arrived, result>>

\* Mutant: nobody counts the events that brought nothing.
TiredNever == FALSE

\* Four events brought nothing.
Tired == in.repeat > 3

\* What a read that brought nothing leads to.  When errno is 0 at the end of the
\* stream and the descriptor blocks, the loop goes round (no step of the model).
NothingRead(e) ==
  \/ /\ ~in.fflag /\ e = "again"
     /\ Fail("timeout") /\ UNCHANGED nonblock
  \/ /\ e = "other"
     /\ Fail("short") /\ nonblock' = (nonblock /\ ~in.fflag)
  \/ /\ in.fflag /\ e # "other" /\ Tired
     /\ Fail(IF e = "again" THEN "timeout" ELSE "short") /\ UNCHANGED nonblock
  \/ /\ in.fflag /\ e # "other" /\ ~Tired
     /\ in' = [in EXCEPT !.repeat = Least(@ + 1, 4), !.step = "yield"]
     /\ UNCHANGED <<part, head, nonblock, arrived, result>>

\* The end of the stream, which leaves errno as it was.
ReadEnd ==
  /\ Filling /\ wire = <<>> /\ shut
  /\ NothingRead(lasterr)
  /\ UNCHANGED <<yields, wire, shut, sendVars, lasterr, rcvtimeo>>

\* The connection is reset, with what had not been read.
ReadReset ==
  /\ Filling /\ shut
  /\ wire' = <<>> /\ lasterr' = "other" /\ NothingRead("other")
  /\ UNCHANGED <<yields, shut, sendVars, rcvtimeo>>

\* EAGAIN, at once or when SO_RCVTIMEO has run out.
ReadAgain ==
  /\ Filling /\ wire = <<>> /\ ~shut /\ (nonblock \/ rcvtimeo > 0)
  /\ lasterr' = "again" /\ NothingRead("again")
  /\ UNCHANGED <<yields, wire, shut, sendVars, rcvtimeo>>

\* The event came.  The thread that goes on with the fiber may be another one,
\* which has left anything in errno.
Resumed ==
  /\ in.step = "yield" /\ (wire # <<>> \/ shut)
  /\ in' = [in EXCEPT !.step = "read"] /\ lasterr' \in Errnos
  /\ UNCHANGED <<yields, wire, shut, sendVars, part, head, rcvtimeo, nonblock, arrived, result>>

\* The timer of the task ran out, or another event came with the hang-up.
YieldExpires ==
  /\ in.step = "yield"
  /\ Fail("timeout")
  /\ nonblock' = FALSE /\ rcvtimeo' = Limited(part)
  /\ UNCHANGED <<yields, wire, shut, sendVars, lasterr>>

\* There is no fiber to leave: the rest is read with the descriptor blocking.
YieldRefused ==
  /\ in.step = "yield"
  /\ in' = [in EXCEPT !.step = "read", !.fflag = FALSE]
  /\ nonblock' = FALSE /\ rcvtimeo' = Limited(part) /\ lasterr' \in Errnos
  /\ UNCHANGED <<yields, wire, shut, sendVars, part, head, arrived, result>>

-----------------------------------------------------------------------------
(* RecvPack, with what RecvNet has read *)

Filled == in.step = "read" /\ Enough(Len(in.buf))

\* T_LEN is part of the head.
T_LEN(bytes) == bodies[bytes[1][1]]

HeadRead ==
  /\ Filled /\ part = "head" /\ T_LEN(in.buf) > 0
  /\ head' = in.buf /\ Start("body")
  /\ UNCHANGED <<yields, wire, shut, sendVars, lasterr, arrived, result>>

\* A packet without a body, or its body.
PacketRead ==
  /\ Filled /\ (part = "body" \/ T_LEN(in.buf) = 0)
  /\ in' = [in EXCEPT !.step = "idle"]
  /\ arrived' = Append(arrived, IF part = "head" THEN in.buf ELSE head \o in.buf)
  /\ nonblock' = (nonblock /\ ~in.fflag)
  /\ UNCHANGED <<yields, wire, shut, sendVars, part, head, lasterr, rcvtimeo, result>>

Receiver ==
  \/ Read \/ ReadEnd \/ ReadAgain \/ Resumed \/ YieldExpires
  \/ HeadRead \/ PacketRead

WireNext ==
  \/ Send \/ Write \/ WriteFull \/ WriteResumed \/ WriteFails \/ Sent \/ Shut
  \/ Recv \/ Receiver \/ ReadReset \/ YieldRefused

\* Who is to be answered by the kernel or by a timer is, and goes on.  Nothing is
\* assumed of the sender, of resets and of the epoll.
WireFairness == WF_netVars(Receiver)

WireSpec == WireInit /\ [][WireNext]_netVars /\ WireFairness

-----------------------------------------------------------------------------
(* Properties. *)

WireTypeOK ==
  /\ yields \in BOOLEAN /\ shut \in BOOLEAN /\ nonblock \in BOOLEAN
  /\ bodies \in Seq(BodySizes) /\ Len(bodies) <= MaxPackets
  /\ out.step \in {"idle", "write", "yield", "failed", "gone"} /\ out.fflag \in BOOLEAN
  /\ part \in {"head", "body"} /\ in.step \in {"idle", "read", "yield"} /\ in.repeat \in 0 .. 4
  /\ lasterr \in {"none", "again", "other"} /\ rcvtimeo \in {0, HeadTime, 5}
  /\ result \in {"ok", "timeout", "short"} /\ Len(wire) <= Room

\* The two ends stay in step, whatever the reads and writes were cut into and
\* whenever a fiber was refused: heads are taken for heads and bodies for bodies.
InStep ==
  Len(arrived) <= Len(bodies) /\ arrived = [p \in 1 .. Len(arrived) |-> Packet(p)]

\* The descriptor is given back in the mode it was in, though the fiber may have
\* been refused between two reads.
ModeRestored == (in.step = "idle" /\ result = "ok") => ~nonblock

\* Packets arrive as they were sent, in the mode the caller expects.
WireSafe == WireTypeOK /\ InStep /\ ModeRestored

\* read returns 0 again and again: errno is 0 and the descriptor blocks.
Spins == in.step = "read" /\ wire = <<>> /\ shut /\ ~in.fflag /\ lasterr = "none"

\* Whoever reads a body, or reads from a sender that has gone, comes back - unless
\* it goes round in circles, which the code does not prevent (AIO_tcp.c:59-65).
ReadEnds == Reading /\ (shut \/ part = "body") ~> ~Reading \/ Spins
=============================================================================

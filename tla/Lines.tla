-------------------------------- MODULE Lines --------------------------------
(***************************************************************************)
(* What the queues of the two pools promise: each is a line, an element is *)
(* in one line at most, whoever takes one takes the first, and who is late *)
(* when it joins a line joins it at the end, all others at the front.      *)
(***************************************************************************)
EXTENDS SequencesExt

CONSTANTS Elements, Queues

VARIABLES line,   \* the lines, the first element first
          late    \* the elements that queue up behind the others

Outside == Elements \ UNION {ToSet(line[q]) : q \in Queues}

Init ==
  /\ line \in [Queues -> UNION {SetToSeqs(E) : E \in SUBSET Elements}]
  /\ late \subseteq Elements
  /\ \A q, r \in Queues : q # r => ToSet(line[q]) \cap ToSet(line[r]) = {}

\* TCB_add, and add_lnk for a connection without a socket.
PutLast(q, e) ==
  e \in late /\ line' = [line EXCEPT ![q] = Append(@, e)] /\ UNCHANGED late

\* add_lnk for a connection with one.
PutFirst(q, e) ==
  e \notin late /\ line' = [line EXCEPT ![q] = <<e>> \o @] /\ UNCHANGED late

\* TCB_get, rdy_get and get_lnk_no.
TakeFirst(q) ==
  line[q] # <<>> /\ line' = [line EXCEPT ![q] = Tail(@)] /\ UNCHANGED late

\* Outside the lines an element may change; in a line it can only become late.
Change(e) == late' \cup {e} = late \cup {e} /\ UNCHANGED line
BecomeLate(e) == late' = late \cup {e} /\ UNCHANGED line

Next ==
  \/ \E q \in Queues : TakeFirst(q)
  \/ \E e \in Outside : Change(e) \/ \E q \in Queues : PutLast(q, e) \/ PutFirst(q, e)
  \/ \E e \in Elements : BecomeLate(e)

Spec == Init /\ [][Next]_<<line, late>>
=============================================================================

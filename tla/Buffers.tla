-------------------------------- MODULE Buffers --------------------------------
(***************************************************************************)
(* The growing buffers of json-c-0.9: a printbuf takes text and the byte 0  *)
(* behind it, an array_list takes elements at its end or at any place.      *)
(* Only sizes and places matter here.                                       *)
(***************************************************************************)
EXTENDS Integers

CONSTANTS
  PrintSize,   \* bytes of a new printbuf
  ListSize,    \* ARRAY_LIST_DEFAULT_SIZE
  Lengths,     \* lengths of texts that are appended
  MaxGathered  \* of what is gathered (a bound of the model)

ASSUME BufferAssumption ==
  /\ PrintSize \in Nat \ {0} /\ ListSize \in Nat \ {0} /\ Lengths \subseteq Nat
  /\ MaxGathered \in Nat

VARIABLES
  pb,    \* [size, bpos]: a printbuf
  ended, \* a byte 0 follows its text
  arr,   \* [size, length]: an array_list
  reach, \* [pb, arr]: the place the last call wrote to, the highest one
  jumped \* an element was put at a place twice as far as the array reached, or farther

bufferVars == <<pb, ended, arr, reach, jumped>>

Roomier(m, n) == IF m >= n THEN m ELSE n

BufferInit ==
  /\ pb = [size |-> PrintSize, bpos |-> 0] /\ ended = FALSE
  /\ arr = [size |-> ListSize, length |-> 0]
  /\ reach = [pb |-> 0, arr |-> 0] /\ jumped = FALSE

\* Mutant: the byte behind the text is forgotten.
GrownTight(n) ==
  IF pb.size - pb.bpos < n THEN Roomier(pb.size * 2, pb.bpos + n) ELSE pb.size

\* What printbuf_memappend makes of the size for n bytes more.
Grown(n) ==
  IF pb.size - pb.bpos <= n THEN Roomier(pb.size * 2, pb.bpos + n + 8) ELSE pb.size

\* printbuf_memappend, also what its macro and sprintbuf come to.
printbuf_memappend ==
  /\ \E n \in Lengths :
       /\ pb.bpos + n <= MaxGathered
       /\ pb' = [size |-> Grown(n), bpos |-> pb.bpos + n]
       /\ reach' = [reach EXCEPT !.pb = pb.bpos + n]
  /\ ended' = TRUE
  /\ UNCHANGED <<arr, jumped>>

printbuf_reset ==
  /\ pb' = [pb EXCEPT !.bpos = 0] /\ ended' = TRUE
  /\ reach' = [reach EXCEPT !.pb = 0]
  /\ UNCHANGED <<arr, jumped>>

\* Mutant: the place that is put at is taken for a size.
ExpandedLate(max) == IF max <= arr.size THEN arr.size ELSE Roomier(arr.size * 2, max)

\* array_list_expand_internal for place max.
Expanded(max) == IF max < arr.size THEN arr.size ELSE Roomier(arr.size * 2, max)

array_list_put_idx(idx) ==
  /\ arr' = [size |-> Expanded(idx), length |-> Roomier(arr.length, idx + 1)]
  /\ reach' = [reach EXCEPT !.arr = idx]
  /\ jumped' = (jumped \/ idx >= 2 * arr.size)
  /\ UNCHANGED <<pb, ended>>

array_list_add == arr.length < MaxGathered /\ array_list_put_idx(arr.length)

BufferNext ==
  \/ printbuf_memappend \/ printbuf_reset \/ array_list_add
  \/ \E idx \in 0 .. MaxGathered - 1 : array_list_put_idx(idx)
BufferSpec == BufferInit /\ [][BufferNext]_bufferVars

-----------------------------------------------------------------------------
\* What is written lies in what was allocated, the byte 0 included, and a text that
\* was appended ends with it (printbuf.c:48-67, arraylist.c:61-86); but an element that
\* is put at a place twice as far as the array reaches lies just behind what it grows
\* to (arraylist.c:67-68, 81-82).
BuffersHold ==
  /\ reach.pb < pb.size /\ pb.bpos < pb.size
  /\ pb.bpos > 0 => ended
  /\ reach.arr < arr.size \/ (jumped /\ reach.arr = arr.size)
  /\ arr.length <= arr.size \/ (jumped /\ arr.length = arr.size + 1)
=============================================================================

-------------------------------- MODULE Search --------------------------------
(***************************************************************************)
(* The binary searches of ds/Binary_search.c, ds/bound.c and, built from    *)
(* these, ds/tbound.c over a sorted array, rising or falling, whose indexes *)
(* count from 0, -1 being "not found"; and, below, the static hash table of *)
(* ds/multi_hash.c over an array whose equal keys lie side by side.         *)
(***************************************************************************)
EXTENDS Integers, Sequences, FiniteSets

CONSTANTS Values,      \* the values of the array
          MaxLength    \* its largest size (a bound of the model)

ASSUME SearchAssumption == Values \subseteq Int /\ IsFiniteSet(Values) /\ MaxLength \in Nat

VARIABLES array,   \* its elements
          order,  \* 1: rising, -1: falling
          key     \* the key looked for

searchVars == <<array, order, key>>

At(m) == array[m + 1]
Rows == 0 .. Len(array) - 1

\* element - key in the order of the array.
compare(m) == order * (At(m) - key)

\* m=l+((data_count-l)>>1)
Middle(l, h) == l + ((h - l) \div 2)

Equals == {i \in Rows : compare(i) = 0}
Above == {i \in Rows : compare(i) > 0}
Below == {i \in Rows : compare(i) < 0}

-----------------------------------------------------------------------------
(* ds/Binary_search.c, ds/bound.c *)

\* The loop of all seven, from the whole array and result = -1: it returns an element of
\* stops, goes on to the left of one of lefts and else to the right, and remembers as
\* the result the last element of keeps.
Halve(stops, lefts, keeps) ==
  LET from[l \in 0 .. Len(array)] ==
        [h \in -1 .. Len(array) - 1 |-> [result \in -1 .. Len(array) - 1 |->
           LET m == Middle(l, h)
               kept == IF m \in keeps THEN m ELSE result
           IN IF h < l THEN result
              ELSE IF m \in stops THEN m
              ELSE IF m \in lefts THEN from[l][m - 1][kept] ELSE from[m + 1][h][kept]]]
  IN from[0][Len(array) - 1][-1]

Binary_EQUAL == Halve(Equals, Above, {})
Binary_GT == Halve({}, Above, Above)
Binary_GTEQ == Halve(Equals, Above, Above)
Binary_LT == Halve({}, Above \cup Equals, Below)
Binary_LTEQ == Halve(Equals, Above \cup Equals, Below)

lowerBound == Halve({m \in Equals : m = 0 \/ compare(m - 1) < 0}, Above \cup Equals, {})
upperBound == Halve({}, Above, {m \in Above : m = 0 \/ compare(m - 1) <= 0})

-----------------------------------------------------------------------------
(* ds/tbound.c *)

\* Mutant: after the last equal element comes the size, before the first -1.
less_than_Upper == (IF upperBound < 0 THEN Len(array) ELSE upperBound) - 1

\* The last element below the key, from the first that equals or exceeds it.
less_than ==
  (IF lowerBound >= 0 THEN lowerBound
   ELSE IF upperBound >= 0 THEN upperBound ELSE Len(array)) - 1

less_eq == (IF upperBound < 0 THEN Len(array) ELSE upperBound) - 1

great_eq == IF lowerBound >= 0 THEN lowerBound ELSE upperBound

-----------------------------------------------------------------------------
(* Any array and key: Give chooses them. *)

SearchInit == array = <<>> /\ order = 1 /\ key = 0

Arrays == UNION {[1 .. n -> Values] : n \in 0 .. MaxLength}
Sorted(s, o) == \A i \in 2 .. Len(s) : o * (s[i] - s[i - 1]) >= 0

Give ==
  /\ array = <<>>
  /\ \E o \in {1, -1}, s \in Arrays, k \in Values \cup {v + 1 : v \in Values} :
       Sorted(s, o) /\ array' = s /\ order' = o /\ key' = k

SearchNext == Give

-----------------------------------------------------------------------------
(* Properties. *)

Smallest(S) == IF S = {} THEN -1 ELSE CHOOSE i \in S : \A j \in S : i <= j
Largest(S) == IF S = {} THEN -1 ELSE CHOOSE i \in S : \A j \in S : j <= i
\* Binary_*: an element that equals the key where one will do, else the nearest
\* above or below it; -1 only when there is none.
SearchesFind ==
  LET none == Equals = {} IN
  /\ IF none THEN Binary_EQUAL = -1 ELSE Binary_EQUAL \in Equals
  /\ Binary_GT = Smallest(Above)
  /\ Binary_LT = Largest(Below)
  /\ IF none THEN Binary_GTEQ = Smallest(Above) ELSE Binary_GTEQ \in Equals
  /\ IF none THEN Binary_LTEQ = Largest(Below) ELSE Binary_LTEQ \in Equals

\* lowerBound and upperBound: with equal elements the first that equals the key
\* and the first above it.
BoundsFirst ==
  /\ lowerBound = Smallest(Equals)
  /\ upperBound = Smallest(Above)

\* What tbound.c builds from them: the last below, the last not above, the first
\* not below the key, at both ends of the array too.
BoundsCompose ==
  /\ less_than = Largest(Below)
  /\ less_eq = Largest(Rows \ Above)
  /\ great_eq = Smallest(Rows \ Below)

\* All ten searches, at both ends of the array and between equal elements.
SearchesRight == SearchesFind /\ BoundsFirst /\ BoundsCompose

-----------------------------------------------------------------------------
(* ds/multi_hash.c: every place of the index holds the first row of a key and how
   many there are; keys that lose their place wait on a stack and are linked, from
   the place they lost, into the places left over. *)

CONSTANTS HashKeys,   \* the keys
          MaxRows     \* rows of the array (a bound of the model)

ASSUME HashAssumption == IsFiniteSet(HashKeys) /\ MaxRows \in Nat

VARIABLES rows,     \* the array's keys
          places,   \* key_count
          hashnum,  \* do_hash: key -> place
          row,      \* i, the next row or place
          hash,     \* para->index: place -> [rowno, link, count]
          stack,    \* the keys without a place
          doing     \* "none", "rows", "chains", "done"

hashVars == <<rows, places, hashnum, row, hash, stack, doing>>

Places == 0 .. places - 1
NoRow == [rowno |-> -1, link |-> -1, count |-> 0]
KeyAt(r) == rows[r + 1]

HashInit ==
  /\ rows = <<>> /\ places = 0 /\ hashnum = <<>> /\ row = 0
  /\ hash = <<>> /\ stack = <<>> /\ doing = "none"

\* Equal keys lie side by side.
Grouped(s) ==
  \A i, j \in DOMAIN s : i < j /\ s[i] = s[j] => \A n \in i .. j : s[n] = s[i]
KeysIn(s) == {s[i] : i \in DOMAIN s}

\* Any array, hash function and at least as many places as keys.
Prepare ==
  /\ doing = "none"
  /\ \E n \in 0 .. MaxRows :
     \E s \in [1 .. n -> HashKeys], p \in 1 .. Cardinality(HashKeys) :
     \E h \in [HashKeys -> 0 .. p - 1] :
       /\ Grouped(s) /\ Cardinality(KeysIn(s)) <= p
       /\ rows' = s /\ places' = p /\ hashnum' = h
       /\ hash' = [i \in 0 .. p - 1 |-> NoRow]
  /\ doing' = "rows" /\ row' = 0
  /\ UNCHANGED stack

\* A row: a new key in its place, one more of the key in its place or of the key
\* on top of the stack, or a key for the stack.
TakeRow ==
  LET h == hashnum[KeyAt(row)] IN
  /\ doing = "rows" /\ row < Len(rows)
  /\ \/ /\ hash[h].rowno = -1
        /\ hash' = [hash EXCEPT ![h] = [rowno |-> row, link |-> -1, count |-> 1]]
        /\ UNCHANGED stack
     \/ /\ hash[h].rowno # -1 /\ KeyAt(hash[h].rowno) = KeyAt(row)
        /\ hash' = [hash EXCEPT ![h].count = @ + 1]
        /\ UNCHANGED stack
     \/ /\ hash[h].rowno # -1 /\ KeyAt(hash[h].rowno) # KeyAt(row)
        /\ stack' = IF stack # <<>> /\ KeyAt(stack[1].rowno) = KeyAt(row)
                    THEN [stack EXCEPT ![1].count = @ + 1]
                    ELSE <<[rowno |-> row, link |-> h, count |-> 1]>> \o stack
        /\ UNCHANGED hash
  /\ row' = row + 1
  /\ UNCHANGED <<rows, places, hashnum, doing>>

EndRows ==
  /\ doing = "rows" /\ row = Len(rows)
  /\ doing' = "chains" /\ row' = 0
  /\ UNCHANGED <<rows, places, hashnum, hash, stack>>

\* Mutant: the link replaces the one the place has already.
ChainHead(h) == h

\* The place at the end of the chain that starts at h, which has no more places than
\* there are.
ChainEnd(h) ==
  LET at[n \in 0 .. places] ==
        IF n = 0 THEN h
        ELSE LET p == at[n - 1] IN IF hash[p].link = -1 THEN p ELSE hash[p].link
  IN at[places]

\* A place left over takes the key on top of the stack.
FillPlace ==
  /\ doing = "chains" /\ stack # <<>> /\ row < places
  /\ IF hash[row].rowno > -1 THEN UNCHANGED <<hash, stack>>
     ELSE /\ hash' = [hash EXCEPT ![row] = [stack[1] EXCEPT !.link = -1],
                                  ![ChainEnd(stack[1].link)].link = row]
          /\ stack' = Tail(stack)
  /\ row' = row + 1
  /\ UNCHANGED <<rows, places, hashnum, doing>>

EndChains ==
  /\ doing = "chains" /\ (stack = <<>> \/ row = places)
  /\ doing' = "done"
  /\ UNCHANGED <<rows, places, hashnum, row, hash, stack>>

HashNext == Prepare \/ TakeRow \/ EndRows \/ FillPlace \/ EndChains

\* multi_hash_find: along the chain from the key's place.
ChainStops(p, k) == hash[p].rowno = -1 \/ KeyAt(hash[p].rowno) = k \/ hash[p].link < 0
multi_hash_find(k) ==
  LET at[n \in 0 .. places] ==
        IF n = 0 THEN hashnum[k]
        ELSE LET p == at[n - 1] IN IF ChainStops(p, k) THEN p ELSE hash[p].link
      found == hash[at[places]]
  IN IF found.rowno # -1 /\ KeyAt(found.rowno) = k THEN found ELSE NoRow

-----------------------------------------------------------------------------
(* Properties. *)

\* Every key of the array is found at its first row with the number of its rows,
\* every other one is not found, whatever the hash function does.
KeysFound ==
  doing = "done" =>
    \A k \in HashKeys :
      LET mine == {r \in 0 .. Len(rows) - 1 : KeyAt(r) = k}
          f == multi_hash_find(k)
      IN /\ f.count = Cardinality(mine)
         /\ mine = {} => f.rowno = -1
         /\ mine # {} => f.rowno \in mine /\ \A r \in mine : f.rowno <= r

\* No key is left on the stack, and each holds one place.
EachPlaced ==
  doing = "done" =>
    /\ stack = <<>>
    /\ Cardinality({p \in Places : hash[p].rowno # -1}) = Cardinality(KeysIn(rows))

\* The index finds what is in the array and nothing else, and no collision is left
\* without a place (multi_hash.c:108-131).
HashFinds == KeysFound /\ EachPlaced
=============================================================================

------------------------------ MODULE JsonObject ------------------------------
(***************************************************************************)
(* The members of a JSON object (json-c-0.9/linkhash.c): a hash table with  *)
(* open addressing that grows, whose entries are linked in the order they   *)
(* came, as json_object_object_add and json_object_object_del use it; and,  *)
(* below, the ownership of JSON values (json_object.c, with the arrays and  *)
(* tables below it).                                                        *)
(***************************************************************************)
EXTENDS Integers, Sequences, FiniteSets

CONSTANTS
  LinkKeys,    \* the names
  LinkValues,  \* the values
  FirstSize,   \* JSON_OBJECT_DEF_HASH_ENTRIES
  HashRange    \* values of the hash function (a bound of the model)

ASSUME LinkAssumption ==
  IsFiniteSet(LinkKeys) /\ FirstSize \in Nat \ {0, 1, 2} /\ HashRange \subseteq Nat

VARIABLES
  table,   \* [slot, head, tail, count]: a struct lh_table
  hash_fn, \* the hash function
  said,    \* the members there should be: <<name, value>>, the latest last
  removed  \* some member was removed

linkVars == <<table, hash_fn, said, removed>>

Empty == "LH_EMPTY"
Freed == "LH_FREED"
Null == -1
Cleared(k) == [k |-> k, v |-> Null, next |-> Null, prev |-> Null]

lh_table_new(size) ==
  [slot |-> [n \in 0 .. size - 1 |-> Cleared(Empty)], head |-> Null, tail |-> Null, count |-> 0]

Size(t) == Cardinality(DOMAIN t.slot)
Place(t, k, i) == (hash_fn[k] + i) % Size(t)
Distances(t) == 0 .. Size(t) - 1
Nearest(D) == CHOOSE i \in D : \A j \in D : i <= j

-----------------------------------------------------------------------------
(* lh_table_lookup_entry *)

\* It passes the entries of others and ends at the name or at a place that was
\* never taken; with neither it goes round for ever.
Stops(t, k) == {i \in Distances(t) : t.slot[Place(t, k, i)].k \in {Empty, k}}
lookup_entry(t, k) ==
  LET n == Place(t, k, Nearest(Stops(t, k))) IN
  IF t.slot[n].k = k THEN n ELSE Null

-----------------------------------------------------------------------------
(* lh_table_insert *)

\* The first place that is not taken gets the entry, which becomes the last one.
EntryAdded(t, k, v) ==
  LET free == {i \in Distances(t) : t.slot[Place(t, k, i)].k \in {Empty, Freed}}
      n == Place(t, k, Nearest(free))
      new == [t.slot EXCEPT ![n] = [k |-> k, v |-> v, next |-> Null, prev |-> t.tail]]
  IN [slot |-> IF t.head = Null THEN new ELSE [new EXCEPT ![t.tail].next = n],
      head |-> IF t.head = Null THEN n ELSE t.head,
      tail |-> n, count |-> t.count + 1]

\* lh_table_resize: the entries from e on go into the new table, in their order.
RECURSIVE Moved(_, _, _)
Moved(t, e, new) ==
  IF e = Null THEN new ELSE Moved(t, t.slot[e].next, EntryAdded(new, t.slot[e].k, t.slot[e].v))

\* Mutant: the places are copied as they are.
ResizedInPlace(t) ==
  [t EXCEPT !.slot = [n \in 0 .. 2 * Size(t) - 1 |->
                        IF n < Size(t) THEN t.slot[n] ELSE Cleared(Empty)]]

Resized(t) == Moved(t, t.head, lh_table_new(2 * Size(t)))

\* The table grows when more than 66 of 100 places are taken.
Inserted(t, k, v) == EntryAdded(IF t.count * 100 > Size(t) * 66 THEN Resized(t) ELSE t, k, v)

-----------------------------------------------------------------------------
(* lh_table_delete *)

\* The entry is taken out of the list; its place may be taken again.
EntryTaken(t, n) ==
  LET e == t.slot[n]
      freed == [t.slot EXCEPT ![n] = Cleared(Freed)]
      after == IF e.prev = Null THEN freed ELSE [freed EXCEPT ![e.prev].next = e.next]
  IN [slot |-> IF e.next = Null THEN after ELSE [after EXCEPT ![e.next].prev = e.prev],
      head |-> IF t.head = n THEN e.next ELSE t.head,
      tail |-> IF t.tail = n THEN e.prev ELSE t.tail,
      count |-> t.count - 1]

Without(t, k) == LET n == lookup_entry(t, k) IN IF n = Null THEN t ELSE EntryTaken(t, n)

-----------------------------------------------------------------------------
(* Any members, in any order, with any hash function *)

LinkInit == table = lh_table_new(FirstSize) /\ hash_fn = <<>> /\ said = <<>> /\ removed = FALSE

Hash ==
  /\ hash_fn = <<>> /\ hash_fn' \in [LinkKeys -> HashRange]
  /\ UNCHANGED <<table, said, removed>>

Others(k) == SelectSeq(said, LAMBDA m : m[1] # k)
LooksEnd == \A k \in LinkKeys : Stops(table, k) # {}

\* json_object_object_add replaces what the name had.
json_object_object_add(k, v) ==
  /\ hash_fn # <<>> /\ LooksEnd
  /\ table' = Inserted(Without(table, k), k, v)
  /\ said' = Append(Others(k), <<k, v>>)
  /\ UNCHANGED <<hash_fn, removed>>

json_object_object_del(k) ==
  /\ hash_fn # <<>> /\ LooksEnd
  /\ table' = Without(table, k)
  /\ said' = Others(k) /\ removed' = TRUE
  /\ UNCHANGED hash_fn

LinkNext ==
  \/ Hash
  \/ \E k \in LinkKeys, v \in LinkValues : json_object_object_add(k, v)
  \/ \E k \in LinkKeys : json_object_object_del(k)

-----------------------------------------------------------------------------
(* Properties. *)

\* A name has the value it was given last, through collisions and growing.
MembersFound ==
  \A k \in LinkKeys :
    LET n == lookup_entry(table, k)
        mine == SelectSeq(said, LAMBDA m : m[1] = k)
    IN IF mine = <<>> THEN n = Null ELSE n # Null /\ table.slot[n].v = mine[1][2]

RECURSIVE Forward(_), Backward(_)
Forward(n) ==
  IF n = Null THEN <<>>
  ELSE <<<<table.slot[n].k, table.slot[n].v>>>> \o Forward(table.slot[n].next)
Backward(n) ==
  IF n = Null THEN <<>>
  ELSE Append(Backward(table.slot[n].prev), <<table.slot[n].k, table.slot[n].v>>)

\* The members are listed in the order they were last given, from both ends.
MembersListed ==
  /\ Forward(table.head) = said /\ Backward(table.tail) = said
  /\ table.count = Len(said)

\* An object holds what was put in, in order; members that are replaced leave no
\* places on which a look-up could go round for ever, those that are removed may
\* (linkhash.c:123-170, json_object.c:265-271).
MembersKept ==
  hash_fn # <<>> => (~removed => LooksEnd) /\ (LooksEnd => MembersFound) /\ MembersListed

-----------------------------------------------------------------------------
(* The ownership of values: a program gives back what it got, hands a reference
   over when it adds a value, and may keep one more with json_object_get. *)

CONSTANTS
  Jsons,      \* places for values
  Members,    \* names of members
  MaxItems,   \* of an array (a bound of the model)
  MaxHeld     \* references to a value that the program has (a bound of the model)

ASSUME JsonRefsAssumption == MaxItems \in Nat /\ MaxHeld \in Nat \ {0}

VARIABLES
  heap,    \* [vals, twice]: the values; whether one was freed twice
  owned     \* references the program has to give back

refVars == <<heap, owned>>

NoJson == "null"

Unborn == [o_type |-> "free", refs |-> 0, members |-> [k \in Members |-> NoJson], items |-> <<>>]
RefsInit ==
  /\ heap = [vals |-> [v \in Jsons |-> Unborn], twice |-> FALSE]
  /\ owned = [v \in Jsons |-> 0]

Live(h, v) == h.vals[v].o_type # "free"
KidsOf(h, v) == {h.vals[v].members[k] : k \in Members}
                \union {h.vals[v].items[i] : i \in DOMAIN h.vals[v].items}

\* What the program can get at: what it holds, and what is in it.
RECURSIVE Within(_, _)
Within(h, vs) ==
  LET more == vs \union (UNION {KidsOf(h, v) : v \in vs} \ {NoJson})
  IN IF more = vs THEN vs ELSE Within(h, more)
InReach == Within(heap, {v \in Jsons : owned[v] > 0})

\* json_object_put: the last reference frees the value and gives back what it holds.
RECURSIVE Put(_, _), PutAll(_, _)
Put(h, v) ==
  IF v = NoJson THEN h
  ELSE IF ~Live(h, v) THEN [h EXCEPT !.twice = TRUE]
  ELSE IF h.vals[v].refs > 1 THEN [h EXCEPT !.vals[v].refs = @ - 1]
  ELSE LET it == h.vals[v]
       IN PutAll([h EXCEPT !.vals[v] = Unborn], <<it.members, it.items>>)
PutAll(h, kids) ==
  LET names == {k \in Members : kids[1][k] # NoJson}
  IN IF kids[2] # <<>> THEN PutAll(Put(h, Head(kids[2])), <<kids[1], Tail(kids[2])>>)
     ELSE IF names # {}
     THEN LET k == CHOOSE k \in names : TRUE
          IN PutAll(Put(h, kids[1][k]), <<[kids[1] EXCEPT ![k] = NoJson], <<>> >>)
     ELSE h

\* json_object_new.
New(v, type) ==
  /\ ~Live(heap, v)
  /\ heap' = [heap EXCEPT !.vals[v] = [Unborn EXCEPT !.o_type = type, !.refs = 1]]
  /\ owned' = [owned EXCEPT ![v] = 1]

json_object_get(v) ==
  /\ v \in InReach /\ owned[v] < MaxHeld
  /\ heap' = [heap EXCEPT !.vals[v].refs = @ + 1]
  /\ owned' = [owned EXCEPT ![v] = @ + 1]

json_object_put(v) ==
  /\ owned[v] > 0
  /\ heap' = Put(heap, v)
  /\ owned' = [owned EXCEPT ![v] = @ - 1]

\* What is replaced is given back: the entries of tables and arrays are freed.
\* Mutant: a value that is replaced by itself is left as it is.
EntryFreedOnce(h, old, new) == IF old = new THEN h ELSE Put(h, old)
EntryFreed(h, old, new) == Put(h, old)

\* The reference to a value that is added goes over to the object.
Handed(new) ==
  \/ new = NoJson /\ UNCHANGED owned
  \/ new \in Jsons /\ owned[new] > 0 /\ owned' = [owned EXCEPT ![new] = @ - 1]

object_add(v, k, new) ==
  /\ v \in InReach /\ heap.vals[v].o_type = "object"
  /\ Handed(new)
  /\ heap' = [EntryFreed(heap, heap.vals[v].members[k], new) EXCEPT !.vals[v].members[k] = new]

object_del(v, k) ==
  /\ v \in InReach /\ heap.vals[v].o_type = "object"
  /\ heap' = [Put(heap, heap.vals[v].members[k]) EXCEPT !.vals[v].members[k] = NoJson]
  /\ UNCHANGED owned

\* array_list_put_idx: what is between the last element and the new one is NULL.
json_object_array_put_idx(v, idx, new) ==
  LET items == heap.vals[v].items
      old == IF idx <= Len(items) THEN items[idx] ELSE NoJson
  IN /\ v \in InReach /\ heap.vals[v].o_type = "array"
     /\ Handed(new)
     /\ heap' = [EntryFreed(heap, old, new) EXCEPT !.vals[v].items =
                   [i \in 1 .. (IF idx > Len(items) THEN idx ELSE Len(items)) |->
                      IF i = idx THEN new ELSE IF i <= Len(items) THEN items[i] ELSE NoJson]]

RefsNext ==
  \E v \in Jsons :
    \/ \E type \in {"object", "array", "string"} : New(v, type)
    \/ json_object_get(v)
    \/ json_object_put(v)
    \/ \E k \in Members, new \in Jsons \union {NoJson} : object_add(v, k, new)
    \/ \E k \in Members : object_del(v, k)
    \/ \E i \in 1 .. MaxItems, new \in Jsons \union {NoJson} : json_object_array_put_idx(v, i, new)

-----------------------------------------------------------------------------
(* Properties. *)

Holders(v) ==
  {<<u, k>> \in Jsons \X Members : heap.vals[u].members[k] = v}
    \union {<<u, i>> \in Jsons \X (1 .. MaxItems) : i \in DOMAIN heap.vals[u].items /\ heap.vals[u].items[i] = v}

\* A value lives as long as somebody refers to it and is freed once, with what only it
\* held; what lives and cannot be got at any more is held by a value that is in
\* itself (json_object.c:131-175, 251-293, arraylist.c:44-86).
RefsRight ==
  /\ ~heap.twice
  /\ \A v \in Jsons :
       /\ heap.vals[v].refs = owned[v] + Cardinality(Holders(v))
       /\ Live(heap, v) <=> heap.vals[v].refs > 0
       /\ (Live(heap, v) /\ v \notin InReach) =>
            \E u \in Jsons : u \in Within(heap, KidsOf(heap, u) \ {NoJson}) /\ v \in Within(heap, {u})
=============================================================================

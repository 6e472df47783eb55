----------------------------- MODULE Containers -----------------------------
(***************************************************************************)
(* The containers of km-shared: the hash table (hash_table.c) and the      *)
(* dynamic array (utils-dym-array.c), beside what they stand for: of each  *)
(* key the items that were inserted under it, the last one first, and a    *)
(* sequence.  Their users serialise the calls with locks of their own;     *)
(* an iterator spans several calls.                                        *)
(***************************************************************************)
EXTENDS Integers, Sequences, SequencesExt, FiniteSets

CONSTANTS
  Items,      \* items of the table: each can be in it once
  KeyOf,      \* the key an item is inserted under
  Bucket,     \* HashFunction(key) % Size
  Size,       \* number of buckets
  Values,     \* values pushed to the array
  Initial, PerCents,  \* DYM_ARRAY_INITIAL_ALLOC_LENGTH, ..._INCREASE_PER_CENTS
  MaxLength,  \* bound of this model: the longest array
  Null

VARIABLES
  buckets, count,  \* Buckets and NumberOfItems (-1 when destroyed)
  locked,          \* buckets that are locked
  it, visited,     \* the iterator, or Null, and the items it has shown
  model,           \* what the table stands for
  array,           \* Data, AllocatedLength, ValidLength of the array
  list,            \* what the array stands for
  result, expected \* the answer of the last operation, and what it should be

vars == <<buckets, count, locked, it, visited, model, array, list, result, expected>>
table == <<buckets, count, locked, it, visited, model>>
Keys == {KeyOf[x] : x \in Items}
Indexes == 0 .. Size - 1

Init ==
  /\ buckets = [i \in Indexes |-> <<>>] /\ count = 0
  /\ locked = {} /\ it = Null /\ visited = <<>>
  /\ model = [k \in Keys |-> <<>>]
  /\ array = [data |-> [i \in 0 .. Initial - 1 |-> Null],
              allocated |-> Initial, valid |-> 0]
  /\ list = <<>>
  /\ result = Null /\ expected = Null

Held == UNION {Range(model[k]) : k \in Keys}
Answers(r, e) == result' = r /\ expected' = e
NoAnswer == Answers(Null, Null)

-----------------------------------------------------------------------------
(* hash_table.c *)

\* Nothing changes the table while an iterator points into it.
Idle == it = Null /\ count >= 0

\* The position of the first item of the key in its bucket, or 0.
Found(k) ==
  LET b == buckets[Bucket[k]]
      hits == {i \in DOMAIN b : KeyOf[b[i]] = k}
  IN IF hits = {} THEN 0 ELSE CHOOSE i \in hits : \A j \in hits : i <= j
Newest(k) == IF model[k] = <<>> THEN Null ELSE Head(model[k])

HashTableInsert(x) ==
  /\ Idle /\ x \notin Held
  /\ buckets' = [buckets EXCEPT ![Bucket[KeyOf[x]]] = <<x>> \o @]
  /\ count' = count + 1
  /\ model' = [model EXCEPT ![KeyOf[x]] = <<x>> \o @]
  /\ NoAnswer
  /\ UNCHANGED <<locked, it, visited, array, list>>

HashTableGet(k) ==
  /\ Idle
  /\ Answers(IF Found(k) = 0 THEN Null ELSE buckets[Bucket[k]][Found(k)], Newest(k))
  /\ UNCHANGED <<table, array, list>>

\* Mutant: the search takes the last item of the bucket.
DeleteLast(k) ==
  LET b == buckets[Bucket[k]] IN
  /\ Idle /\ b # <<>>
  /\ buckets' = [buckets EXCEPT ![Bucket[k]] = Front(@)]
  /\ count' = count - 1
  /\ model' = [model EXCEPT ![k] = IF @ = <<>> THEN @ ELSE Tail(@)]
  /\ Answers(Last(b), Newest(k))
  /\ UNCHANGED <<locked, it, visited, array, list>>

HashTableDelete(k) ==
  LET i == Found(k)
      b == buckets[Bucket[k]]
  IN
  /\ Idle
  /\ Answers(IF i = 0 THEN Null ELSE b[i], Newest(k))
  /\ IF i = 0 THEN UNCHANGED <<buckets, count, model>>
     ELSE /\ buckets' = [buckets EXCEPT ![Bucket[k]] = RemoveAt(@, i)]
          /\ count' = count - 1
          /\ model' = [model EXCEPT ![k] = Tail(@)]
  /\ UNCHANGED <<locked, it, visited, array, list>>

\* All items, bucket after bucket.
AllItems == FlattenSeq([i \in 1 .. Size |-> buckets[i - 1]])

HashTablePerform ==
  /\ Idle
  /\ Answers(Range(AllItems), Held)
  /\ UNCHANGED <<table, array, list>>

\* The callback stops the traversal at item x: x is among those it was shown.
HashTablePerformWithFeedback(x) ==
  LET shown == SubSeq(AllItems, 1, CHOOSE i \in DOMAIN AllItems : AllItems[i] = x) IN
  /\ Idle /\ x \in Held
  /\ Answers(Range(shown) \cap {x}, {x})
  /\ UNCHANGED <<table, array, list>>

Emptied ==
  /\ buckets' = [i \in Indexes |-> <<>>]
  /\ model' = [k \in Keys |-> <<>>]
  /\ UNCHANGED <<locked, it, visited, array, list>>

\* The free function sees the items if the caller wants that.
HashTableClear(callFree) ==
  /\ Idle
  /\ count' = 0
  /\ IF callFree THEN Answers(Range(AllItems), Held) ELSE NoAnswer
  /\ Emptied

HashTableDestroy ==
  /\ Idle
  /\ count' = -1
  /\ Answers(Range(AllItems), Held)
  /\ Emptied

\* The next table.
HashTableCreate ==
  /\ count = -1
  /\ count' = 0
  /\ NoAnswer
  /\ UNCHANGED <<buckets, locked, it, visited, model, array, list>>

NonEmpty == {i \in Indexes : buckets[i] # <<>>}
Lowest(s) == CHOOSE i \in s : \A j \in s : i <= j

HashTableGetFirst ==
  /\ Idle
  /\ IF NonEmpty = {} THEN UNCHANGED <<it, locked>>
     ELSE LET i == Lowest(NonEmpty) IN
          it' = [index |-> i, item |-> 1] /\ locked' = {i}
  /\ NoAnswer
  /\ UNCHANGED <<buckets, count, visited, model, array, list>>

\* The last GetNext has shown everything.
HashTableGetNext ==
  LET seen == Append(visited, buckets[it.index][it.item])
      later == {i \in NonEmpty : i > it.index}
  IN
  /\ it # Null
  /\ CASE it.item < Len(buckets[it.index]) ->
            /\ it' = [it EXCEPT !.item = @ + 1] /\ visited' = seen
            /\ NoAnswer /\ UNCHANGED locked
       [] it.item = Len(buckets[it.index]) /\ later = {} ->
            /\ it' = Null /\ locked' = {} /\ visited' = <<>>
            /\ Answers(<<Range(seen), Len(seen)>>, <<Held, count>>)
       [] OTHER ->
            /\ it' = [index |-> Lowest(later), item |-> 1] /\ visited' = seen
            /\ locked' = {Lowest(later)}
            /\ NoAnswer
  /\ UNCHANGED <<buckets, count, model, array, list>>

\* The user has seen enough.
HashTableIteratorFinit ==
  /\ it # Null
  /\ it' = Null /\ locked' = locked \ {it.index} /\ visited' = <<>>
  /\ NoAnswer
  /\ UNCHANGED <<buckets, count, model, array, list>>

-----------------------------------------------------------------------------
(* utils-dym-array.c *)

\* DymArrayReserve: the array with room for n values; it may cut values off.
Reserved(a, n) ==
  LET kept == IF a.valid <= n THEN a.valid ELSE n IN
  [data |-> [i \in 0 .. n - 1 |-> IF i < kept THEN a.data[i] ELSE Null],
   allocated |-> n, valid |-> kept]
DymArrayReserve(n) ==
  /\ n <= MaxLength
  /\ array' = Reserved(array, n)
  /\ list' = IF n < Len(list) THEN SubSeq(list, 1, n) ELSE list
  /\ NoAnswer
  /\ UNCHANGED table

\* Room for one more: PerCents per cent more, and if that is nothing, or was
\* not to be had, one place more.  got: which of the two allocations succeeds.
Grown(a, got) ==
  LET more == (a.allocated * (100 + PerCents)) \div 100
      once == IF 1 \in got THEN Reserved(a, more) ELSE a
  IN IF a.valid < a.allocated THEN a
     ELSE IF once.valid = once.allocated /\ 2 \in got
     THEN Reserved(once, once.allocated + 1)
     ELSE once
HasRoom(a) == a.valid < a.allocated

DymArrayPushBack(v, got) ==
  LET a == Grown(array, got) IN
  /\ Len(list) < MaxLength
  /\ array' = IF HasRoom(a) THEN [a EXCEPT !.data[a.valid] = v, !.valid = @ + 1] ELSE a
  /\ list' = IF HasRoom(a) THEN Append(list, v) ELSE list
  /\ NoAnswer
  /\ UNCHANGED table

DymArrayPushFront(v, got) ==
  LET a == Grown(array, got)
      shifted == [i \in DOMAIN a.data |->
                    IF i = 0 THEN v ELSE IF i <= a.valid THEN a.data[i - 1] ELSE a.data[i]]
  IN
  /\ Len(list) < MaxLength
  /\ array' = IF HasRoom(a) THEN [a EXCEPT !.valid = @ + 1, !.data = shifted] ELSE a
  /\ list' = IF HasRoom(a) THEN <<v>> \o list ELSE list
  /\ NoAnswer
  /\ UNCHANGED table

\* Callers pop no empty array: that stops the system.
DymArrayPopBack ==
  /\ array.valid > 0
  /\ Answers(array.data[array.valid - 1], Last(list))
  /\ array' = [array EXCEPT !.valid = @ - 1]
  /\ list' = Front(list)
  /\ UNCHANGED table

DymArrayPopFront ==
  /\ array.valid > 0
  /\ Answers(array.data[0], Head(list))
  /\ array' = [array EXCEPT !.valid = @ - 1,
                 !.data = [i \in DOMAIN @ |-> IF i < array.valid - 1 THEN @[i + 1]
                                              ELSE @[i]]]
  /\ list' = Tail(list)
  /\ UNCHANGED table

\* DymArrayPushArray: exactly the room it needs, which may be less than there was.
DymArrayPushArray(s) ==
  LET a == Reserved(array, array.valid + Len(s)) IN
  /\ Len(list) + Len(s) <= MaxLength
  /\ array' = [a EXCEPT !.valid = @ + Len(s),
                 !.data = [i \in DOMAIN a.data |->
                             IF i >= a.valid THEN s[i - a.valid + 1] ELSE a.data[i]]]
  /\ list' = list \o s
  /\ NoAnswer
  /\ UNCHANGED table

DymArrayClear ==
  /\ array' = [array EXCEPT !.valid = 0]
  /\ list' = <<>>
  /\ NoAnswer
  /\ UNCHANGED table

DymArrayToStaticArray ==
  /\ Answers([i \in 1 .. array.valid |-> array.data[i - 1]], list)
  /\ UNCHANGED <<table, array, list>>

-----------------------------------------------------------------------------
HashTableNext ==
  \/ \E x \in Items : HashTableInsert(x) \/ HashTablePerformWithFeedback(x)
  \/ \E k \in Keys : HashTableGet(k) \/ HashTableDelete(k)
  \/ \E free \in BOOLEAN : HashTableClear(free)
  \/ HashTablePerform \/ HashTableDestroy \/ HashTableCreate
  \/ HashTableGetFirst \/ HashTableGetNext \/ HashTableIteratorFinit
DymArrayNext ==
  \/ \E n \in 1 .. MaxLength : DymArrayReserve(n)
  \/ \E v \in Values, got \in SUBSET {1, 2} :
       DymArrayPushBack(v, got) \/ DymArrayPushFront(v, got)
  \/ \E v, w \in Values : DymArrayPushArray(<<v, w>>)
  \/ DymArrayPopBack \/ DymArrayPopFront \/ DymArrayClear \/ DymArrayToStaticArray

\* The two have nothing in common: one of them runs while the other is empty.
Next ==
  \/ list = <<>> /\ HashTableNext
  \/ Range(AllItems) = {} /\ it = Null /\ DymArrayNext
Spec == Init /\ [][Next]_vars

-----------------------------------------------------------------------------
\* The table holds, of each key, what was inserted and not deleted, in that
\* order, and counts them.
TableIsMap ==
  /\ \A k \in Keys : SelectSeq(buckets[Bucket[k]], LAMBDA x : KeyOf[x] = k) = model[k]
  /\ count \in {-1, Cardinality(Held)}

\* An iterator shows every item once and holds the lock of its bucket only.
IteratorExact ==
  /\ locked = IF it = Null THEN {} ELSE {it.index}
  /\ it # Null =>
       visited \o SubSeq(buckets[it.index], it.item, Len(buckets[it.index]))
         = FlattenSeq([i \in 1 .. it.index + 1 |-> buckets[i - 1]])

\* The array is the sequence that was pushed, in the room it has.
ArrayIsSequence ==
  /\ array.valid = Len(list) /\ array.valid <= array.allocated
  /\ DOMAIN array.data = 0 .. array.allocated - 1
  /\ \A i \in 1 .. Len(list) : array.data[i - 1] = list[i]

\* Every answer is that of the abstract container (hash_table.c:503, 554,
\* utils-dym-array.c:228, 272, 336), and so is every state.
ContainersSound ==
  TableIsMap /\ IteratorExact /\ ArrayIsSequence /\ result = expected
=============================================================================

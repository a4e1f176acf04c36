----------------------------- MODULE SwissTable -----------------------------
(***************************************************************************)
(* phmap::flat_hash_map (parallel_hashmap/phmap.h), the hash table of the  *)
(* maps and sets of jps, mmo, slg and leveldb/cluster: a byte of control   *)
(* per slot, looked at in groups of Width, and deleted slots that keep a   *)
(* search going until the table is built anew.                             *)
(***************************************************************************)
EXTENDS Integers, Functions, FiniteSets, FiniteSetsExt, Folds

CONSTANTS
  Key,
  Values,      \* key -> the values it may have
  HashOf,      \* key -> [h1, h2], the upper bits of its hash and the lower seven
  Width,       \* Group::kWidth, 8 or 16
  MaxCapacity  \* bound

VARIABLE table  \* [capacity, ctrl, slots, size, growth_left]

kEmpty == -128
kDeleted == -2
kSentinel == -1
NotThere == -1
IsFull(c) == c >= 0

\* For 8 and 16 what the code has; for the narrower groups of small instances, too, a
\* table as wide as a group keeps a slot free.
CapacityToGrowth(n) == n - (IF n >= Width - 1 /\ n < 8 THEN 1 ELSE n \div 8)
GrowthToLowerboundCapacity(n) ==
  CHOOSE c \in n .. 2 * n + 1 : CapacityToGrowth(c) >= n /\ \A d \in n .. c - 1 : CapacityToGrowth(d) < n
NormalizeCapacity(n) == CHOOSE c \in {1, 3, 7, 15, 31, 63} : c >= n /\ c < 2 * n + 2 /\ (n = 0 => c = 1)

----------------------------------------------------------------------------
\* The control byte at place j: the first ones are cloned behind the sentinel, and what
\* lies behind the clones of a small table stays empty.
Byte(t, j) ==
  IF j = t.capacity THEN kSentinel
  ELSE IF j < t.capacity THEN t.ctrl[j]
  ELSE IF j <= 2 * t.capacity THEN t.ctrl[j - t.capacity - 1] ELSE kEmpty

\* The places of a group that begins at offset where the byte is one of these.
Match(t, offset, bytes) == {i \in 0 .. Width - 1 : Byte(t, offset + i) \in bytes}
MatchEmpty(t, offset) == Match(t, offset, {kEmpty})
MatchEmptyOrDeleted(t, offset) == Match(t, offset, {kEmpty, kDeleted})

\* probe_seq: where the n-th group of a search begins.
Offset(t, k, n) == (HashOf[k].h1 + Width * ((n * (n + 1)) \div 2)) % (t.capacity + 1)
Probes(t) == 0 .. t.capacity
Slot(t, offset, i) == (offset + i) % (t.capacity + 1)

\* The first group of the search for k that is one of these, by their offsets.
FirstGroup(t, k, isOne) ==
  LET n == CHOOSE m \in Probes(t) : isOne[Offset(t, k, m)] /\ \A l \in 0 .. m - 1 : ~isOne[Offset(t, k, l)]
  IN  Offset(t, k, n)

\* _find_key: the first group that has the key or an empty slot ends the search.
Hits(t, k, offset) ==
  {i \in Match(t, offset, {HashOf[k].h2}) : t.slots[Slot(t, offset, i)].key = k}
Ends(t, k, offset) == MatchEmpty(t, offset) # {} \/ Hits(t, k, offset) # {}
FindKey(t, k) ==
  LET offset == FirstGroup(t, k, [o \in Probes(t) |-> Ends(t, k, o)])
      hits == Hits(t, k, offset)
  IN  IF t.capacity = 0 \/ hits = {} THEN NotThere ELSE Slot(t, offset, Min(hits))

\* find_first_non_full.
FirstNonFull(t, k) ==
  LET offset == FirstGroup(t, k, [o \in Probes(t) |-> MatchEmptyOrDeleted(t, o) # {}])
  IN  Slot(t, offset, Min(MatchEmptyOrDeleted(t, offset)))

----------------------------------------------------------------------------
\* A table without slots, and initialize_slots.
NoSlots == [capacity |-> 0, ctrl |-> <<>>, slots |-> <<>>, size |-> 0, growth_left |-> 0]
NoSlot == [key |-> NotThere, value |-> NotThere]
Fresh(n, size) ==
  [capacity |-> n, ctrl |-> [i \in 0 .. n - 1 |-> kEmpty], slots |-> [i \in 0 .. n - 1 |-> NoSlot],
   size |-> size, growth_left |-> CapacityToGrowth(n) - size]

Fill(t, i, e) == [t EXCEPT !.ctrl[i] = HashOf[e.key].h2, !.slots[i] = e]
FullSlots(t) == {i \in 0 .. t.capacity - 1 : IsFull(t.ctrl[i])}

\* resize: what is there is put into new slots, in its order, without a search.
Resize(t, n) ==
  LET after[i \in 0 .. t.capacity] ==
        IF i = 0 THEN Fresh(n, t.size)
        ELSE IF ~IsFull(t.ctrl[i - 1]) THEN after[i - 1]
        ELSE Fill(after[i - 1], FirstNonFull(after[i - 1], t.slots[i - 1].key), t.slots[i - 1])
  IN  after[t.capacity]

\* drop_deletes_without_resize: deleted slots become empty, and what is there, marked as
\* deleted, moves to the first group of its search that has room; it may have to change
\* places with one that was not moved yet, which is then moved from the same slot.
DropDeletes(t) ==
  LET marked == [t EXCEPT !.ctrl = [i \in DOMAIN t.ctrl |-> IF IsFull(t.ctrl[i]) THEN kDeleted ELSE kEmpty]]
      from[i \in 0 .. t.capacity, now \in [DOMAIN t.ctrl -> {kEmpty, kDeleted} \cup {HashOf[k].h2 : k \in Key}],
           slots \in [DOMAIN t.slots -> Range(t.slots) \cup {NoSlot}]] ==
        LET u == [t EXCEPT !.ctrl = now, !.slots = slots]
            e == slots[i]
            to == FirstNonFull(u, e.key)
            group(p) == ((p - Offset(u, e.key, 0)) % (t.capacity + 1)) \div Width
            moved == Fill(u, to, e)
        IN  IF i = t.capacity THEN u
            ELSE IF now[i] # kDeleted THEN from[i + 1, now, slots]
            ELSE IF group(to) = group(i) THEN from[i + 1, Fill(u, i, e).ctrl, slots]
            ELSE IF now[to] = kEmpty THEN from[i + 1, [moved.ctrl EXCEPT ![i] = kEmpty], moved.slots]
            ELSE from[i, moved.ctrl, [moved.slots EXCEPT ![i] = slots[to]]]
      done == from[0, marked.ctrl, marked.slots]
  IN  [done EXCEPT !.growth_left = CapacityToGrowth(t.capacity) - t.size]

\* rehash_and_grow_if_necessary.
Grown(t) ==
  IF t.capacity = 0 THEN Resize(t, 1)
  ELSE IF t.size <= CapacityToGrowth(t.capacity) \div 2 THEN DropDeletes(t)
  ELSE Resize(t, 2 * t.capacity + 1)

\* prepare_insert for a key that is not there, first what it does to make room.
Prepared(t, k) ==
  LET i == FirstNonFull(t, k)
  IN  IF t.capacity = 0 \/ (t.growth_left = 0 /\ Byte(t, i) # kDeleted) THEN Grown(t) ELSE t
Inserted(t, k, v) ==
  LET i == FirstNonFull(t, k)
  IN  Fill([t EXCEPT !.size = @ + 1, !.growth_left = IF t.ctrl[i] = kEmpty THEN @ - 1 ELSE @], i, [key |-> k, value |-> v])

\* Mutant: a slot that is given free is always empty.
ErasedEmpty(t, i) ==
  [t EXCEPT !.size = @ - 1, !.ctrl[i] = kEmpty, !.slots[i] = NoSlot, !.growth_left = @ + 1]

\* erase_meta_only: the slot becomes empty only if no group around it was ever full.
Erased(t, i) ==
  LET before == MatchEmpty(t, (i - Width) % (t.capacity + 1))
      after == MatchEmpty(t, i)
      was_never_full == before # {} /\ after # {} /\ Min(after) + (Width - 1 - Max(before)) < Width
  IN  [t EXCEPT !.size = @ - 1, !.ctrl[i] = IF was_never_full THEN kEmpty ELSE kDeleted, !.slots[i] = NoSlot,
                !.growth_left = IF was_never_full THEN @ + 1 ELSE @]

----------------------------------------------------------------------------
\* A table is made without slots, or with room for a number of elements.
Init == table \in {NoSlots} \cup {Fresh(NormalizeCapacity(n), 0) : n \in 1 .. MaxCapacity}

\* emplace, try_emplace and operator[]; a key that is there keeps its value.
Insert(k, v) ==
  /\ FindKey(table, k) = NotThere
  /\ \E p \in {Prepared(table, k)} : p.capacity <= MaxCapacity /\ table' = Inserted(p, k, v)

InsertOrAssign(k, v) ==
  \E i \in {FindKey(table, k)} \ {NotThere} : table' = [table EXCEPT !.slots[i].value = v]

Erase(k) ==
  \E i \in {FindKey(table, k)} \ {NotThere} : table' = Erased(table, i)

\* emplace_single: an element that is there is erased instead. It has the steps of emplace
\* and of erase, which Next takes through it.
EmplaceSingle(k, v) == Insert(k, v) \/ Erase(k)

\* Elements are erased while an iterator goes over the slots.
EraseWhile(v) ==
  LET gone == {i \in FullSlots(table) : table.slots[i].value = v}
  IN  Cardinality(gone) > 1 /\ table' = FoldSet(LAMBDA i, t : Erased(t, i), table, gone)

Clear ==
  /\ table.size > 0
  /\ table' = Fresh(table.capacity, 0)

\* rehash(n) for n > 0, and reserve(n).
Rehash(n) ==
  LET m == NormalizeCapacity(Max({n, table.size}))
  IN  m \in table.capacity + 1 .. MaxCapacity /\ table' = Resize(table, m)
Reserve(n) == Rehash(GrowthToLowerboundCapacity(n))

\* A copy (operator=): the same capacity, the elements in their order.
Copy ==
  /\ table.size > 0
  /\ table' = Resize(table, table.capacity)

\* The elements are moved to another table, and this one is left without slots; and
\* rehash(0) of an empty table, which gives its slots back.
Moved ==
  /\ table.size > 0
  /\ table' = NoSlots
Released ==
  /\ table.size = 0 /\ table.capacity > 0
  /\ table' = NoSlots

Next ==
  \/ \E k \in Key : \E v \in Values[k] : EmplaceSingle(k, v) \/ InsertOrAssign(k, v)
  \/ \E v \in UNION Range(Values) : EraseWhile(v)
  \/ \E n \in 1 .. MaxCapacity : Reserve(n)
  \/ Clear \/ Copy \/ Moved \/ Released

Spec == Init /\ [][Next]_table

----------------------------------------------------------------------------
TypeOK ==
  /\ table.capacity \in {0, 1, 3, 7, 15} /\ table.size \in 0 .. table.capacity
  /\ table.growth_left \in 0 .. table.capacity

Content ==
  [k \in {table.slots[i].key : i \in FullSlots(table)} |->
     table.slots[CHOOSE i \in FullSlots(table) : table.slots[i].key = k].value]

\* Every search ends, though deleted slots pile up and a table may be full of them; it
\* finds every key that is there, once, and no other; and what is counted is what is
\* there: a slot is left wherever growth_left says so.
SearchesEnd ==
  /\ \A k \in Key :
       /\ table.capacity > 0 => \E n \in Probes(table) : Ends(table, k, Offset(table, k, n))
       /\ (FindKey(table, k) # NotThere) <=> (k \in DOMAIN Content)
  /\ Cardinality(FullSlots(table)) = table.size /\ Cardinality(DOMAIN Content) = table.size
  /\ \A i \in FullSlots(table) : table.ctrl[i] = HashOf[table.slots[i].key].h2
  /\ table.growth_left = IF table.capacity = 0 THEN 0
       ELSE CapacityToGrowth(table.capacity) - Cardinality({i \in DOMAIN table.ctrl : table.ctrl[i] # kEmpty})

IsDictionary == INSTANCE Dictionary WITH Value <- UNION Range(Values), content <- Content
ImplementsDictionary == IsDictionary!Spec
=============================================================================

----------------------------- MODULE ArrayHash -----------------------------
(***************************************************************************)
(* tsl::array_hash (tsl/array-hash/array_hash.h): buckets that are arrays  *)
(* of keys, each with the place of its value in m_values, where the values *)
(* of erased keys linger until there are too many of them.  The operations *)
(* are operators on a table; HTrie uses them on the tables of its leaves.  *)
(***************************************************************************)
EXTENDS Integers, Sequences, SequencesExt, Functions, FiniteSets

CONSTANTS
  HashOf,   \* key -> its hash
  Load,     \* m_max_load_factor
  MaxIndex, \* max_size(): the largest IndexSizeT
  Key,
  Values,     \* key -> the values it may have
  MaxBuckets  \* bound on a map

VARIABLE hash \* the map

BucketCount(h) == Len(h.buckets)
\* power_of_two_growth_policy<4>.
RoundedUp(n) == IF n = 0 THEN 0 ELSE CHOOSE p \in {1, 2, 4, 8, 16, 32} : p >= n /\ p < 2 * n
NextCount(h) == 4 * (IF BucketCount(h) = 0 THEN 1 ELSE BucketCount(h))
BucketFor(k, n) == 1 + (HashOf[k] % n)

\* A table of so many buckets; the threshold of the load is set with their number.
WithBuckets(n) ==
  [buckets |-> [b \in 1 .. RoundedUp(n) |-> <<>>], values |-> <<>>, nb |-> 0, threshold |-> RoundedUp(n) * Load]

----------------------------------------------------------------------------
\* find_or_end_of_bucket: the entry of k, none or one.  Without buckets there is an empty one.
BucketOf(h, k) == IF BucketCount(h) = 0 THEN <<>> ELSE h.buckets[BucketFor(k, BucketCount(h))]
EntryOf(h, k) == SelectSeq(BucketOf(h, k), LAMBDA e : e.key = k)
Has(h, k) == EntryOf(h, k) # <<>>
At(h, k) == h.values[Head(EntryOf(h, k)).index]

\* What an iterator meets, bucket after bucket.
Elements(h) == FlattenSeq(h.buckets)
Keys(h) == {e.key : e \in ToSet(Elements(h))}

\* should_clear_old_erased_values and clear_old_erased_values: the values move together,
\* in the order of the buckets, and every entry gets the new place of its value.
ShouldClear(h, tenths) == h.values # <<>> /\ 10 * h.nb < tenths * Len(h.values)
Placed(buckets) ==
  [b \in DOMAIN buckets |->
     [i \in DOMAIN buckets[b] |->
        [buckets[b][i] EXCEPT !.index = Len(FlattenSeq(SubSeq(buckets, 1, b - 1))) + i]]]
Cleared(h) ==
  IF h.nb = Len(h.values) THEN h
  ELSE [h EXCEPT !.buckets = Placed(h.buckets),
                 !.values = [i \in 1 .. h.nb |-> h.values[Elements(h)[i].index]]]
ClearedBelow(h, tenths) == IF ShouldClear(h, tenths) THEN Cleared(h) ELSE h

\* rehash_impl, which nothing but another number of buckets makes do anything.
Rehashed(h, count) ==
  LET n == RoundedUp(count)
      c == ClearedBelow(h, 9)
      inNew(b) == SelectSeq(Elements(c), LAMBDA e : BucketFor(e.key, n) = b)
  IN  IF n = BucketCount(h) THEN h
      ELSE [c EXCEPT !.buckets = [b \in 1 .. n |-> inNew(b)], !.threshold = n * Load]

\* emplace: a key that is there keeps its value.  emplace_impl makes room in m_values if
\* no index is left; where that frees nothing it throws, though the buckets have grown.
Grown(h) == IF h.nb >= h.threshold THEN Rehashed(h, NextCount(h)) ELSE h
Roomy(h) == IF Len(h.values) >= MaxIndex THEN Cleared(h) ELSE h
Emplaced(h, k, v) ==
  LET r == Roomy(Grown(h))
      b == BucketFor(k, BucketCount(r))
  IN  IF Has(h, k) THEN h
      ELSE IF Len(r.values) >= MaxIndex THEN r
      ELSE [r EXCEPT !.values = Append(@, v), !.nb = @ + 1,
                     !.buckets[b] = Append(@, [key |-> k, index |-> Len(r.values) + 1])]
Assigned(h, k, v) == [h EXCEPT !.values[Head(EntryOf(h, k)).index] = v]

\* erase, of a key or at a place: the values that linger are looked at before, and a key
\* that is not there has them looked at, too.
Unlisted(h, k) ==
  IF ~Has(h, k) THEN h
  ELSE [h EXCEPT !.buckets[BucketFor(k, BucketCount(h))] = SelectSeq(@, LAMBDA e : e.key # k), !.nb = @ - 1]
Erased(h, k) == Unlisted(ClearedBelow(h, 6), k)

\* erase of the entries first to last - 1 of an iteration, who are looked at after.
ErasedRange(h, first, last) ==
  ClearedBelow(FoldLeft(LAMBDA g, e : Unlisted(g, e.key), h, SubSeq(Elements(h), first, last - 1)), 6)

Emptied(h) == [h EXCEPT !.buckets = [b \in DOMAIN @ |-> <<>>], !.values = <<>>, !.nb = 0]
\* rehash and shrink_to_fit.
Needed(h) == (h.nb + Load - 1) \div Load
Resized(h, count) == Rehashed(h, IF count < Needed(h) THEN Needed(h) ELSE count)
Shrunk(h) == Rehashed(Cleared(h), Needed(h))

\* serialize and deserialize: each bucket with its values, without those that linger.  The
\* threshold is set before there are buckets: the next key that is new makes them grow.
Reloaded(h) == [Cleared(h) EXCEPT !.threshold = 0]

----------------------------------------------------------------------------
\* tsl::array_map (tsl/array-hash/array_map.h): the calls of a map that is such a table.
Init == hash = WithBuckets(0)

\* insert, emplace and operator[]; the last makes a value to be assigned.
Insert(k, v) == hash' = Emplaced(hash, k, v)
\* insert_or_assign.
InsertOrAssign(k, v) == hash' = IF Has(hash, k) THEN Assigned(hash, k, v) ELSE Emplaced(hash, k, v)
Erase(k) == hash' = Erased(hash, k)
EraseRange(first, last) == first < last /\ last <= hash.nb + 1 /\ hash' = ErasedRange(hash, first, last)
Clear == hash' = Emptied(hash)
Rehash(n) == hash' = Resized(hash, n)
ShrinkToFit == hash' = Shrunk(hash)
\* Written and read back into an empty map that keeps buckets.
Reload == BucketCount(hash) > 0 /\ hash' = Reloaded(hash)

Next ==
  /\ \/ \E k \in Key : Erase(k) \/ \E v \in Values[k] : Insert(k, v) \/ InsertOrAssign(k, v)
     \/ \E first, last \in 1 .. Cardinality(Key) + 1 : EraseRange(first, last)
     \/ \E n \in 1 .. MaxBuckets : Rehash(n)
     \/ Clear \/ ShrinkToFit \/ Reload
  /\ BucketCount(hash') <= MaxBuckets

Spec == Init /\ [][Next]_hash

----------------------------------------------------------------------------
TypeOK ==
  /\ hash.values \in Seq(UNION Range(Values)) /\ Len(hash.values) <= MaxIndex
  /\ hash.nb \in 0 .. Cardinality(Key) /\ hash.threshold \in 0 .. MaxBuckets * Load
  /\ Keys(hash) \subseteq Key

\* Every key is found in the bucket where it is, every entry has a value of its own, and
\* what is counted is what is there, however many values linger.
EntriesHaveValues(h) ==
  LET all == Elements(h)
  IN  /\ h.nb = Len(all)
      /\ \A i \in DOMAIN all :
           /\ all[i].index \in DOMAIN h.values /\ EntryOf(h, all[i].key) = <<all[i]>>
           /\ \A j \in DOMAIN all : all[i].index = all[j].index => i = j
FindsWhatItHas == EntriesHaveValues(hash)

IsDictionary == INSTANCE Dictionary WITH
  Value <- UNION Range(Values), content <- [k \in Keys(hash) |-> At(hash, k)]
ImplementsDictionary == IsDictionary!Spec
=============================================================================

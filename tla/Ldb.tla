-------------------------------- MODULE Ldb ---------------------------------
(***************************************************************************)
(* Hashes in leveldb (leveldb/ldb/db.lua, lleveldb.cc): a field of a key   *)
(* is a row of its own, and the keys, or the fields of a key, are read a   *)
(* page at a time with SCAN and HSCAN while others write.  leveldb itself, *)
(* a sorted map, is external.                                              *)
(***************************************************************************)
EXTENDS Integers, Sequences, FiniteSets

CONSTANTS
  HashKey, HashField,  \* ordered as the store orders what stands for them
  Wanted,      \* the items that match the pattern
  Count,       \* the items of a page
  MaxWrites    \* bound on writes during a scan

ASSUME StoreAssumption ==
  /\ HashKey \subseteq Nat \ {0} /\ IsFiniteSet(HashKey)
  /\ HashField \subseteq Nat \ {0} /\ IsFiniteSet(HashField)
  /\ Count \in Nat \ {0}

VARIABLES
  rows,    \* the pairs of a key and a field that have a value
  hash,    \* the key whose fields are scanned, or 0 for a scan of the keys
  cursor,  \* where the next page starts: a row, AtFirst, or AtLast when all is read
  found,   \* the items of the pages so far
  stays,   \* the rows that were there ever since the scan began
  writes
storeVars == <<rows, hash, cursor, found, stays, writes>>

AtFirst == <<0, 0>>
AtLast == <<0, 1>>
Before(r, s) == r[1] < s[1] \/ (r[1] = s[1] /\ r[2] < s[2])

ItemOf(h, r) == IF h = 0 THEN r[1] ELSE r[2]
Matching(h, rs) == {r \in rs : (h = 0 \/ r[1] = h) /\ ItemOf(h, r) \in Wanted}
Items(h, rs) == {ItemOf(h, r) : r \in Matching(h, rs)}

StoreInit ==
  /\ rows \in SUBSET (HashKey \X HashField)
  /\ hash \in HashKey \cup {0}
  /\ cursor = AtFirst /\ found = <<>> /\ writes = 0
  /\ stays = rows

----------------------------------------------------------------------------
\* The rows a page looks at: db_iter from the cursor on.
Ahead == {r \in Matching(hash, rows) : ~Before(r, cursor)}

\* The items of these rows in order: a key counts once for all its fields.
InOrder == LET items == {ItemOf(hash, r) : r \in Ahead}
           IN  [i \in 1 .. Cardinality(items) |->
                  CHOOSE x \in items : Cardinality({y \in items : y < x}) = i - 1]

\* Mutant: the cursor is the last row read.
CursorOfLast(n) ==
  CHOOSE r \in Ahead :
    ItemOf(hash, r) = InOrder[n] /\ \A s \in Ahead : ItemOf(hash, s) = InOrder[n] => ~Before(s, r)

\* Where the page after one of n items starts: the first row of the next item.
CursorAfter(n) ==
  CHOOSE r \in Ahead :
    ItemOf(hash, r) = InOrder[n + 1]
      /\ \A s \in Ahead : ItemOf(hash, s) = InOrder[n + 1] => ~Before(s, r)

\* scan and hscan: Count items, and one more row for the cursor if there are more.
Page ==
  /\ cursor # AtLast
  /\ LET items == InOrder
     IN  IF Len(items) > Count
         THEN found' = found \o SubSeq(items, 1, Count) /\ cursor' = CursorAfter(Count)
         ELSE found' = found \o items /\ cursor' = AtLast
  /\ UNCHANGED <<rows, hash, stays, writes>>

\* M.hset and M.hdel, by a callback of a traversal or between two pages.
Hset(k, f) ==
  /\ cursor # AtLast /\ writes < MaxWrites
  /\ rows' = rows \cup {<<k, f>>}
  /\ writes' = writes + 1
  /\ UNCHANGED <<hash, cursor, found, stays>>
Hdel(k, f) ==
  /\ cursor # AtLast /\ writes < MaxWrites
  /\ rows' = rows \ {<<k, f>>}
  /\ stays' = stays \ {<<k, f>>}
  /\ writes' = writes + 1
  /\ UNCHANGED <<hash, cursor, found>>

StoreNext == Page \/ \E k \in HashKey, f \in HashField : Hset(k, f) \/ Hdel(k, f)

StoreSpec == StoreInit /\ [][StoreNext]_storeVars

----------------------------------------------------------------------------
StoreTypeOK ==
  /\ rows \subseteq HashKey \X HashField /\ hash \in HashKey \cup {0}
  /\ cursor \in (HashKey \X HashField) \cup {AtFirst, AtLast}
  /\ found \in Seq(HashKey \cup HashField) /\ stays \subseteq rows

\* Whatever is written between the pages, a scan ends with everything of which a row
\* was there all the time, and never tells of anything twice.  (A key may be
\* missed that lost the field the cursor stands on and found a smaller one.)
ScanFindsAll ==
  /\ \A i, j \in DOMAIN found : i # j => found[i] # found[j]
  /\ cursor = AtLast => Items(hash, stays) \subseteq {found[i] : i \in DOMAIN found}
=============================================================================

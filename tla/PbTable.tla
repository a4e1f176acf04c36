------------------------------ MODULE PbTable ------------------------------
(***************************************************************************)
(* pb_Table (pb/c/pb.h): the hash table behind the types, fields and       *)
(* oneofs of a schema.  It has no buckets: a key that finds its place      *)
(* taken goes to a free cell, and the cells of keys that want the same     *)
(* place are chained by distances.  Cells are emptied without leaving      *)
(* their chain.  Cell 0 is for key 0.                                      *)
(***************************************************************************)
EXTENDS Integers, FiniteSetsExt, Functions

CONSTANTS
  Key,
  ValueOf,  \* [Key -> values]: what a caller sets a key to
  MaxSize   \* the bound on the size of the table

VARIABLE table

NoValue == 0
NoCell == -1
MinHashTableSize == 8
NoEntry == [key |-> 0, next |-> 0, value |-> NoValue]
EmptyTable == [size |-> 0, lastfree |-> 0, has_zero |-> FALSE, hash |-> <<>>]

\* pbT_hash, where a key wants to be: of the factor 2654435761 the last 8 bits tell, up to
\* a size of 256.
Main(t, k) == LET h == (k * 177) % t.size IN IF k # 0 /\ h = 0 THEN 1 ELSE h
Following(t, i) == i + t.hash[i].next

\* pb_gettable: along the chain, at most over all cells.
Get(t, k) ==
  LET from[i \in DOMAIN t.hash, n \in 0 .. t.size] ==
        IF t.hash[i].key = k THEN i
        ELSE IF t.hash[i].next = 0 \/ n = 0 THEN NoCell ELSE from[Following(t, i), n - 1]
  IN  IF t.size = 0 THEN NoCell
      ELSE IF k = 0 THEN IF t.has_zero THEN 0 ELSE NoCell
      ELSE from[Main(t, k), t.size]

----------------------------------------------------------------------------
Free(t) == {i \in 1 .. t.lastfree - 1 : t.hash[i].key = 0 /\ t.hash[i].next = 0}
Taken(t, k, i) == [t EXCEPT !.hash[i] = [@ EXCEPT !.key = k, !.value = NoValue]]

\* The cell that mp comes after in the chain of cell on.
Before(t, on, mp) ==
  LET from[i \in DOMAIN t.hash] == IF Following(t, i) = mp THEN i ELSE from[Following(t, i)] IN from[on]

\* A distance that was counted from one cell is counted from another.
From(distance, old, new) == IF distance = 0 THEN 0 ELSE old + distance - new

\* The new key goes to the free cell f, second in the chain of mp.
Linked(t, k, mp, f) ==
  [t EXCEPT !.lastfree = f, !.hash[f] = [NoEntry EXCEPT !.key = k, !.next = From(t.hash[mp].next, mp, f)],
            !.hash[mp].next = f - mp]
\* What is in mp belongs to another chain: it moves to f, and mp is for the new key.
Moved(t, k, mp, f, before) ==
  [t EXCEPT !.lastfree = f, !.hash[before].next = f - before,
            !.hash[f] = [t.hash[mp] EXCEPT !.next = From(@, mp, f)],
            !.hash[mp] = [NoEntry EXCEPT !.key = k]]

\* pbT_newkey in a table that has room.
Placed(t, k) ==
  LET mp == Main(t, k)
      on == Main(t, t.hash[mp].key)
      f == Max(Free(t))
  IN  IF k = 0 THEN [Taken(t, k, 0) EXCEPT !.has_zero = TRUE]
      ELSE IF t.hash[mp].key = 0 THEN Taken(t, k, mp)
      ELSE IF on # mp THEN Moved(t, k, mp, f, Before(t, on, mp))
      ELSE Linked(t, k, mp, f)

\* pb_resizetable: every cell's key is put into the new table, an empty cell's too, which
\* are all taken for key 0.
NewSize(n) == Min({s \in {8, 16, 32, 64} : s >= n})
Resized(t, n) ==
  LET size == NewSize(n)
      new == [t EXCEPT !.size = size, !.lastfree = size, !.hash = [i \in 0 .. size - 1 |-> NoEntry]]
      after[i \in 0 .. t.size] ==
        IF i = 0 THEN new
        ELSE LET u == Placed(after[i - 1], t.hash[i - 1].key)
             IN  [u EXCEPT !.hash[Get(u, t.hash[i - 1].key)].value = t.hash[i - 1].value]
  IN  after[t.size]

\* pbT_newkey.
HasRoom(t, k) == k = 0 \/ t.hash[Main(t, k)].key = 0 \/ Free(t) # {}
NewKey(t, k) ==
  IF t.size = 0 \/ ~HasRoom(t, k) THEN Placed(Resized(t, 2 * t.size), k) ELSE Placed(t, k)
\* pb_settable.
SetTable(t, k) == IF Get(t, k) # NoCell THEN t ELSE NewKey(t, k)

\* pb_nextentry, from the first entry to the last.
Entries(t) == {i \in DOMAIN t.hash : IF i = 0 THEN t.has_zero ELSE t.hash[i].key # 0}

----------------------------------------------------------------------------
Init == table = EmptyTable

\* A key is given its value (pb_newtype, pb_newfield, pbL_loadType).
Set(k) ==
  LET t == SetTable(table, k)
  IN  t.size <= MaxSize /\ table' = [t EXCEPT !.hash[Get(t, k)].value = ValueOf[k]]

\* pb_deltype and pb_delfield empty the cell of a key.
Remove(k) ==
  LET i == Get(table, k)
  IN  i # NoCell /\ table' = [table EXCEPT !.hash[i].key = 0, !.hash[i].value = NoValue]

\* pb_freetable.
FreeTable == table.size > 0 /\ table' = EmptyTable

Next == FreeTable \/ \E k \in Key : Set(k) \/ Remove(k)
Spec == Init /\ [][Next]_table

----------------------------------------------------------------------------
TypeOK ==
  /\ table.size \in {0, 8, 16, 32, 64} /\ DOMAIN table.hash = 0 .. table.size - 1
  /\ table.lastfree \in 0 .. table.size /\ table.has_zero \in BOOLEAN
  /\ \A i \in DOMAIN table.hash : table.hash[i].key \in Key \cup {0} /\ (i + table.hash[i].next) \in DOMAIN table.hash

\* The chain from cell i comes to an end.
Ends(t, i) ==
  LET within[j \in DOMAIN t.hash, n \in 0 .. t.size] ==
        t.hash[j].next = 0 \/ (n > 0 /\ within[Following(t, j), n - 1])
  IN  within[i, t.size]

\* Every chain ends, so that a search for a key that is not there ends too, chains never
\* meet, and what the iterator meets is what a search finds, though cells are emptied in
\* the middle of chains, filled for another chain and moved away.
ChainsHold ==
  /\ \A i \in DOMAIN table.hash : Ends(table, i)
  /\ \A i \in Entries(table) : Get(table, table.hash[i].key) = i
  /\ \A i, j \in DOMAIN table.hash :
       i # j /\ table.hash[i].next # 0 /\ table.hash[j].next # 0 => Following(table, i) # Following(table, j)
  /\ \A i \in DOMAIN table.hash : table.hash[i].next # 0 => Following(table, i) >= table.lastfree

\* Key 0 aside: it loses its value in a table that grows when cells were emptied in it.
Content == [k \in {k \in Key \ {0} : Get(table, k) # NoCell} |-> table.hash[Get(table, k)].value]
IsDictionary == INSTANCE Dictionary WITH Value <- Range(ValueOf), content <- Content
ImplementsDictionary == IsDictionary!Spec
=============================================================================

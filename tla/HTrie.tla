------------------------------- MODULE HTrie -------------------------------
(***************************************************************************)
(* tsl::htrie_map (tsl/htrie_hash.h) as trie/hat/ltrie.cc uses it: a trie  *)
(* whose leaves are hash tables of what is left of the keys (ArrayHash). A *)
(* table with too many keys bursts into a trie node over smaller tables.   *)
(* A node is known by the characters on the way to it.                     *)
(***************************************************************************)
EXTENDS Integers, Sequences, SequencesExt, FiniteSetsExt, TLC

CONSTANTS
  Char,        \* numbers
  Key,         \* sequences of characters, with all their ends
  Values,      \* key -> the values it may have
  HashOf, Load, MaxIndex,
  InitBuckets, \* HASH_NODE_DEFAULT_INIT_BUCKETS_COUNT, 32
  Burst,       \* m_burst_threshold, at least 4 in the code
  MaxBuckets   \* bound on the buckets of a table that is written and read back

VARIABLES
  node,    \* the way to a node -> the node
  nb       \* m_nb_elements
trieVars == <<node, nb>>

\* The operators on a table; the map that ArrayHash makes of one is not used.
Table == INSTANCE ArrayHash WITH hash <- nb

None == 0
Hash(table) == [kind |-> "hash", table |-> table, value |-> None]
Trie(value) == [kind |-> "trie", table |-> Table!WithBuckets(0), value |-> value]
NewTable(n) == Table!WithBuckets(n)

Size(N, p) == IF N[p].kind = "hash" THEN N[p].table.nb ELSE IF N[p].value # None THEN 1 ELSE 0
Rest(k, p) == SubSeq(k, Len(p) + 1, Len(k))
Children(N, p) == {c \in Char : Append(p, c) \in DOMAIN N}
Without(N, paths) == [p \in DOMAIN N \ paths |-> N[p]]

\* The node where the way along k ends, with or without more of k.
Reached(N, k) == SubSeq(k, 1, Max({i \in 0 .. Len(k) : SubSeq(k, 1, i) \in DOMAIN N}))

----------------------------------------------------------------------------
\* find_impl.
Find(N, k) ==
  LET p == Reached(N, k)
  IN  IF DOMAIN N = {} THEN None
      ELSE IF N[p].kind = "hash" THEN IF Table!Has(N[p].table, Rest(k, p)) THEN Table!At(N[p].table, Rest(k, p)) ELSE None
      ELSE IF p = k THEN N[p].value ELSE None

\* What the walk reads at a node.
Read(N, p) == N[p].kind = "hash" \/ N[p].value # None
FirstChild(N, p) == Append(p, Min(Children(N, p)))

\* most_left_descendant_value_trie_node, and the table under it.
MostLeft(N, start) ==
  LET from[p \in DOMAIN N] == IF Read(N, p) THEN p ELSE from[FirstChild(N, p)]
  IN  from[start]

\* set_next_node_ascending and cend: what comes after all that is below p; <<>> for the end,
\* as the root never comes after anything.
End == <<>>
NextAscending(N, p) ==
  LET above == {i \in 1 .. Len(p) : \E c \in Children(N, SubSeq(p, 1, i - 1)) : c > p[i]}
      a == SubSeq(p, 1, Max(above) - 1)
  IN  IF above = {} THEN End ELSE MostLeft(N, Append(a, Min({c \in Children(N, a) : c > p[Len(a) + 1]})))

\* operator++, over tables as a whole.
Following(N, p) ==
  IF N[p].kind = "trie" /\ Children(N, p) # {} THEN MostLeft(N, FirstChild(N, p)) ELSE NextAscending(N, p)

\* The nodes that are read from the first below p on, up to what comes after p.
Walk(N, p) ==
  LET from[q \in DOMAIN N] ==
        LET next == Following(N, q) IN <<q>> \o (IF next = NextAscending(N, p) THEN <<>> ELSE from[next])
  IN  from[MostLeft(N, p)]

\* The keys that the iterator makes at a node.
KeysAt(N, p) ==
  IF N[p].kind = "trie" THEN <<p>>
  ELSE LET all == Table!Elements(N[p].table) IN [i \in DOMAIN all |-> p \o all[i].key]
KeysOf(N, walk) == FlattenSeq([i \in DOMAIN walk |-> KeysAt(N, walk[i])])

\* equal_prefix_range: from the node of the prefix on, or what fits in the table above it.
PrefixRange(N, pre) ==
  LET p == Reached(N, pre)
  IN  IF DOMAIN N = {} \/ (p # pre /\ N[p].kind = "trie") THEN <<>>
      ELSE IF p # pre THEN SelectSeq(KeysAt(N, p), LAMBDA k : IsPrefix(pre, k))
      ELSE KeysOf(N, Walk(N, p))

\* longest_prefix_impl: in the table where the way ends, or above it.
LongestPrefix(N, s) ==
  LET p == Reached(N, s)
      inTable == {k \in {p \o SubSeq(s, Len(p) + 1, i) : i \in Len(p) .. Len(s)} :
                    N[p].kind = "hash" /\ Table!Has(N[p].table, Rest(k, p))}
      above == {q \in DOMAIN N : IsPrefix(q, p) /\ N[q].value # None}
      longest(S) == CHOOSE k \in S : \A l \in S : Len(l) <= Len(k)
  IN  IF DOMAIN N = {} THEN {}
      ELSE IF inTable # {} THEN {longest(inTable)}
      ELSE IF above # {} THEN {longest(above)} ELSE {}

----------------------------------------------------------------------------
\* burst: a trie node over tables by the first character, each with buckets for as many.
Bursted(N, p) ==
  LET all == Table!Elements(N[p].table)
      value(e) == N[p].table.values[e.index]
      empty == SelectSeq(all, LAMBDA e : e.key = <<>>)
      of(c) == SelectSeq(all, LAMBDA e : e.key # <<>> /\ e.key[1] = c)
      buckets(c) == (Len(of(c)) + InitBuckets \div 2 + Load - 1) \div Load
      table(c) == FoldLeft(LAMBDA t, e : Table!Emplaced(t, Tail(e.key), value(e)), NewTable(buckets(c)), of(c))
  IN  (p :> Trie(IF empty = <<>> THEN None ELSE value(empty[1])))
        @@ [q \in {Append(p, c) : c \in {d \in Char : of(d) # <<>>}} |-> Hash(table(Last(q)))]
        @@ N

\* insert_impl; the table is looked at before it is known whether the key is there, and may
\* burst more than once.
Inserted(N, k, v) ==
  LET from[i \in 0 .. Len(k) + 1] ==
        IF i = 0 THEN N
        ELSE LET M == from[i - 1] p == Reached(M, k)
             IN  IF M[p].kind = "hash" /\ M[p].table.nb >= Burst THEN Bursted(M, p) ELSE M
      M == from[Len(k) + 1]
      p == Reached(M, k)
      below == SubSeq(k, 1, Len(p) + 1)
      added(t, path) == Hash(Table!Emplaced(t, Rest(k, path), v))
  IN  IF DOMAIN N = {} THEN (<<>> :> added(NewTable(InitBuckets), <<>>))
      ELSE IF M[p].kind = "hash" THEN [M EXCEPT ![p] = added(@.table, p)]
      ELSE IF p # k THEN (below :> added(NewTable(InitBuckets), below)) @@ M
      ELSE IF M[p].value # None THEN M ELSE [M EXCEPT ![p].value = v]

\* The value that operator[] finds is assigned.
Assigned(N, k, v) ==
  LET p == Reached(N, k)
  IN  IF N[p].kind = "trie" THEN [N EXCEPT ![p].value = v]
      ELSE [N EXCEPT ![p].table = Table!Assigned(@, Rest(k, p), v)]

\* clear_empty_nodes: the empty node at p goes, and with it those above that have nothing else.
ClearEmpty(N, p) ==
  LET stays == {i \in 0 .. Len(p) - 1 :
                  N[SubSeq(p, 1, i)].value # None \/ Cardinality(Children(N, SubSeq(p, 1, i))) > 1}
      from == IF stays = {} THEN 0 ELSE Max(stays) + 1
  IN  Without(N, {SubSeq(p, 1, i) : i \in from .. Len(p)})

\* erase of an iterator.
Erased(N, k) ==
  LET p == Reached(N, k)
      M == IF N[p].kind = "trie" THEN [N EXCEPT ![p].value = None]
           ELSE [N EXCEPT ![p].table = Table!Erased(@, Rest(k, p))]
  IN  IF Size(M, p) = 0 /\ Children(M, p) = {} THEN ClearEmpty(M, p) ELSE M

\* size_descendants.
Count(N, p) == FoldLeft(LAMBDA n, q : n + Size(N, q), 0, Walk(N, p))

\* erase_prefix: the node of the prefix with all that is below it, or what fits in the table
\* above it; with it how many keys were counted.
PrefixErased(N, pre) ==
  LET p == Reached(N, pre)
      gone == SelectSeq(Table!Elements(N[p].table), LAMBDA e : IsPrefix(Rest(pre, p), e.key))
      left == FoldLeft(LAMBDA t, e : Table!Erased(t, e.key), N[p].table, gone)
      fewer == [N EXCEPT ![p].table = left]
      rest == Without(N, {q \in DOMAIN N : IsPrefix(pre, q)})
      parent == Front(pre)
  IN  IF DOMAIN N = {} \/ (p # pre /\ N[p].kind = "trie") THEN [node |-> N, n |-> 0]
      ELSE IF p # pre
      THEN [node |-> IF left.nb = 0 THEN ClearEmpty(fewer, p) ELSE fewer, n |-> Len(gone)]
      ELSE IF N[p].kind = "hash" THEN [node |-> ClearEmpty(N, p), n |-> N[p].table.nb]
      ELSE [node |-> IF pre # <<>> /\ Size(rest, parent) = 0 /\ Children(rest, parent) = {}
                     THEN ClearEmpty(rest, parent) ELSE rest,
            n |-> Count(N, p)]

\* serialize and deserialize: the nodes of the walk, each with the trie nodes on its way.
Restored(N) ==
  LET walk == ToSet(Walk(N, <<>>))
  IN  [p \in UNION {{SubSeq(q, 1, i) : i \in 0 .. Len(q)} : q \in walk} |->
         IF p \notin walk THEN Trie(None)
         ELSE IF N[p].kind = "trie" THEN N[p] ELSE Hash(Table!Reloaded(N[p].table))]

----------------------------------------------------------------------------
Empty == [p \in {} |-> 0]
Init == node = Empty /\ nb = 0

\* set: trie[key] = v.
Set(k, v) ==
  IF Find(node, k) # None THEN node' = Assigned(node, k, v) /\ UNCHANGED nb
  ELSE node' = Inserted(node, k, v) /\ nb' = nb + 1

Erase(k) ==
  /\ Find(node, k) # None
  /\ node' = Erased(node, k) /\ nb' = nb - 1

ErasePrefix(pre) ==
  LET erased == PrefixErased(node, pre)
  IN  erased.n > 0 /\ node' = erased.node /\ nb' = nb - erased.n

\* seri and deseri: every key in the order of the walk, set in a new trie.
Reload ==
  /\ nb > 0
  /\ LET keys == KeysOf(node, Walk(node, <<>>))
     IN  node' = FoldLeft(LAMBDA N, k : Inserted(N, k, Find(node, k)), Empty, keys)
  /\ UNCHANGED nb

Restore ==
  /\ nb > 0 /\ \A p \in DOMAIN node : Table!BucketCount(node[p].table) <= MaxBuckets
  /\ node' = Restored(node) /\ UNCHANGED nb

Next ==
  \/ \E k \in Key : Erase(k) \/ ErasePrefix(k) \/ \E v \in Values[k] : Set(k, v)
  \/ Reload \/ Restore

Spec == Init /\ [][Next]_trieVars

----------------------------------------------------------------------------
Content == LET value == [k \in Key |-> Find(node, k)] IN [k \in {l \in Key : value[l] # None} |-> value[k]]

TypeOK ==
  /\ nb \in 0 .. Cardinality(Key)
  /\ \A p \in DOMAIN node :
       /\ p # <<>> => Front(p) \in DOMAIN node /\ node[Front(p)].kind = "trie"
       /\ node[p].kind = "hash" => Len(node[p].table.values) <= MaxIndex

\* No node is empty, as the code asserts wherever it walks; and whatever burst, moved or
\* went, the keys of every prefix are met once each, the longest prefix of a word is found,
\* and what is counted is what is there.
FindsPrefixes ==
  LET there == DOMAIN Content
  IN  /\ nb = Cardinality(there)
      /\ \A p \in DOMAIN node : Size(node, p) > 0 \/ Children(node, p) # {}
      /\ \A s \in Key :
           LET range == PrefixRange(node, s)
               found == {k \in there : IsPrefix(k, s)}
           IN  /\ ToSet(range) = {k \in there : IsPrefix(s, k)} /\ Len(range) = Cardinality(ToSet(range))
               /\ LongestPrefix(node, s) = {k \in found : \A l \in found : Len(l) <= Len(k)}

IsDictionary == INSTANCE Dictionary WITH
  Value <- UNION {Values[k] : k \in Key}, content <- Content
ImplementsDictionary == IsDictionary!Spec
=============================================================================

------------------------------- MODULE BTree -------------------------------
(***************************************************************************)
(* phmap::btree (parallel_hashmap/btree.h) for a set: nodes of NodeValues  *)
(* keys that know their parent and their place in it; the root's parent is *)
(* the leftmost leaf. Only the order of the keys matters, so after every   *)
(* call they are numbered 2, 4, 6 and so on, and new keys are odd.         *)
(***************************************************************************)
EXTENDS Integers, Sequences, SequencesExt, FiniteSetsExt

CONSTANTS
  NodeValues,  \* kNodeValues, at least 3
  MaxSize,     \* bound on the keys
  MaxHeight    \* no tree of so many keys is higher

VARIABLES
  tree,   \* root_, rightmost_, size_ and the nodes
  wrong   \* in what the last call was not as it should have been
btreeVars == <<tree, wrong>>

MinNodeValues == NodeValues \div 2
Part(s, first, last) == IF s = <<>> THEN <<>> ELSE SubSeq(s, first, last)

\* A node; max is 0 for one that is not a leaf.
Node(parent, max) == [parent |-> parent, position |-> 0, keys |-> <<>>, child |-> <<>>, max |-> max]
\* EmptyNode, the root of a tree without keys.
Nothing == 0
EmptyTree == [root |-> Nothing, rightmost |-> Nothing, size |-> 0, nodes |-> [n \in {Nothing} |-> Node(Nothing, 1)]]

Count(N, n) == Len(N[n].keys)
Leaf(N, n) == N[n].max # 0
MaxCount(N, n) == IF Leaf(N, n) THEN N[n].max ELSE NodeValues
IsRoot(N, n) == Leaf(N, N[n].parent)
Child(N, n, i) == N[n].child[i + 1]
Fresh(N) == Min((0 .. Cardinality(DOMAIN N)) \ DOMAIN N)
With(N, n, node) == [m \in DOMAIN N \cup {n} |-> IF m = n THEN node ELSE N[m]]
Without(N, gone) == [m \in DOMAIN N \ gone |-> N[m]]

At(node, position) == [node |-> node, position |-> position]
Begin(t) == At(t.nodes[t.root].parent, 0)
End(t) == At(t.rightmost, Count(t.nodes, t.rightmost))
KeyAt(N, it) == N[it.node].keys[it.position + 1]

\* init_child and set_child: the children at some places of n learn where they are.
Placed(N, n, places) ==
  LET child == {Child(N, n, i) : i \in places}
      place(m) == CHOOSE i \in places : Child(N, n, i) = m
  IN  [m \in DOMAIN N |-> IF m \in child THEN [N[m] EXCEPT !.parent = n, !.position = place(m)] ELSE N[m]]

----------------------------------------------------------------------------
\* Nodes and their siblings.

\* emplace_value; in a node that is not a leaf there is no child yet after the value.
EmplaceValue(N, n, i, k) ==
  LET M == [N EXCEPT ![n].keys = InsertAt(@, i + 1, k),
                     ![n].child = IF Leaf(N, n) THEN @ ELSE InsertAt(@, i + 2, Nothing)]
  IN  IF Leaf(N, n) THEN M ELSE Placed(M, n, i + 2 .. Count(M, n))

\* remove_value, with the child after it.
RemoveValue(N, n, i) ==
  LET M == [N EXCEPT ![n].keys = RemoveAt(@, i + 1), ![n].child = IF Leaf(N, n) THEN @ ELSE RemoveAt(@, i + 2)]
  IN  IF Leaf(N, n) THEN M ELSE Placed(M, n, i + 1 .. Count(M, n))

\* rebalance_right_to_left and, for n < 0, rebalance_left_to_right: two siblings get other
\* keys and children, and the parent another key between them.
Divided(N, left, right, keys, child, n) ==
  LET M == [N EXCEPT ![left].keys = SubSeq(keys, 1, n), ![right].keys = SubSeq(keys, n + 2, Len(keys)),
                     ![left].child = Part(child, 1, n + 1), ![right].child = Part(child, n + 2, Len(child)),
                     ![N[left].parent].keys[N[left].position + 1] = keys[n + 1]]
  IN  IF Leaf(N, left) THEN M ELSE Placed(Placed(M, left, 0 .. n), right, 0 .. Len(child) - n - 2)
Both(N, left, right) == N[left].keys \o <<N[N[left].parent].keys[N[left].position + 1]>> \o N[right].keys
Rebalanced(N, left, right, n) ==
  Divided(N, left, right, Both(N, left, right), N[left].child \o N[right].child, Count(N, left) + n)

\* split: where the new key goes tells how many keys move to the new node.
Split(N, n, insert_position, dest) ==
  LET moved == IF insert_position = 0 THEN Count(N, n) - 1
               ELSE IF insert_position = NodeValues THEN 0 ELSE Count(N, n) \div 2
      left == Count(N, n) - moved - 1
      parent == N[n].parent
      i == N[n].position
      M == EmplaceValue(N, parent, i, N[n].keys[left + 1])
      L == [M EXCEPT ![n].keys = SubSeq(@, 1, left), ![dest].keys = SubSeq(N[n].keys, left + 2, Count(N, n)),
                     ![n].child = Part(@, 1, left + 1),
                     ![dest].child = Part(N[n].child, left + 2, Len(N[n].child)),
                     ![parent].child[i + 2] = dest]
      P == Placed(L, parent, {i + 1})
  IN  IF Leaf(N, n) THEN P ELSE Placed(P, dest, 0 .. moved)

\* merge: the right one is empty then, and its parent does not have it any more.
Merge(N, left, right) ==
  LET M == [N EXCEPT ![left].keys = Both(N, left, right), ![left].child = @ \o N[right].child,
                     ![right].keys = <<>>]
      P == IF Leaf(N, left) THEN M ELSE Placed(M, left, Count(N, left) + 1 .. Count(M, left))
  IN  RemoveValue(P, N[left].parent, N[left].position)

----------------------------------------------------------------------------
\* Iterators.

\* The first value above n that comes after all that is below n; n is Nothing if none does.
Climbed(N, n) ==
  LET up[m \in DOMAIN N] ==
        IF IsRoot(N, m) THEN At(Nothing, 0)
        ELSE IF N[m].position < Count(N, N[m].parent) THEN At(N[m].parent, N[m].position)
        ELSE up[N[m].parent]
  IN  up[n]
ClimbedBack(N, n) ==
  LET up[m \in DOMAIN N] ==
        IF IsRoot(N, m) THEN At(Nothing, 0)
        ELSE IF N[m].position > 0 THEN At(N[m].parent, N[m].position - 1) ELSE up[N[m].parent]
  IN  up[n]
FirstLeaf(N, n) == LET down[m \in DOMAIN N] == IF Leaf(N, m) THEN m ELSE down[Child(N, m, 0)] IN down[n]
LastLeaf(N, n) == LET down[m \in DOMAIN N] == IF Leaf(N, m) THEN m ELSE down[Child(N, m, Count(N, m))] IN down[n]

\* operator++ and increment_slow: at the end it stays behind the last value.
Incremented(N, it) ==
  LET above == Climbed(N, it.node)
  IN  IF ~Leaf(N, it.node) THEN At(FirstLeaf(N, Child(N, it.node, it.position + 1)), 0)
      ELSE IF it.position + 1 < Count(N, it.node) THEN At(it.node, it.position + 1)
      ELSE IF above.node = Nothing THEN At(it.node, it.position + 1) ELSE above
\* operator-- and decrement_slow, not for the first value.
Decremented(N, it) ==
  IF ~Leaf(N, it.node)
  THEN LET last == LastLeaf(N, Child(N, it.node, it.position)) IN At(last, Count(N, last) - 1)
  ELSE IF it.position > 0 THEN At(it.node, it.position - 1) ELSE ClimbedBack(N, it.node)

\* The values from begin() to end() as iterators, in their order.
Iterated(t) ==
  LET from[i \in 1 .. t.size] == IF i = 1 THEN Begin(t) ELSE Incremented(t.nodes, from[i - 1])
  IN  [i \in 1 .. t.size |-> from[i]]
KeysAt(N, places) == [i \in DOMAIN places |-> KeyAt(N, places[i])]

\* internal_locate, to the leaf where k is or would be, and internal_last.
LowerBound(N, n, k) == Cardinality({i \in 1 .. Count(N, n) : N[n].keys[i] < k})
Located(t, k) ==
  LET down[m \in DOMAIN t.nodes] ==
        LET i == LowerBound(t.nodes, m, k)
        IN  IF Leaf(t.nodes, m) THEN At(m, i) ELSE down[Child(t.nodes, m, i)]
  IN  down[t.root]
InternalLast(N, it) == IF it.position = Count(N, it.node) THEN Climbed(N, it.node) ELSE it

\* internal_lower_bound and internal_find.
FirstNotLess(t, k) == InternalLast(t.nodes, Located(t, k))
Find(t, k) ==
  LET it == FirstNotLess(t, k)
  IN  IF it.node # Nothing /\ KeyAt(t.nodes, it) = k THEN it ELSE At(Nothing, 0)

----------------------------------------------------------------------------
\* Calls.

\* How many keys rebalance_or_split moves to a sibling of a full node, 0 if that would not
\* make room.
ToSibling(N, sibling, atEnd, distance) ==
  LET free == NodeValues - Count(N, sibling)
      to_move == Max({1, free \div (IF atEnd THEN 1 ELSE 2)})
  IN  IF free > 0 /\ (distance >= to_move \/ to_move < free) THEN to_move ELSE 0
LeftOf(N, n) == Child(N, N[n].parent, N[n].position - 1)
RightOf(N, n) == Child(N, N[n].parent, N[n].position + 1)
HasLeft(N, n) == N[n].position > 0
HasRight(N, n) == N[n].position < Count(N, N[n].parent)
ToLeft(t, it) ==
  IF it.node = t.root \/ ~HasLeft(t.nodes, it.node) THEN 0
  ELSE ToSibling(t.nodes, LeftOf(t.nodes, it.node), it.position = NodeValues, it.position)
ToRight(t, it) ==
  IF it.node = t.root \/ ~HasRight(t.nodes, it.node) THEN 0
  ELSE ToSibling(t.nodes, RightOf(t.nodes, it.node), it.position = 0, NodeValues - it.position)

\* The tree after keys moved between siblings or a node was split, with the place of the
\* new key in it.
FoundLeft(t, M, it, left, n) ==
  [tree |-> [t EXCEPT !.nodes = M],
   it |-> IF it.position >= n THEN At(it.node, it.position - n) ELSE At(left, it.position - n + Count(M, left) + 1)]
FoundRight(t, M, it, right) ==
  [tree |-> [t EXCEPT !.nodes = M],
   it |-> IF it.position > Count(M, it.node) THEN At(right, it.position - Count(M, it.node) - 1) ELSE it]
SplitAt(t, it, dest) ==
  FoundRight([t EXCEPT !.rightmost = IF @ = it.node THEN dest ELSE @],
             Split(With(t.nodes, dest, Node(Nothing, t.nodes[it.node].max)), it.node, it.position, dest), it, dest)
\* A new root over the old one.
Higher(t, new) ==
  [t EXCEPT !.root = new, !.nodes = Placed(With(@, new, [Node(t.nodes[t.root].parent, 0) EXCEPT !.child = <<t.root>>]), new, {0})]
SplitIn(t, it) == SplitAt(t, it, Fresh(t.nodes))

\* rebalance_or_split, which if no sibling helps makes room in the parents that are full
\* before it splits.
RebalanceOrSplit(t, it) ==
  LET N == t.nodes
      room[i \in {it} \cup {At(N[n].parent, N[n].position) : n \in DOMAIN N}] ==
        LET n == i.node
            above == IF n = t.root THEN Higher(t, Fresh(N))
                     ELSE IF Count(N, N[n].parent) < NodeValues THEN t ELSE room[At(N[n].parent, N[n].position)].tree
        IN  IF ToLeft(t, i) > 0
            THEN FoundLeft(t, Rebalanced(N, LeftOf(N, n), n, ToLeft(t, i)), i, LeftOf(N, n), ToLeft(t, i))
            ELSE IF ToRight(t, i) > 0
            THEN FoundRight(t, Rebalanced(N, n, RightOf(N, n), -ToRight(t, i)), i, RightOf(N, n))
            ELSE SplitIn(above, i)
  IN  room[it]

\* internal_emplace: before a value, in a leaf; a root that is smaller than others grows.
Larger(t, new) ==
  [root |-> new, rightmost |-> new, size |-> t.size,
   nodes |-> [n \in {Nothing, new} |->
                IF n = Nothing THEN t.nodes[n]
                ELSE [t.nodes[t.root] EXCEPT !.max = Min({NodeValues, 2 * @}), !.parent = new]]]
Roomy(t, it) ==
  IF Count(t.nodes, it.node) < t.nodes[it.node].max THEN [tree |-> t, it |-> it]
  ELSE IF t.nodes[it.node].max < NodeValues THEN [tree |-> Larger(t, Fresh(t.nodes)), it |-> At(Fresh(t.nodes), it.position)]
  ELSE RebalanceOrSplit(t, it)
Emplaced(r, k) ==
  [r EXCEPT !.tree.nodes = EmplaceValue(@, r.it.node, r.it.position, k), !.tree.size = @ + 1]
After(it) == At(it.node, it.position + 1)
InternalEmplace(t, before, k) ==
  Emplaced(Roomy(t, IF Leaf(t.nodes, before.node) THEN before ELSE After(Decremented(t.nodes, before))), k)

\* The place that insert_unique and insert_hint_unique find for a key that is not there:
\* the hint is used if the key belongs right before or right after it.
WithRoot(t) ==
  LET new == Fresh(t.nodes)
  IN  IF t.size > 0 THEN t
      ELSE [root |-> new, rightmost |-> new, size |-> 0, nodes |-> With(t.nodes, new, Node(new, 1))]
Belongs(t, k, it) ==
  /\ it = End(t) \/ k < KeyAt(t.nodes, it)
  /\ it = Begin(t) \/ KeyAt(t.nodes, Decremented(t.nodes, it)) < k
Hinted(t, k, hint, next) ==
  IF Belongs(t, k, hint) THEN hint
  ELSE IF hint # End(t) /\ KeyAt(t.nodes, hint) < k /\ Belongs(t, k, next) THEN next ELSE Located(t, k)
Inserted(t, k, place) ==
  IF Find(t, k).node # Nothing THEN [tree |-> t, it |-> Find(t, k)] ELSE InternalEmplace(t, place, k)

\* What try_merge_or_rebalance does to a node that has too few keys.
Help(N, n, position) ==
  IF HasLeft(N, n) /\ 1 + Count(N, LeftOf(N, n)) + Count(N, n) <= NodeValues THEN "mergeLeft"
  ELSE IF HasRight(N, n) /\ 1 + Count(N, n) + Count(N, RightOf(N, n)) <= NodeValues THEN "mergeRight"
  ELSE IF HasRight(N, n) /\ Count(N, RightOf(N, n)) > MinNodeValues /\ (Count(N, n) = 0 \/ position > 0) THEN "right"
  ELSE IF HasLeft(N, n) /\ Count(N, LeftOf(N, n)) > MinNodeValues /\ (Count(N, n) = 0 \/ position < Count(N, n)) THEN "left"
  ELSE "none"
\* How many keys move from a sibling.
Half(N, from, to) == Min({(Count(N, from) - Count(N, to)) \div 2, Count(N, from) - 1})
Merged(t, left, right) ==
  [t EXCEPT !.nodes = Without(Merge(@, left, right), {right}), !.rightmost = IF @ = right THEN left ELSE @]
MergedOrRebalanced(t, it, help) ==
  LET N == t.nodes
      n == it.node
      a == IF help \in {"mergeLeft", "left"} THEN LeftOf(N, n) ELSE n
      b == IF help \in {"mergeRight", "right"} THEN RightOf(N, n) ELSE n
  IN  CASE help \in {"mergeLeft", "mergeRight"} ->
             [tree |-> Merged(t, a, b), it |-> IF a = n THEN it ELSE At(a, it.position + 1 + Count(N, a))]
        [] help \in {"right", "left"} ->
             [tree |-> [t EXCEPT !.nodes = Rebalanced(N, a, b, IF a = n THEN Half(N, b, a) ELSE -Half(N, a, b))],
              it |-> IF a = n THEN it ELSE At(n, it.position + Half(N, a, b))]
        [] OTHER -> [tree |-> t, it |-> it]

\* try_shrink, when the root may have lost its last key.
Shrunk(t) ==
  LET N == t.nodes
      child == Child(N, t.root, 0)
  IN  IF Count(N, t.root) > 0 THEN t
      ELSE IF Leaf(N, t.root) THEN [EmptyTree EXCEPT !.size = t.size]
      ELSE [t EXCEPT !.root = child, !.nodes = Without([N EXCEPT ![child].parent = N[t.root].parent], {t.root})]

\* rebalance_after_delete: up the tree as long as nodes merge; the place that is returned
\* is followed on the lowest level only.
OneUp(s, m, help) ==
  LET node == m.tree.nodes[m.it.node]
  IN  [tree |-> m.tree, done |-> help \notin {"mergeLeft", "mergeRight"}, lowest |-> FALSE,
       res |-> IF s.lowest THEN m.it ELSE s.res, it |-> At(node.parent, node.position)]
Settled(t, res) ==
  [tree |-> t,
   it |-> IF t.size = 0 THEN End(t)
          ELSE IF res.position = Count(t.nodes, res.node) THEN Incremented(t.nodes, At(res.node, res.position - 1)) ELSE res]
RebalanceAfterDelete(t, it) ==
  LET helped(s, help) == OneUp(s, MergedOrRebalanced(s.tree, s.it, help), help)
      up(s, level) ==
        IF s.done THEN s
        ELSE IF s.it.node = s.tree.root THEN [s EXCEPT !.tree = Shrunk(@), !.done = TRUE]
        ELSE IF Count(s.tree.nodes, s.it.node) >= MinNodeValues THEN [s EXCEPT !.done = TRUE]
        ELSE helped(s, Help(s.tree.nodes, s.it.node, s.it.position))
      settled(s) == Settled(s.tree, s.res)
  IN  settled(FoldLeft(up, [tree |-> t, it |-> it, res |-> it, done |-> FALSE, lowest |-> TRUE], [l \in 1 .. MaxHeight |-> l]))

\* erase of one value; one that is not in a leaf is replaced by the value before it.
ErasedIn(t, it, inLeaf) ==
  LET M == IF inLeaf = it THEN t.nodes ELSE [t.nodes EXCEPT ![it.node].keys[it.position + 1] = KeyAt(t.nodes, inLeaf)]
      next(r) == IF inLeaf = it THEN r ELSE [r EXCEPT !.it = Incremented(r.tree.nodes, @)]
  IN  next(RebalanceAfterDelete([t EXCEPT !.nodes = RemoveValue(M, inLeaf.node, inLeaf.position), !.size = @ - 1], inLeaf))
Erased(t, it) == ErasedIn(t, it, IF Leaf(t.nodes, it.node) THEN it ELSE Decremented(t.nodes, it))

\* remove_values_ignore_children, of a range of one node.
Cut(N, n, first, last) == [N EXCEPT ![n].keys = SubSeq(@, 1, first) \o SubSeq(@, last + 1, Len(@))]
Below(N, n) ==
  LET under[m \in DOMAIN N] == {m} \cup IF Leaf(N, m) THEN {} ELSE UNION {under[c] : c \in Range(N[m].child)}
  IN  under[n]

\* erase_same_node, with the children between the two values.
ErasedSameNode(N, n, first, last) ==
  LET gone == UNION {Below(N, Child(N, n, i)) : i \in first + 1 .. last}
      M == [Cut(N, n, first, last) EXCEPT ![n].child = SubSeq(@, 1, first + 1) \o SubSeq(@, last + 2, Len(@))]
  IN  IF Leaf(N, n) THEN Cut(N, n, first, last) ELSE Without(Placed(M, n, first + 1 .. Count(M, n)), gone)

\* erase of the n values from `first` on.
ErasedSome(t, it, n) ==
  RebalanceAfterDelete([t EXCEPT !.nodes = Cut(@, it.node, it.position, it.position + n), !.size = @ - n], it)
ErasedTo(t, first, last, target) ==
  LET step(s, i) ==
        IF s.tree.size = target THEN s
        ELSE IF ~Leaf(s.tree.nodes, s.it.node) THEN Erased(s.tree, s.it)
        ELSE ErasedSome(s.tree, s.it, Min({s.tree.size - target, Count(s.tree.nodes, s.it.node) - s.it.position}))
  IN  IF target = 0 THEN [tree |-> EmptyTree, it |-> End(EmptyTree)]
      ELSE IF first.node = last.node
      THEN RebalanceAfterDelete(
             [t EXCEPT !.nodes = ErasedSameNode(@, first.node, first.position, last.position), !.size = target], first)
      ELSE FoldLeft(step, [tree |-> t, it |-> first], [i \in 1 .. t.size - target |-> i])

\* copy_or_move_values_in_order: all but the first are put at the end.
Copied(t) == FoldLeft(LAMBDA u, k : InternalEmplace(WithRoot(u), End(WithRoot(u)), k).tree, EmptyTree, KeysAt(t.nodes, Iterated(t)))

----------------------------------------------------------------------------
Init == tree = EmptyTree /\ wrong = {}

\* Keys and nodes get their numbers, nodes in the order of their first keys; the place that
\* a call returned is looked at before.
Number(N) == [n \in DOMAIN N |-> Cardinality({m \in DOMAIN N \ {Nothing} : n # Nothing /\ N[m].keys[1] <= N[n].keys[1]})]
Rank(keys) == [k \in Range(keys) |-> 2 * Cardinality({l \in Range(keys) : l <= k})]
Numbered(t, number, rank) ==
  LET node(n) == [t.nodes[n] EXCEPT !.parent = number[@], !.child = [i \in DOMAIN @ |-> number[@[i]]],
                                    !.keys = [i \in DOMAIN @ |-> rank[@[i]]]]
  IN  [root |-> number[t.root], rightmost |-> number[t.rightmost], size |-> t.size,
       nodes |-> [m \in Range(number) |-> node(CHOOSE n \in DOMAIN t.nodes : number[n] = m)]]
Done(result, keys, next) ==
  \E r \in {result} :
  \E number \in {Number(r.tree.nodes)}, rank \in {Rank(keys)}, places \in {Iterated(r.tree)} :
    /\ tree' = Numbered(r.tree, number, rank)
    /\ wrong' = {what \in {"keys", "place"} :
                   IF what = "keys" THEN r.tree.size # Len(keys) \/ KeysAt(r.tree.nodes, places) # keys
                   ELSE IF next \in Range(keys) THEN KeyAt(r.tree.nodes, r.it) # next ELSE r.it # End(r.tree)}

Known == [i \in 1 .. tree.size |-> 2 * i]
WithKey(k) == IF k % 2 = 0 THEN Known ELSE InsertAt(Known, k \div 2 + 1, k)

Places == Iterated(tree) \o <<End(tree)>>
\* insert_unique and insert_hint_unique.
Insert(k) == LET t == WithRoot(tree) IN Done(Inserted(t, k, Located(t, k)), WithKey(k), k)
InsertHint(hint, k) ==
  tree.size > 0 /\ Done(Inserted(tree, k, Hinted(tree, k, Places[hint], Incremented(tree.nodes, Places[hint]))), WithKey(k), k)
EraseUnique(k) == Done(Erased(tree, Find(tree, k)), RemoveAt(Known, k \div 2), k + 2)
\* What is erased are the keys from the i-th on.
Erase(i, n) ==
  Done(ErasedTo(tree, Places[i], Places[i + n], tree.size - n),
       SubSeq(Known, 1, i - 1) \o SubSeq(Known, i + n, tree.size), 2 * (i + n))
Copy == tree.size > 0 /\ Done([tree |-> Copied(tree), it |-> End(Copied(tree))], Known, Nothing)

\* merge into a set that has every m-th key already: all others go, one by one.
Moved(m) ==
  LET step(s, k) ==
        IF KeyAt(s.tree.nodes, s.it) % (2 * m) = 0 THEN [s EXCEPT !.it = Incremented(s.tree.nodes, @)]
        ELSE Erased(s.tree, s.it)
  IN  FoldLeft(step, [tree |-> tree, it |-> Begin(tree)], Known)
MergeInto(m) == tree.size > 0 /\ Done(Moved(m), SelectSeq(Known, LAMBDA k : k % (2 * m) = 0), Nothing)

Next ==
  \/ tree.size < MaxSize /\ \E k \in 1 .. 2 * tree.size + 1 :
       Insert(k) \/ \E hint \in {k \div 2, k \div 2 + 1, k \div 2 + 2} \cap 1 .. tree.size + 1 : InsertHint(hint, k)
  \/ \E i \in 1 .. tree.size : EraseUnique(2 * i) \/ \E n \in 1 .. tree.size + 1 - i : Erase(i, n)
  \/ Copy \/ \E m \in 2 .. 4 : MergeInto(m)

Spec == Init /\ [][Next]_btreeVars

----------------------------------------------------------------------------
TypeOK ==
  /\ tree.root \in DOMAIN tree.nodes /\ tree.rightmost \in DOMAIN tree.nodes /\ tree.size \in 0 .. MaxSize
  /\ \A n \in DOMAIN tree.nodes :
       Count(tree.nodes, n) <= MaxCount(tree.nodes, n)
         /\ (~Leaf(tree.nodes, n) => Len(tree.nodes[n].child) = Count(tree.nodes, n) + 1)

\* What verify() asserts, and that all leaves are equally far down: after any calls every
\* node knows its parent and its place, no node is empty, the ends are the first and the
\* last leaf, every call does what it should and returns the place it should, and every
\* key is found.
KeepsItsShape ==
  LET N == tree.nodes
      depth[n \in DOMAIN N] == IF n = tree.root THEN 0 ELSE 1 + depth[N[n].parent]
      used == Below(N, tree.root)
  IN  /\ wrong = {}
      /\ tree.size > 0 =>
           /\ DOMAIN N = used \cup {Nothing}
           /\ \A n \in used :
                /\ Count(N, n) > 0
                /\ ~Leaf(N, n) => \A i \in 0 .. Count(N, n) :
                     N[Child(N, n, i)].parent = n /\ N[Child(N, n, i)].position = i
           /\ N[tree.root].parent = FirstLeaf(N, tree.root) /\ tree.rightmost = LastLeaf(N, tree.root)
           /\ Cardinality({depth[n] : n \in {m \in used : Leaf(N, m)}}) = 1
      /\ \A k \in 1 .. 2 * tree.size + 1 : (Find(tree, k).node # Nothing) = (k % 2 = 0)
=============================================================================

----------------------------- MODULE AtomicMaps -----------------------------
(***************************************************************************)
(* What maps that many threads use promise: a call treats each key it is   *)
(* about once, at one moment between its beginning and its end, as if no   *)
(* other thread were there.  Calls about one key are atomic; a call about  *)
(* all keys may treat them at different moments.  The calls are those of   *)
(* parallel_hash_set and parallel_hash_map, parallel_hashmap/phmap.h: what *)
(* each does to a key and what it tells.  A call is [op, on, with, key,    *)
(* value]: the map it is about, the other map of a merge, a swap or a      *)
(* comparison, the key (none in a call about all keys) and the value.      *)
(***************************************************************************)
EXTENDS Integers

CONSTANTS Thread, Map, Key, MaxValue, Start

VARIABLES content,  \* Map -> Key -> its value
          asked     \* Thread -> its call, the keys left to treat and the answer so far

NotThere == 0
Values == NotThere .. MaxValue
Bumped(x) == (x % MaxValue) + 1

NoCall == [op |-> "none"]
KeysOf(c) == IF "key" \in DOMAIN c THEN {c.key} ELSE Key

\* What a call makes of the value x of a key in its map, and of the value y it has in the
\* other map of the call.
IfContains(x, y) == <<x, y>>
Find(x, y) == <<x, y>>
ModifyIf(x, y) == <<IF x = NotThere THEN x ELSE Bumped(x), y>>
LazyEmplaceL(x, y) == <<IF x = NotThere THEN 1 ELSE Bumped(x), y>>
TryEmplaceL(x, y) == <<IF x = NotThere THEN 1 ELSE Bumped(x), y>>
InsertOrAssign(x, y, v) == <<v, y>>
Emplace(x, y, v) == <<IF x = NotThere THEN v ELSE x, y>>
TryEmplace(x, y, v) == <<IF x = NotThere THEN v ELSE x, y>>
EmplaceSingle(x, y, v) == <<IF x = NotThere THEN v ELSE NotThere, y>>
Insert(x, y, v) == <<IF x = NotThere THEN v ELSE x, y>>
EraseIf(x, y) == <<IF x = 1 THEN NotThere ELSE x, y>>
Erase(x, y) == <<NotThere, y>>
Clear(x, y) == <<NotThere, y>>
Merge(x, y) == IF x = NotThere THEN <<y, NotThere>> ELSE <<x, y>>
Swap(x, y) == <<y, x>>

Effect(c, x, y) ==
  CASE c.op \in {"modify_if", "for_each_m"} -> ModifyIf(x, y)
    [] c.op = "lazy_emplace_l" -> LazyEmplaceL(x, y)
    [] c.op = "try_emplace_l" -> TryEmplaceL(x, y)
    [] c.op = "find" -> Find(x, y)
    [] c.op = "try_emplace" -> TryEmplace(x, y, c.value)
    [] c.op = "insert_or_assign" -> InsertOrAssign(x, y, c.value)
    [] c.op = "emplace" -> Emplace(x, y, c.value)
    [] c.op = "insert" -> Insert(x, y, c.value)
    [] c.op = "emplace_single" -> EmplaceSingle(x, y, c.value)
    [] c.op = "erase_if" -> EraseIf(x, y)
    [] c.op = "erase" -> Erase(x, y)
    [] c.op = "clear" -> Clear(x, y)
    [] c.op = "merge" -> Merge(x, y)
    [] c.op = "swap" -> Swap(x, y)
    [] OTHER -> IfContains(x, y)

\* What a call tells, as the keys it is so about and their values: which were there (one,
\* how many, or each of them), which it erased, and in which two maps differ.
Answer(c, so_far, seen) ==
  LET Is(k, x, y) ==
        CASE c.op = "equal" -> x # y
          [] c.op = "erase_if" -> x = 1
          [] c.op \in {"clear", "merge", "swap", "for_each_m"} -> FALSE
          [] OTHER -> x # NotThere
  IN  so_far \cup {<<k, seen[k][1]>> : k \in {k \in DOMAIN seen : Is(k, seen[k][1], seen[k][2])}}
\* Maps that differ in one key are not compared further.
Ends(c, answer) == c.op = "equal" /\ answer # {}

----------------------------------------------------------------------------
Idle == [call |-> NoCall, left |-> {}, answer |-> {}]

Init ==
  /\ content \in Start
  /\ asked = [t \in Thread |-> Idle]

\* Any call at all.
Ask(t) ==
  /\ asked[t] = Idle
  /\ LET c == asked'[t].call IN asked' = [asked EXCEPT ![t] = [call |-> c, left |-> KeysOf(c), answer |-> {}]]
  /\ UNCHANGED content

Treat(t, keys) ==
  LET c == asked[t].call
      seen == [k \in keys |-> <<content[c.on][k], content[c.with][k]>>]
      made == [k \in keys |-> Effect(c, seen[k][1], seen[k][2])]
      answer == Answer(c, asked[t].answer, seen)
  IN  /\ keys # {} /\ keys \subseteq asked[t].left
      /\ content' = [content EXCEPT ![c.on] = [k \in Key |-> IF k \in keys THEN made[k][1] ELSE @[k]],
                                    ![c.with] = [k \in Key |-> IF k \in keys THEN made[k][2] ELSE @[k]]]
      /\ asked' = [asked EXCEPT ![t].answer = answer,
                                ![t].left = IF Ends(c, answer) THEN {} ELSE @ \ keys]

Return(t) ==
  /\ asked[t] # Idle /\ asked[t].left = {}
  /\ asked' = [asked EXCEPT ![t] = Idle]
  /\ UNCHANGED content

Next == \E t \in Thread : Ask(t) \/ Return(t) \/ \E keys \in SUBSET Key : Treat(t, keys)

Spec == Init /\ [][Next]_<<content, asked>>
=============================================================================

------------------------------ MODULE RankLua ------------------------------
(***************************************************************************)
(* ranklua/rank.lua: the ranking of Rank in Lua, as an array that is kept  *)
(* in order by binary search and a table of the elements in it by their    *)
(* ids (rank1.lua is the same as an object).                               *)
(***************************************************************************)
EXTENDS Integers, Sequences, SequencesExt

CONSTANTS Id, Limit, MaxScore, Rising, MaxTm \* as in Rank

VARIABLES
  arr,    \* rank.arr
  map,    \* rank.map
  latest  \* id -> the last element that was added
luaVars == <<arr, map, latest>>

Abstract == INSTANCE Rank WITH RankId <- Id, ranks <- ToSet(arr), it <- map
less(a, b) == Abstract!Better(a, b)

\* lower_bound, from left to right with the answer so far.
LowerBound(a, data) ==
  LET from[left \in 1 .. Len(a) + 1, right \in 0 .. Len(a), ans \in 1 .. Len(a) + 1] ==
        LET mid == (left + right) \div 2
        IN  IF left > right THEN ans
            ELSE IF less(a[mid], data) THEN from[mid + 1, right, ans]
            ELSE from[left, mid - 1, mid]
  IN  from[1, Len(a), Len(a) + 1]

\* binary_search: the place of an element, 0 for nil.
BinarySearch(a, data) ==
  LET from[left \in 1 .. Len(a) + 1, right \in 0 .. Len(a)] ==
        LET mid == (left + right) \div 2
        IN  IF left > right THEN 0
            ELSE IF less(data, a[mid]) THEN from[left, mid - 1]
            ELSE IF less(a[mid], data) THEN from[mid + 1, right]
            ELSE mid
  IN  from[1, Len(a)]

\* table.remove, which takes the last element if pos is nil.
Removed(a, pos) == IF pos = 0 THEN Front(a) ELSE RemoveAt(a, pos)

get_order(id) == IF id \in DOMAIN map THEN BinarySearch(arr, map[id]) ELSE 0
info(lb, ub) == SubSeq(arr, lb, IF ub > Len(arr) THEN Len(arr) ELSE ub)

Init == arr = <<>> /\ map = Abstract!Nothing /\ latest = Abstract!Nothing

----------------------------------------------------------------------------
\* M.add.
Add(id, score, tm) ==
  LET data == Abstract!Element(id, score, tm)
      rest == IF id \in DOMAIN map THEN Removed(arr, BinarySearch(arr, map[id])) ELSE arr
      all == InsertAt(rest, LowerBound(rest, data), data)
      known == Abstract!PutIn(map, id, data)
  IN  /\ Abstract!Now <= tm /\ tm <= MaxTm
      /\ Rising /\ id \in DOMAIN latest => latest[id].score < score
      /\ IF Len(all) > Limit
         THEN arr' = Front(all) /\ map' = Abstract!Erase(known, Last(all).id)
         ELSE arr' = all /\ map' = known
      /\ latest' = Abstract!PutIn(latest, id, data)

Next == \E id \in Id, score \in 1 .. MaxScore, tm \in 1 .. MaxTm : Add(id, score, tm)

Spec == Init /\ [][Next]_luaVars

----------------------------------------------------------------------------
TypeOK ==
  /\ arr \in Seq([id : Id, score : 1 .. MaxScore, tm : 1 .. MaxTm]) /\ Len(arr) <= Limit
  /\ DOMAIN map \subseteq Id

\* The array is the ranking of Rank in its order: the places that the search and the
\* pages of info tell are those of all who ever had a score.
IsTheRanking ==
  /\ Abstract!KeepsTheBest
  /\ \A id \in Id : get_order(id) = IF Abstract!Order(id) = -1 THEN 0 ELSE Abstract!Order(id)
  /\ \A lb, ub \in 1 .. Limit + 1 :
       \A i \in DOMAIN info(lb, ub) : Abstract!Order(info(lb, ub)[i].id) = lb + i - 1

\* Every step of the array is one of the ranking.
IsRank == Abstract!RankSpec
=============================================================================

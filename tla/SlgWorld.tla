------------------------------ MODULE SlgWorld ------------------------------
(***************************************************************************)
(* slg/cc/world.cc, the earlier form of slg/new.  Here the world refuses   *)
(* an entity where something is blocked; one call answers for all views    *)
(* which troops came and went.  Blocks are set and lifted by the game too, *)
(* wherever it likes: what it lifts under an entity lets another be put    *)
(* there, and then either takes the points of the other with it.           *)
(***************************************************************************)
EXTENDS Integers, FiniteSets, Functions, TLAPS

CONSTANTS
  Id, Length, Width,
  Areas,   \* pairs of corners, of entities and of views
  Routes,  \* pairs of points, of troops
  View, Troop,
  Spot     \* the points where the game sets blocks

VARIABLES
  entity, tile,  \* entity_ and pos_entity_
  block,         \* block_, as the set of points that are blocked
  barred,        \* the points the game has blocked
  loose,         \* the entities that have lost a block, or share points with another
  troop, view,   \* troop_ and view_
  shown          \* what each view was told to show
worldVars == <<entity, tile, block, barred, loose, troop, view, shown>>

None == [x \in {} |-> 0]
Put(f, k, v) == [x \in DOMAIN f \cup {k} |-> IF x = k THEN v ELSE f[x]]
Erase(f, S) == Restrict(f, DOMAIN f \ S)
Points(a) == (a[1][1] .. a[2][1]) \X (a[1][2] .. a[2][2])
\* Those of checkpos.
OnMap == (0 .. Length - 1) \X (0 .. Width - 1)

Lower(a, b) == IF a < b THEN a ELSE b
Upper(a, b) == IF a < b THEN b ELSE a

CorrectPos(p) ==
  <<Upper(0, Lower(p[1], Length - 1)), Upper(0, Lower(p[2], Width - 1))>>
IsBlock(p) == p \notin OnMap \/ p \in block
HaveBlock(a) == \E p \in Points(a) : IsBlock(p)
AreaIds(a) ==
  {tile[p] : p \in Points(<<CorrectPos(a[1]), CorrectPos(a[2])>>) \cap DOMAIN tile}

----------------------------------------------------------------------------
\* Whether the way of a troop from n to end crosses what a view shows.
InArea(p, bl, tr) == p[1] \in bl[1] .. tr[1] /\ p[2] \in bl[2] .. tr[2]

\* On which side of the line from a to b is c; rounding to float leaves the sign alone.
Cross(a, b, c) == (b[1] - a[1]) * (c[2] - a[2]) - (c[1] - a[1]) * (b[2] - a[2])

\* Whether the segment from a to b and that from c to d meet.
Intersect(a, b, c, d) ==
  /\ \A i \in 1 .. 2 :
       /\ Upper(a[i], b[i]) >= Lower(c[i], d[i])
       /\ Upper(c[i], d[i]) >= Lower(a[i], b[i])
  /\ Cross(a, b, c) * Cross(a, b, d) <= 0
  /\ Cross(c, d, a) * Cross(c, d, b) <= 0

InView(n, end, bl, tr) ==
  \/ InArea(n, bl, tr) \/ InArea(end, bl, tr)
  \/ LET corner == <<bl, <<bl[1], tr[2]>>, tr, <<tr[1], bl[2]>>>>
     IN  \E i \in 1 .. 4 : Intersect(n, end, corner[i], corner[1 + (i % 4)])

Init ==
  /\ entity = None /\ tile = None /\ block = {} /\ barred = {} /\ loose = {}
  /\ troop = None /\ view = None /\ shown = [v \in View |-> {}]

----------------------------------------------------------------------------
\* World::setblock, by the game.
SetBlock(p, v) ==
  /\ IF v THEN /\ block' = block \cup ({p} \cap OnMap) /\ barred' = barred \cup ({p} \cap OnMap)
               /\ UNCHANGED loose
     ELSE /\ block' = block \ {p} /\ barred' = barred \ {p}
          /\ loose' = loose \cup {id \in DOMAIN entity : p \in Points(entity[id])}
  /\ UNCHANGED <<entity, tile, troop, view, shown>>

Meets(a) == {id \in DOMAIN entity : Points(entity[id]) \cap Points(a) # {}}

\* World::addentity.  What it meets had a block lifted.
AddEntity(id, a) ==
  /\ id \notin DOMAIN entity /\ ~HaveBlock(a)
  /\ entity' = Put(entity, id, a)
  /\ tile' = [p \in Points(a) \cup DOMAIN tile |-> IF p \in Points(a) THEN id ELSE tile[p]]
  /\ block' = block \cup Points(a)
  /\ loose' = loose \cup (IF Meets(a) = {} THEN {} ELSE {id})
  /\ UNCHANGED <<barred, troop, view, shown>>

\* Mutant: the entity goes and its blocks stay.
DelEntityNotBlock(id) ==
  /\ id \in DOMAIN entity
  /\ tile' = Erase(tile, Points(entity[id]))
  /\ entity' = Erase(entity, {id}) /\ loose' = loose \ {id}
  /\ UNCHANGED <<block, barred, troop, view, shown>>

\* World::delentity.  What the game blocked under it is free as well.
DelEntity(id) ==
  /\ id \in DOMAIN entity
  /\ tile' = Erase(tile, Points(entity[id]))
  /\ block' = block \ Points(entity[id]) /\ barred' = barred \ Points(entity[id])
  /\ entity' = Erase(entity, {id}) /\ loose' = loose \ {id}
  /\ UNCHANGED <<troop, view, shown>>

\* settroop.
SetTroop(t, r) ==
  troop' = Put(troop, t, r) /\ UNCHANGED <<entity, tile, block, barred, loose, view, shown>>
DelTroop(t) ==
  troop' = Erase(troop, {t}) /\ UNCHANGED <<entity, tile, block, barred, loose, view, shown>>

\* setview.
SetView(v, a) ==
  /\ view' = Put(view, v, [bl |-> a[1], tr |-> a[2],
                           troop |-> IF v \in DOMAIN view THEN view[v].troop ELSE {}])
  /\ UNCHANGED <<entity, tile, block, barred, loose, troop, shown>>
DelView(v) ==
  /\ view' = Erase(view, {v}) /\ shown' = [shown EXCEPT ![v] = {}]
  /\ UNCHANGED <<entity, tile, block, barred, loose, troop>>

\* World::troop_view, and the game shows and hides what it is told.
TroopView ==
  LET new(v) == {t \in DOMAIN troop : InView(troop[t][1], troop[t][2], view[v].bl, view[v].tr)}
  IN  /\ view' = [v \in DOMAIN view |-> [view[v] EXCEPT !.troop = new(v)]]
      /\ shown' = [v \in View |->
           IF v \notin DOMAIN view THEN shown[v]
           ELSE (shown[v] \ (view[v].troop \ new(v))) \cup (new(v) \ view[v].troop)]
      /\ UNCHANGED <<entity, tile, block, barred, loose, troop>>

Next ==
  \/ \E p \in Spot, v \in BOOLEAN : SetBlock(p, v)
  \/ \E id \in Id : DelEntity(id) \/ \E a \in Areas : AddEntity(id, a)
  \/ \E t \in Troop : DelTroop(t) \/ \E r \in Routes : SetTroop(t, r)
  \/ \E v \in View : DelView(v) \/ \E a \in Areas : SetView(v, a)
  \/ TroopView

Spec == Init /\ [][Next]_worldVars

----------------------------------------------------------------------------
TypeOK ==
  /\ DOMAIN entity \subseteq Id /\ \A id \in DOMAIN entity : entity[id] \in Areas
  /\ DOMAIN tile \subseteq OnMap /\ block \subseteq OnMap /\ barred \subseteq OnMap
  /\ loose \subseteq DOMAIN entity
  /\ DOMAIN troop \subseteq Troop /\ \A t \in DOMAIN troop : troop[t] \in Routes
  /\ DOMAIN view \subseteq View /\ shown \in [View -> SUBSET Troop]

\* What is blocked the game has blocked, or an entity stands there; what the game has
\* blocked stays so, and so does what an entity stands on, and each is found on its own
\* points and no others, unless the game lifted a block under it.
BlocksAreWhatStands ==
  /\ barred \subseteq block
  /\ block \subseteq barred \cup UNION {Points(entity[id]) : id \in DOMAIN entity}
  /\ \A id \in DOMAIN entity \ loose : Points(entity[id]) \subseteq block
  /\ \A a \in Areas :
       LET there == Meets(<<CorrectPos(a[1]), CorrectPos(a[2])>>)
       IN  AreaIds(a) \subseteq there /\ there \ loose \subseteq AreaIds(a)

\* The reference: a segment misses a rectangle if it lies beyond one of its sides, or
\* all corners of the rectangle lie on one side of it.
Misses(cur, end, bl, tr) ==
  \/ \E i \in 1 .. 2 : Upper(cur[i], end[i]) < bl[i] \/ tr[i] < Lower(cur[i], end[i])
  \/ LET sides == {Cross(cur, end, <<x, y>>) : x \in {bl[1], tr[1]}, y \in {bl[2], tr[2]}}
     IN  (\A s \in sides : s < 0) \/ (\A s \in sides : s > 0)

\* What the views were told adds up to the troops that crossed them at the last
\* answer: of one that has not changed since, those that cross it now.
ViewsFollow ==
  \A v \in DOMAIN view :
    LET new == {t \in DOMAIN troop : InView(troop[t][1], troop[t][2], view[v].bl, view[v].tr)}
        old == view[v].troop
    IN  (shown[v] \ (old \ new)) \cup (new \ old)
        = {t \in DOMAIN troop : ~Misses(troop[t][1], troop[t][2], view[v].bl, view[v].tr)}
----------------------------------------------------------------------------
(* What stands where, on maps of any size and for any areas.               *)

\* An entity under which no block was lifted has its own points, blocked and not shared.
WorldInv ==
  /\ \A id \in DOMAIN entity \ loose : \A p \in Points(entity[id]) :
       p \in DOMAIN tile /\ tile[p] = id /\ p \in block
  /\ \A id \in DOMAIN entity \ loose : \A i \in DOMAIN entity \ {id} :
       Points(entity[id]) \cap Points(entity[i]) = {}
  /\ \A p \in DOMAIN tile : tile[p] \in DOMAIN entity /\ p \in Points(entity[tile[p]])
  /\ barred \subseteq block
  /\ \A p \in block : p \in barred \/ \E id \in DOMAIN entity : p \in Points(entity[id])

LEMMA EraseIs ==
  ASSUME NEW f, NEW S
  PROVE  /\ DOMAIN Erase(f, S) = DOMAIN f \ S
         /\ \A x \in DOMAIN f \ S : Erase(f, S)[x] = f[x]
BY DEF Erase, Restrict

LEMMA SetBlockKeeps ==
  ASSUME WorldInv, NEW p, NEW v \in BOOLEAN, SetBlock(p, v)
  PROVE  WorldInv'
<1>1. entity' = entity /\ tile' = tile
  BY DEF SetBlock
<1>2. CASE v
  <2>1. /\ block' = block \cup ({p} \cap OnMap) /\ barred' = barred \cup ({p} \cap OnMap)
        /\ loose' = loose
    BY <1>2 DEF SetBlock
  <2> QED BY <1>1, <2>1 DEF WorldInv, Points
<1>3. CASE ~v
  <2>1. /\ block' = block \ {p} /\ barred' = barred \ {p}
        /\ loose' = loose \cup {id \in DOMAIN entity : p \in Points(entity[id])}
    BY <1>3 DEF SetBlock
  <2> QED BY <1>1, <2>1 DEF WorldInv, Points
<1> QED BY <1>2, <1>3

LEMMA AddEntityKeeps ==
  ASSUME WorldInv, NEW id, NEW a, AddEntity(id, a)
  PROVE  WorldInv'
<1> DEFINE here == Points(a)
<1>1. /\ id \notin DOMAIN entity
      /\ entity' = Put(entity, id, a)
      /\ tile' = [p \in here \cup DOMAIN tile |-> IF p \in here THEN id ELSE tile[p]]
      /\ block' = block \cup here /\ barred' = barred
  BY DEF AddEntity
<1>2. \A p \in here : p \notin block
  BY DEF AddEntity, HaveBlock, IsBlock
<1>3. /\ DOMAIN entity' = DOMAIN entity \cup {id} /\ entity'[id] = a
      /\ \A i \in DOMAIN entity : entity'[i] = entity[i]
  BY <1>1 DEF Put
<1>4. \A i \in DOMAIN entity : Points(entity'[i]) = Points(entity[i])
  BY <1>3
<1>5. Points(entity'[id]) = here
  BY <1>3
<1>6. /\ loose \subseteq loose' /\ loose' \subseteq loose \cup {id}
      /\ id \notin loose' => \A i \in DOMAIN entity : Points(entity[i]) \cap here = {}
  BY DEF AddEntity, Meets
<1> HIDE DEF here
<1>7. /\ DOMAIN tile' = here \cup DOMAIN tile
      /\ \A p \in here : tile'[p] = id
      /\ \A p \in DOMAIN tile \ here : tile'[p] = tile[p]
  BY <1>1
<1>8. \A i \in DOMAIN entity \ loose : Points(entity[i]) \cap here = {}
  BY <1>2 DEF WorldInv
<1>9. ASSUME NEW i \in DOMAIN entity' \ loose', NEW p \in Points(entity'[i])
      PROVE  p \in DOMAIN tile' /\ tile'[p] = i /\ p \in block'
  <2>1. CASE i = id
    BY <1>1, <1>5, <1>7, <1>9, <2>1
  <2>2. CASE i # id
    <3>1. i \in DOMAIN entity \ loose /\ p \in Points(entity[i])
      BY <1>3, <1>4, <1>6, <1>9, <2>2
    <3>2. p \in DOMAIN tile /\ tile[p] = i /\ p \in block /\ p \notin here
      BY <1>8, <3>1 DEF WorldInv
    <3> QED BY <1>1, <1>7, <3>2
  <2> QED BY <2>1, <2>2
<1>10. ASSUME NEW i \in DOMAIN entity' \ loose', NEW k \in DOMAIN entity' \ {i}
       PROVE  Points(entity'[i]) \cap Points(entity'[k]) = {}
  <2>1. CASE i = id
    BY <1>3, <1>4, <1>5, <1>6, <1>10, <2>1
  <2>2. CASE i # id
    <3>1. i \in DOMAIN entity \ loose /\ Points(entity'[i]) = Points(entity[i])
      BY <1>3, <1>4, <1>6, <1>10, <2>2
    <3>2. CASE k = id
      BY <1>5, <1>8, <3>1, <3>2
    <3>3. CASE k # id
      <4>1. k \in DOMAIN entity \ {i} /\ Points(entity'[k]) = Points(entity[k])
        BY <1>3, <1>4, <1>10, <3>3
      <4> QED BY <3>1, <4>1 DEF WorldInv
    <3> QED BY <3>2, <3>3
  <2> QED BY <2>1, <2>2
<1>11. ASSUME NEW p \in DOMAIN tile'
       PROVE  tile'[p] \in DOMAIN entity' /\ p \in Points(entity'[tile'[p]])
  <2>1. CASE p \in here
    BY <1>3, <1>5, <1>7, <2>1
  <2>2. CASE p \notin here
    <3>1. p \in DOMAIN tile /\ tile'[p] = tile[p]
      BY <1>7, <1>11, <2>2
    <3>2. tile[p] \in DOMAIN entity /\ p \in Points(entity[tile[p]])
      BY <3>1 DEF WorldInv
    <3> QED BY <1>3, <1>4, <3>1, <3>2
  <2> QED BY <2>1, <2>2
<1>12. ASSUME NEW p \in block'
       PROVE  p \in barred' \/ \E i \in DOMAIN entity' : p \in Points(entity'[i])
  <2>1. CASE p \in here
    BY <1>3, <1>5, <2>1
  <2>2. CASE p \in block
    BY <1>1, <1>3, <1>4, <2>2 DEF WorldInv
  <2> QED BY <1>1, <1>12, <2>1, <2>2
<1>13. barred' \subseteq block'
  BY <1>1 DEF WorldInv
<1> QED BY <1>9, <1>10, <1>11, <1>12, <1>13 DEF WorldInv, Points

LEMMA DelEntityKeeps ==
  ASSUME WorldInv, NEW id, DelEntity(id)
  PROVE  WorldInv'
<1> DEFINE gone == Points(entity[id])
<1>1. /\ id \in DOMAIN entity
      /\ tile' = Erase(tile, gone) /\ entity' = Erase(entity, {id})
      /\ block' = block \ gone /\ barred' = barred \ gone /\ loose' = loose \ {id}
  BY DEF DelEntity
<1>2. \A i \in DOMAIN entity \ {id} : i \notin loose => Points(entity[i]) \cap gone = {}
  BY <1>1 DEF WorldInv
<1>3. \A p \in DOMAIN tile \ gone : tile[p] # id
  BY DEF WorldInv
<1> HIDE DEF gone
<1>4. /\ DOMAIN tile' = DOMAIN tile \ gone
      /\ \A p \in DOMAIN tile \ gone : tile'[p] = tile[p]
      /\ DOMAIN entity' = DOMAIN entity \ {id}
      /\ \A i \in DOMAIN entity \ {id} : entity'[i] = entity[i]
  BY <1>1, EraseIs
<1>5. \A i \in DOMAIN entity \ {id} : Points(entity'[i]) = Points(entity[i])
  BY <1>4
<1>6. ASSUME NEW i \in DOMAIN entity' \ loose', NEW p \in Points(entity'[i])
      PROVE  p \in DOMAIN tile' /\ tile'[p] = i /\ p \in block'
  <2>1. i \in DOMAIN entity \ {id} /\ i \notin loose /\ p \in Points(entity[i])
    BY <1>1, <1>4, <1>5, <1>6
  <2>2. p \in DOMAIN tile /\ tile[p] = i /\ p \in block /\ p \notin gone
    BY <1>2, <2>1 DEF WorldInv
  <2> QED BY <1>1, <1>4, <2>2
<1>7. ASSUME NEW i \in DOMAIN entity' \ loose', NEW k \in DOMAIN entity' \ {i}
      PROVE  Points(entity'[i]) \cap Points(entity'[k]) = {}
  <2>1. i \in DOMAIN entity \ {id} /\ i \notin loose /\ k \in DOMAIN entity \ {id} /\ k # i
    BY <1>1, <1>4, <1>7
  <2> QED BY <1>5, <2>1 DEF WorldInv
<1>8. ASSUME NEW p \in DOMAIN tile'
      PROVE  tile'[p] \in DOMAIN entity' /\ p \in Points(entity'[tile'[p]])
  <2>1. p \in DOMAIN tile \ gone /\ tile'[p] = tile[p] /\ tile[p] # id
    BY <1>3, <1>4
  <2> QED BY <1>4, <2>1 DEF WorldInv
<1>9. ASSUME NEW p \in block'
      PROVE  p \in barred' \/ \E i \in DOMAIN entity' : p \in Points(entity'[i])
  <2>1. p \in block /\ p \notin gone
    BY <1>1, <1>9
  <2>2. CASE p \in barred
    BY <1>1, <2>1, <2>2
  <2>3. CASE p \notin barred
    <3>1. PICK i \in DOMAIN entity : p \in Points(entity[i])
      BY <2>1, <2>3 DEF WorldInv
    <3>2. i # id
      BY <2>1, <3>1 DEF gone
    <3> QED BY <1>4, <1>5, <3>1, <3>2
  <2> QED BY <2>2, <2>3
<1>10. barred' \subseteq block'
  BY <1>1 DEF WorldInv
<1> QED BY <1>6, <1>7, <1>8, <1>9, <1>10 DEF WorldInv, Points

LEMMA InvBlocks == WorldInv => BlocksAreWhatStands
<1> SUFFICES ASSUME WorldInv PROVE BlocksAreWhatStands
  OBVIOUS
<1>1. /\ barred \subseteq block
      /\ block \subseteq barred \cup UNION {Points(entity[id]) : id \in DOMAIN entity}
      /\ \A id \in DOMAIN entity \ loose : Points(entity[id]) \subseteq block
  BY DEF WorldInv
<1>2. ASSUME NEW a \in Areas
      PROVE  LET there == Meets(<<CorrectPos(a[1]), CorrectPos(a[2])>>)
             IN  AreaIds(a) \subseteq there /\ there \ loose \subseteq AreaIds(a)
  <2> DEFINE asked == Points(<<CorrectPos(a[1]), CorrectPos(a[2])>>)
  <2>1. /\ AreaIds(a) = {tile[p] : p \in asked \cap DOMAIN tile}
        /\ Meets(<<CorrectPos(a[1]), CorrectPos(a[2])>>)
             = {id \in DOMAIN entity : Points(entity[id]) \cap asked # {}}
    BY DEF AreaIds, Meets
  <2> HIDE DEF asked
  <2>2. \A p \in asked \cap DOMAIN tile :
          tile[p] \in DOMAIN entity /\ p \in Points(entity[tile[p]])
    BY DEF WorldInv
  <2>3. ASSUME NEW id \in DOMAIN entity \ loose, NEW p \in Points(entity[id]) \cap asked
        PROVE  id \in AreaIds(a)
    <3>1. p \in asked \cap DOMAIN tile /\ tile[p] = id
      BY <2>3 DEF WorldInv
    <3> QED BY <2>1, <3>1
  <2> QED BY <2>1, <2>2, <2>3
<1> QED BY <1>1, <1>2 DEF BlocksAreWhatStands

\* Whatever was built, removed, blocked and lifted, under entities too, nothing is blocked
\* but what the game blocked and what entities stand on; and an entity under which no block
\* was lifted has its points blocked and is found by area_ids (world.cc, world.h setblock).
THEOREM BlocksFollow == Spec => []BlocksAreWhatStands
<1>1. Init => WorldInv
  BY DEF Init, WorldInv, None
<1>2. WorldInv /\ [Next]_worldVars => WorldInv'
  <2> SUFFICES ASSUME WorldInv, [Next]_worldVars PROVE WorldInv'
    OBVIOUS
  <2> DEFINE Same == UNCHANGED <<entity, tile, block, barred, loose>>
  <2>1. ASSUME Same PROVE WorldInv'
    BY <2>1 DEF WorldInv, Points
  <2>2. CASE UNCHANGED worldVars
    BY <2>1, <2>2 DEF worldVars
  <2>3. CASE \E p \in Spot, v \in BOOLEAN : SetBlock(p, v)
    BY <2>3, SetBlockKeeps
  <2>4. CASE \E id \in Id : DelEntity(id) \/ \E a \in Areas : AddEntity(id, a)
    BY <2>4, DelEntityKeeps, AddEntityKeeps
  <2>5. CASE \E t \in Troop : DelTroop(t) \/ \E r \in Routes : SetTroop(t, r)
    BY <2>1, <2>5 DEF DelTroop, SetTroop
  <2>6. CASE \E v \in View : DelView(v) \/ \E a \in Areas : SetView(v, a)
    BY <2>1, <2>6 DEF DelView, SetView
  <2>7. CASE TroopView
    BY <2>1, <2>7 DEF TroopView
  <2> QED BY <2>2, <2>3, <2>4, <2>5, <2>6, <2>7 DEF Next
<1>3. WorldInv => BlocksAreWhatStands
  BY InvBlocks
<1> QED BY <1>1, <1>2, <1>3, PTL DEF Spec
----------------------------------------------------------------------------
\* A view was told to show what it had at its last answer.
ShownInv ==
  /\ DOMAIN shown = View /\ DOMAIN view \subseteq View
  /\ \A v \in View : shown[v] = IF v \in DOMAIN view THEN view[v].troop ELSE {}
  /\ \A v \in DOMAIN view : "troop" \in DOMAIN view[v]

\* What troop_view answers next makes each view show the troops that InView finds.
ViewsAnswer ==
  \A v \in DOMAIN view :
    LET new == {t \in DOMAIN troop : InView(troop[t][1], troop[t][2], view[v].bl, view[v].tr)}
        old == view[v].troop
    IN  (shown[v] \ (old \ new)) \cup (new \ old) = new

LEMMA SetViewKeeps ==
  ASSUME ShownInv, NEW v \in View, NEW a, SetView(v, a)
  PROVE  ShownInv'
<1> DEFINE old == IF v \in DOMAIN view THEN view[v].troop ELSE {}
           new == [bl |-> a[1], tr |-> a[2], troop |-> old]
<1>1. view' = Put(view, v, new) /\ shown' = shown
  BY DEF SetView
<1>2. new.troop = old /\ "troop" \in DOMAIN new
  OBVIOUS
<1>3. shown[v] = old
  BY DEF ShownInv
<1> HIDE DEF old, new
<1>4. /\ DOMAIN view' = DOMAIN view \cup {v} /\ view'[v] = new
      /\ \A w \in DOMAIN view \ {v} : view'[w] = view[w]
  BY <1>1 DEF Put
<1> QED BY <1>1, <1>2, <1>3, <1>4 DEF ShownInv

LEMMA TroopViewKeeps ==
  ASSUME ShownInv, TroopView
  PROVE  ShownInv'
<1> DEFINE new(v) == {t \in DOMAIN troop : InView(troop[t][1], troop[t][2], view[v].bl, view[v].tr)}
<1>1. /\ view' = [v \in DOMAIN view |-> [view[v] EXCEPT !.troop = new(v)]]
      /\ shown' = [v \in View |->
           IF v \notin DOMAIN view THEN shown[v]
           ELSE (shown[v] \ (view[v].troop \ new(v))) \cup (new(v) \ view[v].troop)]
  BY DEF TroopView
<1> HIDE DEF new
<1>2. DOMAIN view' = DOMAIN view /\ DOMAIN shown' = View
  BY <1>1
<1>3. ASSUME NEW v \in DOMAIN view
      PROVE  view'[v].troop = new(v) /\ "troop" \in DOMAIN view'[v]
  <2>1. view'[v] = [view[v] EXCEPT !.troop = new(v)]
    BY <1>1
  <2> QED BY <2>1 DEF ShownInv
<1>4. ASSUME NEW v \in View
      PROVE  shown'[v] = IF v \in DOMAIN view' THEN view'[v].troop ELSE {}
  <2>1. CASE v \in DOMAIN view
    <3>1. shown'[v] = (shown[v] \ (view[v].troop \ new(v))) \cup (new(v) \ view[v].troop)
      BY <1>1, <2>1
    <3>2. shown[v] = view[v].troop
      BY <2>1 DEF ShownInv
    <3> QED BY <1>2, <1>3, <2>1, <3>1, <3>2
  <2>2. CASE v \notin DOMAIN view
    BY <1>1, <1>2, <2>2 DEF ShownInv
  <2> QED BY <2>1, <2>2
<1> QED BY <1>2, <1>3, <1>4 DEF ShownInv

\* However views and troops were set, moved and taken away, what troop_view answers makes
\* each view show just the troops that InView finds for it (world.cc troop_view).
THEOREM ViewsFollowInView == Spec => []ViewsAnswer
<1>1. Init => ShownInv
  BY DEF Init, ShownInv, None
<1>2. ShownInv /\ [Next]_worldVars => ShownInv'
  <2> SUFFICES ASSUME ShownInv, [Next]_worldVars PROVE ShownInv'
    OBVIOUS
  <2>1. CASE UNCHANGED <<view, shown>>
    BY <2>1 DEF ShownInv
  <2>2. CASE UNCHANGED worldVars
    BY <2>1, <2>2 DEF worldVars
  <2>3. CASE \E p \in Spot, v \in BOOLEAN : SetBlock(p, v)
    BY <2>1, <2>3 DEF SetBlock
  <2>4. CASE \E id \in Id : DelEntity(id) \/ \E a \in Areas : AddEntity(id, a)
    BY <2>1, <2>4 DEF DelEntity, AddEntity
  <2>5. CASE \E t \in Troop : DelTroop(t) \/ \E r \in Routes : SetTroop(t, r)
    BY <2>1, <2>5 DEF DelTroop, SetTroop
  <2>6. CASE \E v \in View : DelView(v) \/ \E a \in Areas : SetView(v, a)
    <3>1. ASSUME NEW v \in View, DelView(v) PROVE ShownInv'
      <4>1. /\ DOMAIN view' = DOMAIN view \ {v} /\ shown' = [shown EXCEPT ![v] = {}]
            /\ \A w \in DOMAIN view \ {v} : view'[w] = view[w]
        BY <3>1, EraseIs DEF DelView
      <4> QED BY <4>1 DEF ShownInv
    <3> QED BY <2>6, <3>1, SetViewKeeps
  <2>7. CASE TroopView
    BY <2>7, TroopViewKeeps
  <2> QED BY <2>2, <2>3, <2>4, <2>5, <2>6, <2>7 DEF Next
<1>3. ShownInv => ViewsAnswer
  BY DEF ShownInv, ViewsAnswer
<1> QED BY <1>1, <1>2, <1>3, PTL DEF Spec
=============================================================================

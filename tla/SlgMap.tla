------------------------------- MODULE SlgMap -------------------------------
(***************************************************************************)
(* slg/new/map.cc: marches go straight from one point of the map to        *)
(* another, and a vision, a rectangle that a player looks at, shows those  *)
(* that cross it.  vision_diff answers which marches appeared in it and    *)
(* which went since it was last asked.                                     *)
(*                                                                         *)
(* An entity or an obstacle fills a rectangle of tiles, and the part of it *)
(* that is off the map is lost.  The map checks nothing itself: what is    *)
(* put on a tile takes it from what was there, and what is taken away      *)
(* takes every tile of its area with it.                                   *)
(***************************************************************************)
EXTENDS Integers, Functions, TLAPS

CONSTANTS
  March, Vision,
  Point, \* pairs of coordinates
  Area,  \* pairs of a lower left and an upper right corner
  Id,    \* of entities; positive
  Length, Width, \* len_ and wid_
  Place  \* areas that entities and obstacles fill

OBSTACLE_ID == -9999999

VARIABLES
  march,   \* march_: id -> where it is and where it goes
  vision,  \* vision_: id -> [bl, tr, march]
  centers, \* pos_vids_: point -> the visions that have their centre there
  shown,   \* what the player who looks was told to show
  entity,  \* entity_: id -> its area
  tile,    \* pos_eid_: point -> what stands there
  obstacle, \* the points that are obstacles by what the game did last there
  loose,    \* the entities that may have lost a tile to what came and went on them
  strayed   \* the ids added again while they were there, whose former tiles stay theirs
marchVars == <<march, vision, centers, shown>>
tileVars == <<entity, tile, obstacle, loose, strayed>>
vars == <<marchVars, tileVars>>

Put(f, k, v) == [x \in DOMAIN f \cup {k} |-> IF x = k THEN v ELSE f[x]]
Erase(f, k) == Restrict(f, DOMAIN f \ {k})

Lower(a, b) == IF a < b THEN a ELSE b
Upper(a, b) == IF a < b THEN b ELSE a

----------------------------------------------------------------------------
\* The plane: whether a march, a segment, crosses a rectangle.
InArea(p, bl, tr) == p[1] \in bl[1] .. tr[1] /\ p[2] \in bl[2] .. tr[2]

\* On which side of the line from a to b is c; rounding to float leaves the sign alone.
Cross(a, b, c) == (b[1] - a[1]) * (c[2] - a[2]) - (c[1] - a[1]) * (b[2] - a[2])

\* Whether the segment from a to b and that from c to d meet.
Intersect(a, b, c, d) ==
  /\ \A i \in 1 .. 2 :
       /\ Upper(a[i], b[i]) >= Lower(c[i], d[i])
       /\ Upper(c[i], d[i]) >= Lower(a[i], b[i])
  /\ Cross(a, b, c) * Cross(a, b, d) <= 0
  /\ Cross(c, d, a) * Cross(c, d, b) <= 0

MarchInVision(cur, end, bl, tr) ==
  \/ InArea(cur, bl, tr) \/ InArea(end, bl, tr)
  \/ LET corner == <<bl, <<bl[1], tr[2]>>, tr, <<tr[1], bl[2]>>>>
     IN  \E i \in 1 .. 4 : Intersect(cur, end, corner[i], corner[1 + (i % 4)])

----------------------------------------------------------------------------
VisionMarch(v) == {m \in DOMAIN march : MarchInVision(march[m][1], march[m][2], v.bl, v.tr)}

\* Corners are not negative, so that / of C++ is \div.
Center(v) == <<(v.bl[1] + v.tr[1]) \div 2, (v.bl[2] + v.tr[2]) \div 2>>

\* set_ of del_vision, which goes when it is empty.
Uncentered(c, v) ==
  IF v \notin DOMAIN vision THEN c
  ELSE LET p == Center(vision[v])
       IN  IF c[p] = {v} THEN Erase(c, p) ELSE Put(c, p, c[p] \ {v})

\* area_vid: the visions whose centres lie in an area.
AreaVid(bl, tr) == UNION {centers[p] : p \in {q \in DOMAIN centers : InArea(q, bl, tr)}}

\* Those of Map::check_pos.
OnMap == (0 .. Length - 1) \X (0 .. Width - 1)
Points(a) == (a[1][1] .. a[2][1]) \X (a[1][2] .. a[2][2])
\* traversal_area.
Tiles(a) == Points(a) \cap OnMap

Without(f, S) == Restrict(f, DOMAIN f \ S)
Filled(a, id) == [p \in Tiles(a) \cup DOMAIN tile |-> IF p \in Tiles(a) THEN id ELSE tile[p]]

Obstacle(p) == p \notin OnMap \/ p \in DOMAIN tile
AreaObstacle(a) == \E p \in Points(a) : Obstacle(p)
AreaEid(a) == {tile[p] : p \in Tiles(a) \cap DOMAIN tile} \ {OBSTACLE_ID}
Meets(a) == {id \in DOMAIN entity : Tiles(entity[id]) \cap Tiles(a) # {}}

Init ==
  /\ march = [m \in {} |-> 0] /\ vision = [v \in {} |-> 0] /\ centers = [p \in {} |-> {}]
  /\ shown = [v \in Vision |-> {}]
  /\ entity = [i \in {} |-> 0] /\ tile = [p \in {} |-> 0] /\ obstacle = {}
  /\ loose = {} /\ strayed = {}

----------------------------------------------------------------------------
AddMarch(m, cur, end) ==
  march' = Put(march, m, <<cur, end>>) /\ UNCHANGED <<vision, centers, shown>>
DelMarch(m) == march' = Erase(march, m) /\ UNCHANGED <<vision, centers, shown>>
ClearMarch == march' = [m \in {} |-> 0] /\ UNCHANGED <<vision, centers, shown>>

\* A vision that was there already keeps the marches it showed.
SetVision(v, bl, tr) ==
  LET new == [bl |-> bl, tr |-> tr, march |-> IF v \in DOMAIN vision THEN vision[v].march ELSE {}]
      rest == Uncentered(centers, v)
      p == Center(new)
  IN  /\ vision' = Put(vision, v, new)
      /\ centers' = Put(rest, p, {v} \cup IF p \in DOMAIN rest THEN rest[p] ELSE {})
      /\ UNCHANGED <<march, shown>>

\* The player looks away, and shows nothing.
DelVision(v) ==
  /\ vision' = Erase(vision, v) /\ centers' = Uncentered(centers, v)
  /\ shown' = [shown EXCEPT ![v] = {}]
  /\ UNCHANGED march

VisionDiff(v) ==
  /\ v \in DOMAIN vision
  /\ LET new == VisionMarch(vision[v])
         old == vision[v].march
     IN  /\ vision' = [vision EXCEPT ![v].march = new]
         /\ shown' = [shown EXCEPT ![v] = (@ \ (old \ new)) \cup (new \ old)]
  /\ UNCHANGED <<march, centers>>

\* Areas may reach over the edge of the map, and over what stands there.
AddObstacle(a) ==
  /\ tile' = Filled(a, OBSTACLE_ID)
  /\ obstacle' = obstacle \cup Tiles(a) /\ loose' = loose \cup Meets(a)
  /\ UNCHANGED <<entity, strayed>>

DelObstacle(a) ==
  /\ tile' = Without(tile, Tiles(a))
  /\ obstacle' = obstacle \ Tiles(a) /\ loose' = loose \cup Meets(a)
  /\ UNCHANGED <<entity, strayed>>

\* An id that is there already is moved, and its former tiles stay.
AddEntity(id, a) ==
  /\ entity' = [i \in DOMAIN entity \cup {id} |-> IF i = id THEN a ELSE entity[i]]
  /\ tile' = Filled(a, id)
  /\ LET met == Meets(a) \ {id}
     IN  loose' = (loose \ {id}) \cup met \cup (IF met = {} THEN {} ELSE {id})
  /\ strayed' = strayed \cup ({id} \cap DOMAIN entity)
  /\ obstacle' = obstacle \ Tiles(a)

DelEntity(id) ==
  /\ id \in DOMAIN entity
  /\ tile' = Without(tile, Tiles(entity[id]))
  /\ entity' = Without(entity, {id})
  /\ obstacle' = obstacle \ Tiles(entity[id]) /\ loose' = loose \ {id}
  /\ UNCHANGED strayed

MarchNext ==
  \/ ClearMarch
  \/ \E m \in March : DelMarch(m) \/ \E cur, end \in Point : AddMarch(m, cur, end)
  \/ \E v \in Vision : DelVision(v) \/ VisionDiff(v) \/ \E a \in Area : SetVision(v, a[1], a[2])
TileNext ==
  \/ \E a \in Place : AddObstacle(a) \/ DelObstacle(a)
  \/ \E id \in Id : DelEntity(id) \/ \E a \in Place : AddEntity(id, a)
Next == (MarchNext /\ UNCHANGED tileVars) \/ (TileNext /\ UNCHANGED marchVars)

Spec == Init /\ [][Next]_vars

----------------------------------------------------------------------------
TypeOK ==
  /\ DOMAIN march \subseteq March /\ \A m \in DOMAIN march : march[m] \in Point \X Point
  /\ DOMAIN vision \subseteq Vision
  /\ \A v \in DOMAIN vision : <<vision[v].bl, vision[v].tr>> \in Area /\ vision[v].march \subseteq March
  /\ \A p \in DOMAIN centers : centers[p] \in SUBSET Vision \ {{}}
  /\ shown \in [Vision -> SUBSET March]
  /\ DOMAIN entity \subseteq Id /\ \A id \in DOMAIN entity : entity[id] \in Place
  /\ DOMAIN tile \subseteq OnMap /\ \A p \in DOMAIN tile : tile[p] \in Id \cup {OBSTACLE_ID}
  /\ obstacle \subseteq OnMap /\ loose \subseteq DOMAIN entity /\ strayed \subseteq Id

\* The reference: a segment misses a rectangle if it lies beyond one of its sides, or
\* all corners of the rectangle lie on one side of it.
Misses(cur, end, bl, tr) ==
  \/ \E i \in 1 .. 2 : Upper(cur[i], end[i]) < bl[i] \/ tr[i] < Lower(cur[i], end[i])
  \/ LET sides == {Cross(cur, end, <<x, y>>) : x \in {bl[1], tr[1]}, y \in {bl[2], tr[2]}}
     IN  (\A s \in sides : s < 0) \/ (\A s \in sides : s > 0)

\* The next answer makes the player show just the marches that cross what it looks
\* at, whatever marches and visions were moved, removed and set again since; and each
\* vision is found where its centre is now, and only there.
VisionFollows ==
  /\ \A v \in DOMAIN vision :
       LET new == VisionMarch(vision[v])
           old == vision[v].march
       IN  (shown[v] \ (old \ new)) \cup (new \ old)
           = {m \in DOMAIN march : ~Misses(march[m][1], march[m][2], vision[v].bl, vision[v].tr)}
  /\ \A a \in Area :
       AreaVid(a[1], a[2]) = {v \in DOMAIN vision : InArea(Center(vision[v]), a[1], a[2])}

\* After whatever came and went, one over the other or not: the entities of an area are
\* among those whose own areas it meets, and all that nothing was put on or taken from; and
\* it is refused just if it leaves the map or meets an obstacle or an entity.  Only ids
\* added twice are found where they no longer are.
TilesAreWhatStands ==
  \A a \in Place :
    LET barred == ~(Points(a) \subseteq OnMap) \/ Points(a) \cap obstacle # {}
    IN  /\ AreaEid(a) \ strayed \subseteq Meets(a)
        /\ Meets(a) \ loose \subseteq AreaEid(a)
        /\ barred \/ Meets(a) \ loose # {} => AreaObstacle(a)
        /\ AreaObstacle(a) => barred \/ Meets(a) # {} \/ AreaEid(a) \cap strayed # {}
----------------------------------------------------------------------------
(* What stands on the tiles, on maps of any size and for areas that may    *)
(* reach over the edge, and what is shown and where a vision is found.     *)

\* An entity that nothing was put on or taken from has its own tiles, not shared; and what
\* an id has elsewhere it has because it was added twice.
TileInv ==
  /\ DOMAIN entity \subseteq Id
  /\ \A id \in DOMAIN entity \ loose : \A p \in Tiles(entity[id]) : p \in DOMAIN tile /\ tile[p] = id
  /\ \A id \in DOMAIN entity \ loose : \A i \in DOMAIN entity \ {id} :
       Tiles(entity[id]) \cap Tiles(entity[i]) = {}
  /\ \A p \in DOMAIN tile :
       /\ p \in OnMap
       /\ tile[p] = OBSTACLE_ID => p \in obstacle
       /\ tile[p] # OBSTACLE_ID =>
            \/ tile[p] \in strayed
            \/ tile[p] \in DOMAIN entity /\ p \in Tiles(entity[tile[p]])
  /\ \A p \in obstacle : p \in DOMAIN tile /\ tile[p] = OBSTACLE_ID

LEMMA WithoutIs ==
  ASSUME NEW f, NEW S
  PROVE  /\ DOMAIN Without(f, S) = DOMAIN f \ S
         /\ \A x \in DOMAIN f \ S : Without(f, S)[x] = f[x]
BY DEF Without, Restrict

LEMMA AddObstacleKeeps ==
  ASSUME OBSTACLE_ID \notin Id, TileInv, NEW a, AddObstacle(a)
  PROVE  TileInv'
<1> DEFINE here == Tiles(a)
<1>1. /\ tile' = Filled(a, OBSTACLE_ID) /\ obstacle' = obstacle \cup here
      /\ entity' = entity /\ strayed' = strayed
      /\ loose' = loose \cup {id \in DOMAIN entity : Tiles(entity[id]) \cap here # {}}
  BY DEF AddObstacle, Meets
<1>2. here \subseteq OnMap
  BY DEF Tiles
<1>3. /\ DOMAIN tile' = here \cup DOMAIN tile
      /\ \A p \in here : tile'[p] = OBSTACLE_ID
      /\ \A p \in DOMAIN tile \ here : tile'[p] = tile[p]
  BY <1>1 DEF Filled
<1> HIDE DEF here
<1>4. ASSUME NEW id \in DOMAIN entity' \ loose', NEW p \in Tiles(entity'[id])
      PROVE  p \in DOMAIN tile' /\ tile'[p] = id
  <2>1. id \in DOMAIN entity \ loose /\ p \in Tiles(entity[id]) /\ p \notin here
    BY <1>1, <1>4
  <2> QED BY <1>3, <2>1 DEF TileInv
<1>5. \A id \in DOMAIN entity' \ loose' : \A i \in DOMAIN entity' \ {id} :
        Tiles(entity'[id]) \cap Tiles(entity'[i]) = {}
  BY <1>1 DEF TileInv
<1>6. ASSUME NEW p \in DOMAIN tile'
      PROVE  /\ p \in OnMap
             /\ tile'[p] = OBSTACLE_ID => p \in obstacle'
             /\ tile'[p] # OBSTACLE_ID =>
                  \/ tile'[p] \in strayed'
                  \/ tile'[p] \in DOMAIN entity' /\ p \in Tiles(entity'[tile'[p]])
  <2>1. CASE p \in here
    BY <1>1, <1>2, <1>3, <2>1
  <2>2. CASE p \notin here
    BY <1>1, <1>3, <1>6, <2>2 DEF TileInv
  <2> QED BY <2>1, <2>2
<1>7. \A p \in obstacle' : p \in DOMAIN tile' /\ tile'[p] = OBSTACLE_ID
  BY <1>1, <1>3 DEF TileInv
<1>8. DOMAIN entity' \subseteq Id
  BY <1>1 DEF TileInv
<1> QED BY <1>4, <1>5, <1>6, <1>7, <1>8 DEF TileInv, Tiles, Points, OnMap

\* What goes from the tiles of an area.
LEMMA Emptied ==
  ASSUME TileInv, NEW gone,
         DOMAIN tile' = DOMAIN tile \ gone, \A p \in DOMAIN tile \ gone : tile'[p] = tile[p],
         obstacle' = obstacle \ gone
  PROVE  /\ \A p \in obstacle' : p \in DOMAIN tile' /\ tile'[p] = OBSTACLE_ID
         /\ \A p \in DOMAIN tile' : p \in OnMap /\ (tile'[p] = OBSTACLE_ID => p \in obstacle')
BY DEF TileInv

LEMMA DelObstacleKeeps ==
  ASSUME OBSTACLE_ID \notin Id, TileInv, NEW a, DelObstacle(a)
  PROVE  TileInv'
<1> DEFINE gone == Tiles(a)
<1>1. /\ tile' = Without(tile, gone) /\ obstacle' = obstacle \ gone
      /\ entity' = entity /\ strayed' = strayed
      /\ loose' = loose \cup {id \in DOMAIN entity : Tiles(entity[id]) \cap gone # {}}
  BY DEF DelObstacle, Meets
<1> HIDE DEF gone
<1>2. DOMAIN tile' = DOMAIN tile \ gone /\ \A p \in DOMAIN tile \ gone : tile'[p] = tile[p]
  BY <1>1, WithoutIs
<1>3. /\ \A p \in obstacle' : p \in DOMAIN tile' /\ tile'[p] = OBSTACLE_ID
      /\ \A p \in DOMAIN tile' : p \in OnMap /\ (tile'[p] = OBSTACLE_ID => p \in obstacle')
  BY <1>1, <1>2, Emptied
<1>4. ASSUME NEW id \in DOMAIN entity' \ loose', NEW p \in Tiles(entity'[id])
      PROVE  p \in DOMAIN tile' /\ tile'[p] = id
  <2>1. id \in DOMAIN entity \ loose /\ p \in Tiles(entity[id]) /\ p \notin gone
    BY <1>1, <1>4
  <2> QED BY <1>2, <2>1 DEF TileInv
<1>5. \A id \in DOMAIN entity' \ loose' : \A i \in DOMAIN entity' \ {id} :
        Tiles(entity'[id]) \cap Tiles(entity'[i]) = {}
  BY <1>1 DEF TileInv
<1>6. \A p \in DOMAIN tile' : tile'[p] # OBSTACLE_ID =>
        \/ tile'[p] \in strayed'
        \/ tile'[p] \in DOMAIN entity' /\ p \in Tiles(entity'[tile'[p]])
  BY <1>1, <1>2 DEF TileInv
<1>7. DOMAIN entity' \subseteq Id
  BY <1>1 DEF TileInv
<1> QED BY <1>3, <1>4, <1>5, <1>6, <1>7 DEF TileInv, Tiles, Points, OnMap

LEMMA AddEntityKeeps ==
  ASSUME OBSTACLE_ID \notin Id, TileInv, NEW id \in Id, NEW a, AddEntity(id, a)
  PROVE  TileInv'
<1> DEFINE here == Tiles(a)
           met == {i \in DOMAIN entity : Tiles(entity[i]) \cap here # {}} \ {id}
<1>1. /\ tile' = Filled(a, id) /\ obstacle' = obstacle \ here
      /\ DOMAIN entity' = DOMAIN entity \cup {id} /\ entity'[id] = a
      /\ \A i \in DOMAIN entity \ {id} : entity'[i] = entity[i]
      /\ loose' = (loose \ {id}) \cup met \cup (IF met = {} THEN {} ELSE {id})
      /\ strayed' = strayed \cup ({id} \cap DOMAIN entity)
  BY DEF AddEntity, Meets
<1>2. here \subseteq OnMap
  BY DEF Tiles
<1>3. /\ DOMAIN tile' = here \cup DOMAIN tile
      /\ \A p \in here : tile'[p] = id
      /\ \A p \in DOMAIN tile \ here : tile'[p] = tile[p]
  BY <1>1 DEF Filled
<1>4. /\ Tiles(entity'[id]) = here
      /\ \A i \in DOMAIN entity \ {id} : Tiles(entity'[i]) = Tiles(entity[i])
  BY <1>1
<1>5. \A i \in DOMAIN entity' \ loose' :
        /\ i # id => i \in DOMAIN entity \ loose /\ Tiles(entity[i]) \cap here = {}
        /\ i = id => \A k \in DOMAIN entity \ {id} : Tiles(entity[k]) \cap here = {}
  BY <1>1
<1> HIDE DEF here, met
<1>6. ASSUME NEW i \in DOMAIN entity' \ loose', NEW p \in Tiles(entity'[i])
      PROVE  p \in DOMAIN tile' /\ tile'[p] = i
  <2>1. CASE i = id
    BY <1>3, <1>4, <1>6, <2>1
  <2>2. CASE i # id
    <3>1. i \in DOMAIN entity \ loose /\ p \in Tiles(entity[i]) /\ p \notin here
      BY <1>4, <1>5, <1>6, <2>2
    <3> QED BY <1>3, <3>1 DEF TileInv
  <2> QED BY <2>1, <2>2
<1>7. ASSUME NEW i \in DOMAIN entity' \ loose', NEW k \in DOMAIN entity' \ {i}
      PROVE  Tiles(entity'[i]) \cap Tiles(entity'[k]) = {}
  <2>1. CASE i = id
    BY <1>1, <1>4, <1>5, <1>7, <2>1
  <2>2. CASE i # id
    <3>1. i \in DOMAIN entity \ loose /\ Tiles(entity[i]) \cap here = {}
      BY <1>5, <1>7, <2>2
    <3>2. CASE k = id
      BY <1>4, <2>2, <3>1, <3>2
    <3>3. CASE k # id
      <4>1. k \in DOMAIN entity \ {i} /\ Tiles(entity'[k]) = Tiles(entity[k])
        BY <1>1, <1>4, <1>7, <3>3
      <4> QED BY <1>4, <2>2, <3>1, <4>1 DEF TileInv
    <3> QED BY <3>2, <3>3
  <2> QED BY <2>1, <2>2
<1>8. ASSUME NEW p \in DOMAIN tile'
      PROVE  /\ p \in OnMap
             /\ tile'[p] = OBSTACLE_ID => p \in obstacle'
             /\ tile'[p] # OBSTACLE_ID =>
                  \/ tile'[p] \in strayed'
                  \/ tile'[p] \in DOMAIN entity' /\ p \in Tiles(entity'[tile'[p]])
  <2>1. CASE p \in here
    BY <1>1, <1>2, <1>3, <1>4, <2>1
  <2>2. CASE p \notin here
    <3>1. p \in DOMAIN tile /\ tile'[p] = tile[p]
      BY <1>3, <1>8, <2>2
    <3>2. /\ p \in OnMap /\ (tile[p] = OBSTACLE_ID => p \in obstacle)
          /\ \/ tile[p] = OBSTACLE_ID \/ tile[p] \in strayed
             \/ tile[p] \in DOMAIN entity /\ p \in Tiles(entity[tile[p]])
      BY <3>1 DEF TileInv
    <3>3. CASE tile[p] = id
      BY <1>1, <2>2, <3>1, <3>2, <3>3
    <3>4. CASE tile[p] # id
      BY <1>1, <1>4, <2>2, <3>1, <3>2, <3>4
    <3> QED BY <3>3, <3>4
  <2> QED BY <2>1, <2>2
<1>9. \A p \in obstacle' : p \in DOMAIN tile' /\ tile'[p] = OBSTACLE_ID
  BY <1>1, <1>3 DEF TileInv
<1>10. DOMAIN entity' \subseteq Id
  BY <1>1 DEF TileInv
<1> QED BY <1>6, <1>7, <1>8, <1>9, <1>10 DEF TileInv, Tiles, Points, OnMap

LEMMA DelEntityKeeps ==
  ASSUME OBSTACLE_ID \notin Id, TileInv, NEW id \in Id, DelEntity(id)
  PROVE  TileInv'
<1> DEFINE gone == Tiles(entity[id])
<1>1. /\ id \in DOMAIN entity /\ tile' = Without(tile, gone)
      /\ entity' = Without(entity, {id}) /\ obstacle' = obstacle \ gone
      /\ loose' = loose \ {id} /\ strayed' = strayed
  BY DEF DelEntity
<1>2. \A i \in DOMAIN entity \ {id} : i \notin loose => Tiles(entity[i]) \cap gone = {}
  BY <1>1 DEF TileInv
<1>3. \A p \in DOMAIN tile \ gone : tile[p] = id => id \in strayed \/ id = OBSTACLE_ID
  BY DEF TileInv
<1> HIDE DEF gone
<1>4. /\ DOMAIN tile' = DOMAIN tile \ gone
      /\ \A p \in DOMAIN tile \ gone : tile'[p] = tile[p]
      /\ DOMAIN entity' = DOMAIN entity \ {id}
      /\ \A i \in DOMAIN entity \ {id} : entity'[i] = entity[i]
  BY <1>1, WithoutIs
<1>5. /\ \A p \in obstacle' : p \in DOMAIN tile' /\ tile'[p] = OBSTACLE_ID
      /\ \A p \in DOMAIN tile' : p \in OnMap /\ (tile'[p] = OBSTACLE_ID => p \in obstacle')
  BY <1>1, <1>4, Emptied
<1>6. ASSUME NEW i \in DOMAIN entity' \ loose', NEW p \in Tiles(entity'[i])
      PROVE  p \in DOMAIN tile' /\ tile'[p] = i
  <2>1. i \in DOMAIN entity \ {id} /\ i \notin loose /\ p \in Tiles(entity[i])
    BY <1>1, <1>4, <1>6
  <2>2. p \in DOMAIN tile /\ tile[p] = i /\ p \notin gone
    BY <1>2, <2>1 DEF TileInv
  <2> QED BY <1>4, <2>2
<1>7. ASSUME NEW i \in DOMAIN entity' \ loose', NEW k \in DOMAIN entity' \ {i}
      PROVE  Tiles(entity'[i]) \cap Tiles(entity'[k]) = {}
  <2>1. i \in DOMAIN entity \ {id} /\ i \notin loose /\ k \in DOMAIN entity \ {id} /\ k # i
    BY <1>1, <1>4, <1>7
  <2> QED BY <1>4, <2>1 DEF TileInv
<1>8. ASSUME NEW p \in DOMAIN tile', tile'[p] # OBSTACLE_ID, tile'[p] \notin strayed'
      PROVE  tile'[p] \in DOMAIN entity' /\ p \in Tiles(entity'[tile'[p]])
  <2>1. p \in DOMAIN tile \ gone /\ tile'[p] = tile[p]
    BY <1>4
  <2>2. tile[p] \in DOMAIN entity /\ p \in Tiles(entity[tile[p]]) /\ tile[p] # id
    BY <1>1, <1>3, <1>8, <2>1 DEF TileInv
  <2> QED BY <1>4, <2>1, <2>2
<1>9. DOMAIN entity' \subseteq Id
  BY <1>4 DEF TileInv
<1> QED BY <1>5, <1>6, <1>7, <1>8, <1>9 DEF TileInv, Tiles, Points, OnMap

LEMMA InvTiles == OBSTACLE_ID \notin Id /\ TileInv => TilesAreWhatStands
<1> SUFFICES ASSUME OBSTACLE_ID \notin Id, TileInv, NEW a \in Place
             PROVE  LET barred == ~(Points(a) \subseteq OnMap) \/ Points(a) \cap obstacle # {}
                    IN  /\ AreaEid(a) \ strayed \subseteq Meets(a)
                        /\ Meets(a) \ loose \subseteq AreaEid(a)
                        /\ barred \/ Meets(a) \ loose # {} => AreaObstacle(a)
                        /\ AreaObstacle(a) => barred \/ Meets(a) # {} \/ AreaEid(a) \cap strayed # {}
  BY DEF TilesAreWhatStands
<1>1. /\ Tiles(a) = Points(a) \cap OnMap
      /\ \A id : id \in Meets(a) <=> id \in DOMAIN entity /\ Tiles(entity[id]) \cap Tiles(a) # {}
      /\ \A id : id \in AreaEid(a) <=>
           \E p \in Tiles(a) : p \in DOMAIN tile /\ id = tile[p] /\ id # OBSTACLE_ID
      /\ AreaObstacle(a) <=> \E p \in Points(a) : p \notin OnMap \/ p \in DOMAIN tile
  BY DEF Tiles, Meets, AreaEid, AreaObstacle, Obstacle
<1>2. AreaEid(a) \ strayed \subseteq Meets(a)
  <2> SUFFICES ASSUME NEW id \in AreaEid(a), id \notin strayed PROVE id \in Meets(a)
    OBVIOUS
  <2>1. PICK p \in Tiles(a) : p \in DOMAIN tile /\ id = tile[p] /\ id # OBSTACLE_ID
    BY <1>1
  <2>2. id \in DOMAIN entity /\ p \in Tiles(entity[id])
    BY <2>1 DEF TileInv
  <2> QED BY <1>1, <2>1, <2>2
<1>3. ASSUME NEW id \in Meets(a) \ loose
      PROVE  id \in AreaEid(a) /\ AreaObstacle(a)
  <2>1. id \in DOMAIN entity \ loose /\ id # OBSTACLE_ID
    BY <1>1, <1>3 DEF TileInv
  <2>2. PICK p \in Tiles(a) : p \in Tiles(entity[id])
    BY <1>1, <1>3
  <2>3. p \in DOMAIN tile /\ tile[p] = id
    BY <2>1, <2>2 DEF TileInv
  <2> QED BY <1>1, <2>1, <2>2, <2>3
<1>4. ~(Points(a) \subseteq OnMap) \/ Points(a) \cap obstacle # {} => AreaObstacle(a)
  BY <1>1 DEF TileInv
<1>5. ASSUME AreaObstacle(a), Points(a) \subseteq OnMap, Points(a) \cap obstacle = {}
      PROVE  Meets(a) # {} \/ AreaEid(a) \cap strayed # {}
  <2>1. PICK p \in Points(a) : p \in DOMAIN tile
    BY <1>1, <1>5
  <2>2. p \in Tiles(a) /\ tile[p] # OBSTACLE_ID
    BY <1>1, <1>5, <2>1 DEF TileInv
  <2>3. tile[p] \in AreaEid(a)
    BY <1>1, <2>1, <2>2
  <2> QED BY <1>2, <2>3
<1> QED BY <1>2, <1>3, <1>4, <1>5

\* Whatever was put on the map and taken away, one over the other or not, area_eid finds
\* entities that are in an area, all but those something was put on or taken from, and
\* area_obstacle refuses what leaves the map, meets an obstacle or meets such an entity, and
\* nothing that meets none; but for ids that were added twice (map.cc).
THEOREM TilesFollow == OBSTACLE_ID \notin Id => (Spec => []TilesAreWhatStands)
<1> SUFFICES ASSUME OBSTACLE_ID \notin Id PROVE Spec => []TilesAreWhatStands
  OBVIOUS
<1>1. Init => TileInv
  BY DEF Init, TileInv
<1>2. TileInv /\ [Next]_vars => TileInv'
  <2> SUFFICES ASSUME TileInv, [Next]_vars PROVE TileInv'
    OBVIOUS
  <2>1. CASE UNCHANGED tileVars
    BY <2>1 DEF TileInv, tileVars, Tiles, Points, OnMap
  <2>2. CASE TileNext
    BY <2>2, AddObstacleKeeps, DelObstacleKeeps, AddEntityKeeps, DelEntityKeeps DEF TileNext
  <2> QED BY <2>1, <2>2 DEF Next, vars
<1>3. TileInv => TilesAreWhatStands
  BY InvTiles
<1> QED BY <1>1, <1>2, <1>3, PTL DEF Spec
----------------------------------------------------------------------------
\* A player shows what its vision had at its last answer, and a vision is kept at its centre
\* and nowhere else.
VisionInv ==
  /\ DOMAIN vision \subseteq Vision /\ DOMAIN shown = Vision
  /\ \A v \in Vision : shown[v] = IF v \in DOMAIN vision THEN vision[v].march ELSE {}
  /\ \A p \in DOMAIN centers :
       /\ centers[p] # {}
       /\ \A v : v \in centers[p] <=> v \in DOMAIN vision /\ Center(vision[v]) = p
  /\ \A v \in DOMAIN vision :
       /\ DOMAIN vision[v] = {"bl", "tr", "march"}
       /\ Center(vision[v]) \in DOMAIN centers

\* What vision_diff answers next makes the player show the marches that MarchInVision finds,
\* and area_vid finds the visions by where their centres are now.
AnswersAreWhole ==
  /\ \A v \in DOMAIN vision :
       LET new == VisionMarch(vision[v])
           old == vision[v].march
       IN  (shown[v] \ (old \ new)) \cup (new \ old) = new
  /\ \A bl, tr : AreaVid(bl, tr) = {v \in DOMAIN vision : InArea(Center(vision[v]), bl, tr)}

\* del_vision of map.cc, before the vision is set again or for good.
LEMMA UncenteredIs ==
  ASSUME VisionInv, NEW v, NEW c, c = Uncentered(centers, v)
  PROVE  /\ \A p \in DOMAIN c :
              /\ c[p] # {}
              /\ \A w : w \in c[p] <=> w \in DOMAIN vision \ {v} /\ Center(vision[w]) = p
         /\ \A w \in DOMAIN vision \ {v} : Center(vision[w]) \in DOMAIN c
<1>1. CASE v \notin DOMAIN vision
  <2>1. c = centers
    BY <1>1 DEF Uncentered
  <2> QED BY <1>1, <2>1 DEF VisionInv
<1>2. CASE v \in DOMAIN vision
  <2> DEFINE q == Center(vision[v])
  <2>1. q \in DOMAIN centers /\ v \in centers[q]
    BY <1>2 DEF VisionInv
  <2>2. c = IF centers[q] = {v} THEN Erase(centers, q) ELSE Put(centers, q, centers[q] \ {v})
    BY <1>2 DEF Uncentered
  <2>3. \A p \in DOMAIN centers : \A w :
          w \in centers[p] <=> w \in DOMAIN vision /\ Center(vision[w]) = p
    BY DEF VisionInv
  <2>4. \A p \in DOMAIN centers : centers[p] # {}
    BY DEF VisionInv
  <2>5. \A w \in DOMAIN vision : Center(vision[w]) \in DOMAIN centers
    BY DEF VisionInv
  <2>6. q = Center(vision[v])
    OBVIOUS
  <2> HIDE DEF q
  <2>7. CASE centers[q] = {v}
    <3>1. DOMAIN c = DOMAIN centers \ {q} /\ \A p \in DOMAIN c : c[p] = centers[p]
      BY <2>2, <2>7 DEF Erase, Restrict
    <3>2. \A w \in DOMAIN vision \ {v} : Center(vision[w]) # q
      BY <2>1, <2>3, <2>7
    <3> QED BY <2>3, <2>4, <2>5, <2>6, <3>1, <3>2
  <2>8. CASE centers[q] # {v}
    <3>1. /\ DOMAIN c = DOMAIN centers /\ c[q] = centers[q] \ {v}
          /\ \A p \in DOMAIN c \ {q} : c[p] = centers[p]
      BY <2>1, <2>2, <2>8 DEF Put
    <3>2. c[q] # {}
      BY <2>1, <2>8, <3>1
    <3> QED BY <2>3, <2>4, <2>5, <2>6, <3>1, <3>2
  <2> QED BY <2>7, <2>8
<1> QED BY <1>1, <1>2

LEMMA SetVisionKeeps ==
  ASSUME VisionInv, NEW v \in Vision, NEW bl, NEW tr, SetVision(v, bl, tr)
  PROVE  VisionInv'
<1> DEFINE new == [bl |-> bl, tr |-> tr, march |-> IF v \in DOMAIN vision THEN vision[v].march ELSE {}]
           rest == Uncentered(centers, v)
           q == Center(new)
           those == {v} \cup IF q \in DOMAIN rest THEN rest[q] ELSE {}
<1>1. vision' = Put(vision, v, new) /\ centers' = Put(rest, q, those) /\ shown' = shown
  BY DEF SetVision
<1>2. /\ DOMAIN vision' = DOMAIN vision \cup {v} /\ vision'[v] = new
      /\ \A w \in DOMAIN vision \ {v} : vision'[w] = vision[w]
  <2> HIDE DEF new
  <2> QED BY <1>1 DEF Put
<1>3. /\ new.march = IF v \in DOMAIN vision THEN vision[v].march ELSE {}
      /\ DOMAIN new = {"bl", "tr", "march"}
  OBVIOUS
<1>4. /\ \A p \in DOMAIN rest :
           /\ rest[p] # {}
           /\ \A w : w \in rest[p] <=> w \in DOMAIN vision \ {v} /\ Center(vision[w]) = p
      /\ \A w \in DOMAIN vision \ {v} : Center(vision[w]) \in DOMAIN rest
  <2> HIDE DEF rest
  <2>1. rest = Uncentered(centers, v)
    BY DEF rest
  <2> QED BY <2>1, UncenteredIs
<1>5. q = Center(vision'[v])
  <2> HIDE DEF new
  <2> QED BY <1>2
<1> HIDE DEF new, rest, q
<1>6. /\ DOMAIN centers' = DOMAIN rest \cup {q} /\ centers'[q] = those
      /\ \A p \in DOMAIN rest \ {q} : centers'[p] = rest[p]
  <2> HIDE DEF those
  <2> QED BY <1>1 DEF Put
<1>7. \A w \in Vision : shown'[w] = IF w \in DOMAIN vision' THEN vision'[w].march ELSE {}
  BY <1>1, <1>2, <1>3 DEF VisionInv
<1>8. ASSUME NEW p \in DOMAIN centers'
      PROVE  /\ centers'[p] # {}
             /\ \A w : w \in centers'[p] <=> w \in DOMAIN vision' /\ Center(vision'[w]) = p
  <2>1. CASE p = q
    <3>1. \A w : w \in those <=> w = v \/ (w \in DOMAIN vision \ {v} /\ Center(vision[w]) = q)
      BY <1>4
    <3> HIDE DEF those
    <3> QED BY <1>2, <1>5, <1>6, <2>1, <3>1
  <2>2. CASE p # q
    <3>1. p \in DOMAIN rest /\ centers'[p] = rest[p]
      BY <1>6, <1>8, <2>2
    <3> QED BY <1>2, <1>4, <1>5, <2>2, <3>1
  <2> QED BY <2>1, <2>2
<1>9. \A w \in DOMAIN vision' : Center(vision'[w]) \in DOMAIN centers'
  BY <1>2, <1>4, <1>5, <1>6
<1>10. \A w \in DOMAIN vision' : DOMAIN vision'[w] = {"bl", "tr", "march"}
  BY <1>2, <1>3 DEF VisionInv
<1> QED BY <1>1, <1>2, <1>7, <1>8, <1>9, <1>10 DEF VisionInv

LEMMA DelVisionKeeps ==
  ASSUME VisionInv, NEW v \in Vision, DelVision(v)
  PROVE  VisionInv'
<1>1. /\ DOMAIN vision' = DOMAIN vision \ {v}
      /\ \A w \in DOMAIN vision \ {v} : vision'[w] = vision[w]
      /\ centers' = Uncentered(centers, v)
      /\ shown' = [shown EXCEPT ![v] = {}]
  BY DEF DelVision, Erase, Restrict
<1>2. /\ \A p \in DOMAIN centers' :
           /\ centers'[p] # {}
           /\ \A w : w \in centers'[p] <=> w \in DOMAIN vision \ {v} /\ Center(vision[w]) = p
      /\ \A w \in DOMAIN vision \ {v} : Center(vision[w]) \in DOMAIN centers'
  BY <1>1, UncenteredIs
<1>3. /\ DOMAIN shown' = Vision
      /\ \A w \in Vision : shown'[w] = IF w \in DOMAIN vision' THEN vision'[w].march ELSE {}
  BY <1>1 DEF VisionInv
<1> QED BY <1>1, <1>2, <1>3 DEF VisionInv

LEMMA VisionDiffKeeps ==
  ASSUME VisionInv, NEW v \in Vision, VisionDiff(v)
  PROVE  VisionInv'
<1> DEFINE new == VisionMarch(vision[v])
           old == vision[v].march
<1>1. /\ v \in DOMAIN vision /\ centers' = centers
      /\ vision' = [vision EXCEPT ![v].march = new]
      /\ shown' = [shown EXCEPT ![v] = (@ \ (old \ new)) \cup (new \ old)]
  BY DEF VisionDiff
<1> HIDE DEF new
<1>2. DOMAIN vision' = DOMAIN vision /\ \A w \in DOMAIN vision \ {v} : vision'[w] = vision[w]
  BY <1>1
<1>3. vision'[v] = [vision[v] EXCEPT !.march = new]
  BY <1>1
<1>4. /\ vision'[v].bl = vision[v].bl /\ vision'[v].tr = vision[v].tr
      /\ vision'[v].march = new /\ DOMAIN vision'[v] = {"bl", "tr", "march"}
  BY <1>1, <1>3 DEF VisionInv
<1>5. \A w \in DOMAIN vision : Center(vision'[w]) = Center(vision[w])
  BY <1>2, <1>4 DEF Center
<1>6. shown[v] = old
  BY <1>1 DEF VisionInv
<1> HIDE DEF old
<1>7. shown' = [shown EXCEPT ![v] = new]
  <2>1. (old \ (old \ new)) \cup (new \ old) = new
    OBVIOUS
  <2> QED BY <1>1, <1>6, <2>1
<1>8. /\ DOMAIN shown' = Vision
      /\ \A w \in Vision : shown'[w] = IF w \in DOMAIN vision' THEN vision'[w].march ELSE {}
  <2>1. DOMAIN shown' = Vision /\ shown'[v] = new /\ \A w \in Vision \ {v} : shown'[w] = shown[w]
    BY <1>7 DEF VisionInv
  <2>2. \A w \in Vision : shown[w] = IF w \in DOMAIN vision THEN vision[w].march ELSE {}
    BY DEF VisionInv
  <2> QED BY <1>1, <1>2, <1>4, <2>1, <2>2
<1>9. \A p \in DOMAIN centers' :
        /\ centers'[p] # {}
        /\ \A w : w \in centers'[p] <=> w \in DOMAIN vision' /\ Center(vision'[w]) = p
  BY <1>1, <1>2, <1>5 DEF VisionInv
<1>10. \A w \in DOMAIN vision' : DOMAIN vision'[w] = {"bl", "tr", "march"} /\ Center(vision'[w]) \in DOMAIN centers'
  BY <1>1, <1>2, <1>4, <1>5 DEF VisionInv
<1> QED BY <1>2, <1>8, <1>9, <1>10 DEF VisionInv

LEMMA InvAnswers == VisionInv => AnswersAreWhole
<1> SUFFICES ASSUME VisionInv PROVE AnswersAreWhole
  OBVIOUS
<1>1. ASSUME NEW v \in DOMAIN vision
      PROVE  LET new == VisionMarch(vision[v])
                 old == vision[v].march
             IN  (shown[v] \ (old \ new)) \cup (new \ old) = new
  <2>1. shown[v] = vision[v].march
    BY DEF VisionInv
  <2> QED BY <2>1
<1>2. ASSUME NEW bl, NEW tr
      PROVE  AreaVid(bl, tr) = {v \in DOMAIN vision : InArea(Center(vision[v]), bl, tr)}
  <2>1. \A p \in DOMAIN centers : \A v :
          v \in centers[p] <=> v \in DOMAIN vision /\ Center(vision[v]) = p
    BY DEF VisionInv
  <2>2. \A v \in DOMAIN vision : Center(vision[v]) \in DOMAIN centers
    BY DEF VisionInv
  <2>3. \A v : v \in AreaVid(bl, tr) <=> \E p \in DOMAIN centers : InArea(p, bl, tr) /\ v \in centers[p]
    BY DEF AreaVid
  <2> QED BY <2>1, <2>2, <2>3
<1> QED BY <1>1, <1>2 DEF AnswersAreWhole

\* Whatever marches and visions were set, moved and removed since, the next answer of
\* vision_diff makes what a player shows complete, and area_vid finds each vision at its
\* centre (map.cc).  That MarchInVision finds the marches that cross is geometry.
THEOREM VisionsAnswer == Spec => []AnswersAreWhole
<1>1. Init => VisionInv
  BY DEF Init, VisionInv
<1>2. VisionInv /\ [Next]_vars => VisionInv'
  <2> SUFFICES ASSUME VisionInv, [Next]_vars PROVE VisionInv'
    OBVIOUS
  <2>1. ASSUME UNCHANGED <<vision, centers, shown>> PROVE VisionInv'
    BY <2>1 DEF VisionInv, Center
  <2>2. CASE UNCHANGED marchVars
    BY <2>1, <2>2 DEF marchVars
  <2>3. CASE ClearMarch
    BY <2>1, <2>3 DEF ClearMarch
  <2>4. CASE \E m \in March : DelMarch(m) \/ \E cur, end \in Point : AddMarch(m, cur, end)
    BY <2>1, <2>4 DEF DelMarch, AddMarch
  <2>5. CASE \E v \in Vision : DelVision(v) \/ VisionDiff(v) \/ \E a \in Area : SetVision(v, a[1], a[2])
    BY <2>5, SetVisionKeeps, DelVisionKeeps, VisionDiffKeeps
  <2> QED BY <2>2, <2>3, <2>4, <2>5 DEF Next, MarchNext, vars
<1>3. VisionInv => AnswersAreWhole
  BY InvAnswers
<1> QED BY <1>1, <1>2, <1>3, PTL DEF Spec
=============================================================================

------------------------------- MODULE World -------------------------------
(***************************************************************************)
(* mmoccskill/cc: actors move on a map that is cut into squares of side    *)
(* AOILEN; an actor sees those in its square and the eight around it.      *)
(* setpos answers whom the actor that moved begins and ceases to see; what *)
(* the game makes of the answers is external, and done as mmo/map.lua does *)
(* it with those of its own core: it tells both sides.                     *)
(*   An answer holds no more than AOIMAX actors, and one that tells whom    *)
(* an actor ceases to see twice as many: where there are more, the rest is *)
(* left out, and which that is the order of a hash table decides.          *)
(*   The second half is the search of Aoi for those a skill of an actor    *)
(* meets, and useskill, which does to each what the skill does (it only    *)
(* prints, and is left out).  Coordinates are whole, and a range is kept in*)
(* integers by squaring.                                                   *)
(***************************************************************************)
EXTENDS Integers, FiniteSets, TLAPS

CONSTANTS
  Actor,
  Length, Width,  \* len_ and wid_
  Square,    \* AOILEN
  Xs, Ys,    \* the coordinates that are asked for, on the map or off it
  Camp,      \* actor -> camp_
  Most       \* AOIMAX

VARIABLES
  pos,  \* actor_: the positions of the actors that are there
  aoi,  \* aoi_, as a set of pairs of a square and an actor
  sees, \* whom each actor was told it sees
  cut   \* those who once got an answer that was cut, for what the answers are to tell
vars == <<pos, aoi, sees, cut>>

Clamp(v, max) == IF v < 0 THEN 0 ELSE IF v > max THEN max ELSE v

\* Mutant: the far edges are not looked at.
UncorrectedPos(x, y) == <<Clamp(x, x), Clamp(y, y)>>

CorrectPos(x, y) == <<Clamp(x, Length - 1), Clamp(y, Width - 1)>>
Grid(p) == <<p[1] \div Square, p[2] \div Square>>

Coincide(g, h) == g[1] \in h[1] - 1 .. h[1] + 1 /\ g[2] \in h[2] - 1 .. h[2] + 1

\* traversal_area of the squares around g in the index a.
Around(a, g) == {e \in a : Coincide(e[1], g)}
Ids(E) == {e[2] : e \in E}

\* Aoi::diff.
Adds(a, id, old, new) == Ids({e \in Around(a, new) : ~Coincide(e[1], old)}) \ {id}
Dels(a, old, new) == Ids({e \in Around(a, old) : ~Coincide(e[1], new)})

\* What is told of those an answer is about, when it has room for max of them.
Fits(all, max) == Cardinality(all) <= max
Told(all, max) == {S \in SUBSET all : IF Fits(all, max) THEN S = all ELSE Cardinality(S) = max}

Init ==
  /\ pos = [id \in {} |-> <<0, 0>>] /\ aoi = {}
  /\ sees = [id \in Actor |-> {}] /\ cut = {}

----------------------------------------------------------------------------
\* An actor and the others begin and cease to see each other.
Tell(id, adds, dels) ==
  sees' = [o \in Actor |->
             IF o = id THEN (sees[o] \cup adds) \ dels
             ELSE (sees[o] \cup {i \in {id} : o \in adds}) \ {i \in {id} : o \in dels}]

\* World::addactor, and aoi_ids for those that see the new actor.
AddActor(id, x, y) ==
  /\ id \notin DOMAIN pos
  /\ LET p == CorrectPos(x, y)
     IN  /\ pos' = [o \in DOMAIN pos \cup {id} |-> IF o = id THEN p ELSE pos[o]]
         /\ aoi' = aoi \cup {<<Grid(p), id>>}
         /\ LET all == Ids(Around(aoi', Grid(p)))
            IN  /\ \E ids \in Told(all, Most) : Tell(id, ids \ {id}, {})
                /\ cut' = IF Fits(all, Most) THEN cut ELSE cut \cup {id}

\* aoi_ids, and World::delactor.
DelActor(id) ==
  /\ id \in DOMAIN pos
  /\ pos' = [o \in DOMAIN pos \ {id} |-> pos[o]]
  /\ aoi' = aoi \ {<<Grid(pos[id]), id>>}
  /\ LET all == Ids(Around(aoi, Grid(pos[id])))
     IN  /\ \E ids \in Told(all, Most) : Tell(id, {}, ids \ {id})
         /\ cut' = IF Fits(all, Most) THEN cut ELSE cut \cup {id}

\* World::setpos.
SetPos(id, x, y) ==
  /\ id \in DOMAIN pos
  /\ LET p == CorrectPos(x, y)
         old == Grid(pos[id])
         new == Grid(p)
     IN  /\ pos' = [pos EXCEPT ![id] = p]
         /\ aoi' = (aoi \ {<<old, id>>}) \cup {<<new, id>>}
         /\ LET adds == Adds(aoi', id, old, new)
                dels == Dels(aoi', old, new)
            IN  /\ \E a \in Told(adds, Most), d \in Told(dels, 2 * Most) : Tell(id, a, d)
                /\ cut' = IF Fits(adds, Most) /\ Fits(dels, 2 * Most) THEN cut ELSE cut \cup {id}

Next ==
  \E id \in Actor :
    \/ DelActor(id)
    \/ \E x \in Xs, y \in Ys : AddActor(id, x, y) \/ SetPos(id, x, y)

Spec == Init /\ [][Next]_vars

----------------------------------------------------------------------------
TypeOK ==
  /\ DOMAIN pos \subseteq Actor
  /\ \A id \in DOMAIN pos : pos[id] \in (0 .. Length - 1) \X (0 .. Width - 1)
  /\ aoi \subseteq (Nat \X Nat) \X Actor
  /\ sees \in [Actor -> SUBSET Actor] /\ cut \subseteq Actor

\* After any moves, the answers add up to what there is to see: of two actors, neither of
\* whom got an answer that was cut, each was told of the other just when they are there
\* and their squares touch.
SeesNeighbours ==
  \A id, o \in Actor \ cut :
    o \in sees[id] <=>
      /\ id # o /\ id \in DOMAIN pos /\ o \in DOMAIN pos
      /\ LET g == Grid(pos[id])  h == Grid(pos[o])
         IN  (g[1] - h[1]) \in -1 .. 1 /\ (g[2] - h[2]) \in -1 .. 1

----------------------------------------------------------------------------
Sq(v) == v * v
Dis(p, q) == Sq(q[1] - p[1]) + Sq(q[2] - p[2])
Dot(d, v) == d[1] * v[1] + d[2] * v[2]
Side(d, v) == d[1] * v[2] - d[2] * v[1]

Circle(p, r, q) == Dis(p, q) <= Sq(r)

\* dp - p of sector and rectangle, of which both coordinates come from d.y_.
Facing(d) == <<d[2], d[2]>>
To(p, q) == <<q[1] - p[1], q[2] - p[2]>>

\* With an angle of 90: whether q is not behind p.  If q is p, or the actor faces
\* nowhere, cosv is not a number, and no comparison holds.
Sector(p, d, r, q) ==
  /\ Circle(p, r, q) /\ q # p /\ Facing(d) # <<0, 0>>
  /\ Dot(Facing(d), To(p, q)) >= 0

Rectangle(p, d, l, w, q) ==
  LET f == Facing(d)  v == To(p, q)
  IN  /\ q # p /\ f # <<0, 0>>
      /\ Dot(f, v) >= 0 /\ Sq(Dot(f, v)) <= Sq(l) * Dis(<<0, 0>>, f)
      /\ Sq(Side(f, v)) <= Sq(w) * Dis(<<0, 0>>, f)

\* range_func.
InRange(s, p, d, q) ==
  CASE s.rtp = 1 -> Circle(p, s.p1, q)
    [] s.rtp = 2 -> Sector(p, d, s.p1, q)
    [] s.rtp = 3 -> Rectangle(p, d, s.p1, s.p2, q)
    [] OTHER -> FALSE

\* Whether a rectangle is sure to have one that it holds: to q straight ahead, cosv may come
\* out above 1, of which acos is not a number.
IsMet(s, p, d, q) == InRange(s, p, d, q) /\ (s.rtp = 3 => Side(Facing(d), To(p, q)) # 0)

\* Those around, of whom aoi_ids tells.
Near(id) == Ids(Around(aoi, Grid(pos[id])))

\* Mutant: any of them, up to the number.
NearestAny(S, num, p) == {N \in SUBSET S : Cardinality(N) = num}

\* The answers of nth_element: num of them, none of whom is farther than another.
Nearest(S, num, p) ==
  {N \in SUBSET S :
     /\ Cardinality(N) = num
     /\ \A n \in N, o \in S \ N : Dis(p, pos[n]) <= Dis(p, pos[o])}

\* Those of the camp asked for whom a range holds, or is sure to meet.
Held(id, d, s, ids) ==
  {o \in ids : s.samecamp = (Camp[o] = Camp[id]) /\ InRange(s, pos[id], d, pos[o])}
Sure(id, d, s, ids) == {o \in Held(id, d, s, ids) : IsMet(s, pos[id], d, pos[o])}

\* Aoi::search for an actor that faces d: the sets it may answer.
Search(id, d, s) ==
  IF s.num <= 0 \/ id \notin DOMAIN pos THEN {{}}
  ELSE UNION {
    UNION {
      IF Cardinality(found) <= s.num THEN {found} ELSE Nearest(found, s.num, pos[id]) :
      found \in {S \in SUBSET Held(id, d, s, ids) : Sure(id, d, s, ids) \subseteq S}} :
    ids \in Told(Near(id), Most)}

----------------------------------------------------------------------------
Kind == [num : 0 .. 2, samecamp : BOOLEAN, rtp : 1 .. 3, p1 : {1, Square}, p2 : {1}]
Faces == {<<1, 0>>, <<0, 1>>}
\* The kinds that reach no farther than a square is wide.
Short == {s \in Kind : s.rtp = 3 => Sq(s.p1) + Sq(s.p2) <= Sq(Square)}

\* A skill that reaches no farther than a square is wide, used where no more are around
\* than an answer has room for, meets the nearest of its camp on the whole map that its
\* range holds: as many as it may, none that it is sure to meet is left out while there is
\* room, and none of these is nearer than one it meets.
MeetsTheNearest ==
  \A id \in DOMAIN pos, d \in Faces, s \in Short :
    Fits(Near(id), Most) =>
      \A met \in Search(id, d, s) :
        /\ met \subseteq Held(id, d, s, DOMAIN pos)
        /\ Cardinality(met) <= s.num
        /\ \A o \in Sure(id, d, s, DOMAIN pos) \ met :
             Cardinality(met) = s.num /\ \A m \in met : Dis(pos[id], pos[m]) <= Dis(pos[id], pos[o])
----------------------------------------------------------------------------
(* Whom an actor sees is proved for maps of any size; the coordinates that *)
(* are asked for need not be on the map.                                   *)
Maps ==
  /\ Length \in Nat \ {0} /\ Width \in Nat \ {0} /\ Square \in Nat \ {0}
  /\ Xs \subseteq Int /\ Ys \subseteq Int

\* The index has each actor that is there in its square, and no other.
WorldInv ==
  /\ DOMAIN pos \subseteq Actor
  /\ \A id \in DOMAIN pos : pos[id] \in Int \X Int
  /\ aoi = {<<Grid(pos[id]), id>> : id \in DOMAIN pos}
  /\ sees \in [Actor -> SUBSET Actor]
  /\ \A id, o \in Actor \ cut :
       o \in sees[id] <=> /\ id \in DOMAIN pos /\ o \in DOMAIN pos /\ o # id
                          /\ Coincide(Grid(pos[o]), Grid(pos[id]))

LEMMA CorrectPosIs ==
  ASSUME Maps, NEW x \in Xs, NEW y \in Ys
  PROVE  CorrectPos(x, y) \in Int \X Int
BY DEF Maps, CorrectPos, Clamp

LEMMA GridIs ==
  ASSUME Maps, NEW p \in Int \X Int
  PROVE  Grid(p) \in Int \X Int
BY DEF Maps, Grid

\* Squares touch each other or do not.
LEMMA CoincideBoth ==
  ASSUME NEW g \in Int \X Int, NEW h \in Int \X Int
  PROVE  /\ Coincide(g, g)
         /\ Coincide(g, h) <=> Coincide(h, g)
         /\ Coincide(g, h) <=> (g[1] - h[1]) \in -1 .. 1 /\ (g[2] - h[2]) \in -1 .. 1
<1>1. ASSUME NEW i \in Int, NEW j \in Int
      PROVE  /\ i \in i - 1 .. i + 1
             /\ i \in j - 1 .. j + 1 <=> j \in i - 1 .. i + 1
             /\ i \in j - 1 .. j + 1 <=> (i - j) \in -1 .. 1
  OBVIOUS
<1>2. g[1] \in Int /\ g[2] \in Int /\ h[1] \in Int /\ h[2] \in Int
  OBVIOUS
<1>3. Coincide(g, g)
  BY <1>1, <1>2 DEF Coincide
<1>4. Coincide(g, h) <=> Coincide(h, g)
  BY <1>1, <1>2 DEF Coincide
<1>5. Coincide(g, h) <=> (g[1] - h[1]) \in -1 .. 1 /\ (g[2] - h[2]) \in -1 .. 1
  BY <1>1, <1>2 DEF Coincide
<1> QED BY <1>3, <1>4, <1>5

\* What traversal_area finds in an index of the positions p.
LEMMA AroundIs ==
  ASSUME NEW p, NEW g, NEW a, a = {<<Grid(p[id]), id>> : id \in DOMAIN p}
  PROVE  Ids(Around(a, g)) = {o \in DOMAIN p : Coincide(Grid(p[o]), g)}
<1>1. \A e \in a : \E o \in DOMAIN p : e = <<Grid(p[o]), o>> /\ e[1] = Grid(p[o]) /\ e[2] = o
  OBVIOUS
<1>2. \A o \in DOMAIN p : \E e \in a : e[1] = Grid(p[o]) /\ e[2] = o
  <2> TAKE o \in DOMAIN p
  <2> WITNESS <<Grid(p[o]), o>> \in a
  <2> QED OBVIOUS
<1>3. \A o : o \in Ids(Around(a, g)) <=> \E e \in a : Coincide(e[1], g) /\ e[2] = o
  BY DEF Ids, Around
<1> QED BY <1>1, <1>2, <1>3

LEMMA AddsAre ==
  ASSUME NEW p, NEW id, NEW old, NEW new, NEW a, a = {<<Grid(p[o]), o>> : o \in DOMAIN p}
  PROVE  Adds(a, id, old, new) =
           {o \in DOMAIN p \ {id} : Coincide(Grid(p[o]), new) /\ ~Coincide(Grid(p[o]), old)}
<1>1. \A e \in a : \E o \in DOMAIN p : e = <<Grid(p[o]), o>> /\ e[1] = Grid(p[o]) /\ e[2] = o
  OBVIOUS
<1>2. \A o \in DOMAIN p : \E e \in a : e[1] = Grid(p[o]) /\ e[2] = o
  <2> TAKE o \in DOMAIN p
  <2> WITNESS <<Grid(p[o]), o>> \in a
  <2> QED OBVIOUS
<1>3. \A o : o \in Adds(a, id, old, new) <=> o # id /\ \E e \in a : Coincide(e[1], new) /\ ~Coincide(e[1], old) /\ e[2] = o
  BY DEF Adds, Ids, Around
<1> QED BY <1>1, <1>2, <1>3

LEMMA DelsAre ==
  ASSUME NEW p, NEW old, NEW new, NEW a, a = {<<Grid(p[o]), o>> : o \in DOMAIN p}
  PROVE  Dels(a, old, new) = {o \in DOMAIN p : Coincide(Grid(p[o]), old) /\ ~Coincide(Grid(p[o]), new)}
<1>1. \A e \in a : \E o \in DOMAIN p : e = <<Grid(p[o]), o>> /\ e[1] = Grid(p[o]) /\ e[2] = o
  OBVIOUS
<1>2. \A o \in DOMAIN p : \E e \in a : e[1] = Grid(p[o]) /\ e[2] = o
  <2> TAKE o \in DOMAIN p
  <2> WITNESS <<Grid(p[o]), o>> \in a
  <2> QED OBVIOUS
<1>3. \A o : o \in Dels(a, old, new) <=> \E e \in a : Coincide(e[1], old) /\ ~Coincide(e[1], new) /\ e[2] = o
  BY DEF Dels, Ids, Around
<1> QED BY <1>1, <1>2, <1>3

LEMMA AddActorKeeps ==
  ASSUME Maps, WorldInv, NEW id \in Actor, NEW x \in Xs, NEW y \in Ys, AddActor(id, x, y)
  PROVE  WorldInv'
<1> DEFINE p == CorrectPos(x, y)
           all == Ids(Around(aoi', Grid(p)))
<1>1. p \in Int \X Int
  BY CorrectPosIs
<1>a. PICK ids \in Told(all, Most) : Tell(id, ids \ {id}, {})
  BY DEF AddActor
<1> DEFINE adds == ids \ {id}
<1>2. /\ id \notin DOMAIN pos
      /\ pos' = [o \in DOMAIN pos \cup {id} |-> IF o = id THEN p ELSE pos[o]]
      /\ aoi' = aoi \cup {<<Grid(p), id>>}
      /\ Tell(id, adds, {})
      /\ cut \subseteq cut' /\ (id \notin cut' => ids = all) /\ ids \subseteq all
  BY <1>a DEF AddActor, Told
<1> HIDE DEF p
<1>3. /\ DOMAIN pos' = DOMAIN pos \cup {id} /\ DOMAIN pos' \subseteq Actor
      /\ pos'[id] = p /\ \A o \in DOMAIN pos : pos'[o] = pos[o]
      /\ \A o \in DOMAIN pos' : pos'[o] \in Int \X Int
  BY <1>1, <1>2 DEF WorldInv
<1>4. aoi' = {<<Grid(pos'[o]), o>> : o \in DOMAIN pos'}
  <2> DEFINE G(q) == Grid(q)
  <2>1. aoi = {<<G(pos[o]), o>> : o \in DOMAIN pos} /\ aoi' = aoi \cup {<<G(p), id>>}
    BY <1>2 DEF WorldInv
  <2> HIDE DEF G
  <2>2. aoi' = {<<G(pos'[o]), o>> : o \in DOMAIN pos'}
    BY <2>1, <1>2, <1>3
  <2> QED BY <2>2 DEF G
<1>b. all = {o \in DOMAIN pos' : Coincide(Grid(pos'[o]), Grid(p))}
  BY <1>4, AroundIs
<1> HIDE DEF all
<1>5. /\ id \notin cut' => adds = {o \in DOMAIN pos' : Coincide(Grid(pos'[o]), Grid(p))} \ {id}
      /\ adds \subseteq DOMAIN pos'
  BY <1>b, <1>2
<1> HIDE DEF adds
<1>6. sees' = [o \in Actor |-> IF o = id THEN sees[o] \cup adds
                               ELSE sees[o] \cup {i \in {id} : o \in adds}]
  BY <1>2 DEF Tell
<1>7. adds \subseteq Actor /\ sees' \in [Actor -> SUBSET Actor]
  BY <1>3, <1>5, <1>6 DEF WorldInv
<1>8. ASSUME NEW i \in Actor \ cut', NEW o \in Actor \ cut'
      PROVE  o \in sees'[i] <=> /\ i \in DOMAIN pos' /\ o \in DOMAIN pos' /\ o # i
                                /\ Coincide(Grid(pos'[o]), Grid(pos'[i]))
  <2>1. \A j \in DOMAIN pos' : Grid(pos'[j]) \in Int \X Int
    BY <1>3, GridIs
  <2>2. o \in sees[i] <=> /\ i \in DOMAIN pos /\ o \in DOMAIN pos /\ o # i
                          /\ Coincide(Grid(pos[o]), Grid(pos[i]))
    BY <1>2 DEF WorldInv
  <2>3. CASE i = id
    BY <1>2, <1>3, <1>5, <1>6, <2>2, <2>3
  <2>4. CASE i # id /\ o = id
    <3>1. o \in sees'[i] <=> i \in adds
      BY <1>2, <1>6, <2>2, <2>4
    <3>2. i \in DOMAIN pos' => (Coincide(Grid(pos'[i]), Grid(pos'[o])) <=> Coincide(Grid(pos'[o]), Grid(pos'[i])))
      BY <2>1, <2>4, <1>3, CoincideBoth
    <3> QED BY <1>3, <1>5, <2>4, <3>1, <3>2
  <2>5. CASE i # id /\ o # id
    BY <1>3, <1>6, <2>2, <2>5
  <2> QED BY <2>3, <2>4, <2>5
<1> QED BY <1>3, <1>4, <1>7, <1>8 DEF WorldInv

LEMMA DelActorKeeps ==
  ASSUME Maps, WorldInv, NEW id \in Actor, DelActor(id)
  PROVE  WorldInv'
<1> DEFINE all == Ids(Around(aoi, Grid(pos[id])))
<1>a. PICK ids \in Told(all, Most) : Tell(id, {}, ids \ {id})
  BY DEF DelActor
<1> DEFINE dels == ids \ {id}
<1>1. /\ id \in DOMAIN pos
      /\ pos' = [o \in DOMAIN pos \ {id} |-> pos[o]]
      /\ aoi' = aoi \ {<<Grid(pos[id]), id>>}
      /\ Tell(id, {}, dels)
      /\ cut \subseteq cut' /\ (id \notin cut' => ids = all)
  BY <1>a DEF DelActor, Told
<1>2. /\ DOMAIN pos' = DOMAIN pos \ {id} /\ DOMAIN pos' \subseteq Actor
      /\ \A o \in DOMAIN pos' : pos'[o] = pos[o] /\ pos'[o] \in Int \X Int
  BY <1>1 DEF WorldInv
<1>3. aoi' = {<<Grid(pos'[o]), o>> : o \in DOMAIN pos'}
  <2> DEFINE G(q) == Grid(q)
  <2>1. aoi = {<<G(pos[o]), o>> : o \in DOMAIN pos} /\ aoi' = aoi \ {<<G(pos[id]), id>>}
    BY <1>1 DEF WorldInv
  <2> HIDE DEF G
  <2>2. aoi' = {<<G(pos'[o]), o>> : o \in DOMAIN pos'}
    BY <2>1, <1>1, <1>2
  <2> QED BY <2>2 DEF G
<1>b. all = {o \in DOMAIN pos : Coincide(Grid(pos[o]), Grid(pos[id]))}
  BY AroundIs DEF WorldInv
<1> HIDE DEF all
<1>4. id \notin cut' => dels = {o \in DOMAIN pos : Coincide(Grid(pos[o]), Grid(pos[id]))} \ {id}
  BY <1>b, <1>1
<1> HIDE DEF dels
<1>5. sees' = [o \in Actor |-> IF o = id THEN sees[o] \ dels
                               ELSE sees[o] \ {i \in {id} : o \in dels}]
  BY <1>1 DEF Tell
<1>6. sees' \in [Actor -> SUBSET Actor]
  BY <1>5 DEF WorldInv
<1>7. ASSUME NEW i \in Actor \ cut', NEW o \in Actor \ cut'
      PROVE  o \in sees'[i] <=> /\ i \in DOMAIN pos' /\ o \in DOMAIN pos' /\ o # i
                                /\ Coincide(Grid(pos'[o]), Grid(pos'[i]))
  <2>1. \A j \in DOMAIN pos : Grid(pos[j]) \in Int \X Int
    BY GridIs DEF WorldInv
  <2>2. o \in sees[i] <=> /\ i \in DOMAIN pos /\ o \in DOMAIN pos /\ o # i
                          /\ Coincide(Grid(pos[o]), Grid(pos[i]))
    BY <1>1 DEF WorldInv
  <2>3. CASE i = id
    BY <1>2, <1>4, <1>5, <2>2, <2>3
  <2>4. CASE i # id /\ o = id
    <3>1. o \in sees'[i] <=> o \in sees[i] /\ i \notin dels
      BY <1>5, <2>4
    <3>2. i \in DOMAIN pos => (Coincide(Grid(pos[i]), Grid(pos[o])) <=> Coincide(Grid(pos[o]), Grid(pos[i])))
      BY <2>1, <2>4, <1>1, CoincideBoth
    <3> QED BY <1>2, <1>4, <2>2, <2>4, <3>1, <3>2
  <2>5. CASE i # id /\ o # id
    BY <1>2, <1>5, <2>2, <2>5
  <2> QED BY <2>3, <2>4, <2>5
<1> QED BY <1>2, <1>3, <1>6, <1>7 DEF WorldInv

LEMMA SetPosKeeps ==
  ASSUME Maps, WorldInv, NEW id \in Actor, NEW x \in Xs, NEW y \in Ys, SetPos(id, x, y)
  PROVE  WorldInv'
<1> DEFINE p == CorrectPos(x, y)
           old == Grid(pos[id])
           new == Grid(p)
           allAdds == Adds(aoi', id, old, new)
           allDels == Dels(aoi', old, new)
<1>1. p \in Int \X Int
  BY CorrectPosIs
<1>a. PICK adds \in Told(allAdds, Most), dels \in Told(allDels, 2 * Most) : Tell(id, adds, dels)
  BY DEF SetPos
<1>2. /\ id \in DOMAIN pos
      /\ pos' = [pos EXCEPT ![id] = p]
      /\ aoi' = (aoi \ {<<old, id>>}) \cup {<<new, id>>}
      /\ Tell(id, adds, dels)
      /\ cut \subseteq cut' /\ (id \notin cut' => adds = allAdds /\ dels = allDels)
      /\ adds \subseteq allAdds
  BY <1>a DEF SetPos, Told
<1> HIDE DEF p
<1>3. /\ DOMAIN pos' = DOMAIN pos /\ DOMAIN pos' \subseteq Actor
      /\ pos'[id] = p /\ \A o \in DOMAIN pos \ {id} : pos'[o] = pos[o]
      /\ \A o \in DOMAIN pos' : pos'[o] \in Int \X Int
  BY <1>1, <1>2 DEF WorldInv
<1>4. aoi' = {<<Grid(pos'[o]), o>> : o \in DOMAIN pos'}
  <2> DEFINE G(q) == Grid(q)
  <2>1. aoi = {<<G(pos[o]), o>> : o \in DOMAIN pos} /\ aoi' = (aoi \ {<<G(pos[id]), id>>}) \cup {<<G(p), id>>}
    BY <1>2 DEF WorldInv
  <2> HIDE DEF G
  <2>2. aoi' = {<<G(pos'[o]), o>> : o \in DOMAIN pos'}
    BY <2>1, <1>2, <1>3
  <2> QED BY <2>2 DEF G
<1>b. /\ allAdds = {o \in DOMAIN pos' \ {id} : Coincide(Grid(pos'[o]), new) /\ ~Coincide(Grid(pos'[o]), old)}
      /\ allDels = {o \in DOMAIN pos' : Coincide(Grid(pos'[o]), old) /\ ~Coincide(Grid(pos'[o]), new)}
  <2> DEFINE a == aoi'
             q == pos'
  <2>1. a = {<<Grid(q[o]), o>> : o \in DOMAIN q}
    BY <1>4
  <2> HIDE DEF a, q, old, new
  <2>2. Adds(a, id, old, new)
          = {o \in DOMAIN q \ {id} : Coincide(Grid(q[o]), new) /\ ~Coincide(Grid(q[o]), old)}
    BY <2>1, AddsAre
  <2>3. Dels(a, old, new) = {o \in DOMAIN q : Coincide(Grid(q[o]), old) /\ ~Coincide(Grid(q[o]), new)}
    BY <2>1, DelsAre
  <2> QED BY <2>2, <2>3 DEF a, q
<1>6. \A j \in DOMAIN pos' : Grid(pos'[j]) \in Int \X Int
  BY <1>3, GridIs
<1>7. new = Grid(pos'[id]) /\ Coincide(new, new) /\ old \in Int \X Int /\ new \in Int \X Int
  BY <1>1, <1>2, <1>3, GridIs, CoincideBoth DEF WorldInv
<1> HIDE DEF old, new, allAdds, allDels
<1>5. /\ id \notin cut' =>
           /\ adds = {o \in DOMAIN pos' \ {id} : Coincide(Grid(pos'[o]), new) /\ ~Coincide(Grid(pos'[o]), old)}
           /\ dels = {o \in DOMAIN pos' : Coincide(Grid(pos'[o]), old) /\ ~Coincide(Grid(pos'[o]), new)}
      /\ adds \subseteq DOMAIN pos'
  BY <1>b, <1>2
<1>8. sees' = [o \in Actor |-> IF o = id THEN (sees[o] \cup adds) \ dels
                               ELSE (sees[o] \cup {i \in {id} : o \in adds}) \ {i \in {id} : o \in dels}]
  BY <1>2 DEF Tell
<1>9. adds \subseteq Actor /\ sees' \in [Actor -> SUBSET Actor]
  BY <1>3, <1>5, <1>8 DEF WorldInv
<1>10. ASSUME NEW i \in Actor \ cut', NEW o \in Actor \ cut'
       PROVE  o \in sees'[i] <=> /\ i \in DOMAIN pos' /\ o \in DOMAIN pos' /\ o # i
                                 /\ Coincide(Grid(pos'[o]), Grid(pos'[i]))
  <2>2. o \in sees[i] <=> /\ i \in DOMAIN pos /\ o \in DOMAIN pos /\ o # i
                          /\ Coincide(Grid(pos[o]), Grid(pos[i]))
    BY <1>2 DEF WorldInv
  <2>3. CASE i = id
    <3>1. o \in sees[i] <=> o \in DOMAIN pos /\ o # i /\ Coincide(Grid(pos[o]), old)
      BY <1>2, <2>2, <2>3 DEF old
    <3>2. o \in sees'[i] <=> (o \in sees[i] \/ o \in adds) /\ o \notin dels
      BY <1>8, <2>3
    <3> QED BY <1>2, <1>3, <1>5, <1>7, <2>3, <3>1, <3>2
  <2>4. CASE i # id /\ o = id
    <3>1. o \in sees[i] <=> i \in DOMAIN pos /\ Coincide(old, Grid(pos[i]))
      BY <1>2, <2>2, <2>4 DEF old
    <3>2. o \in sees'[i] <=> (o \in sees[i] \/ i \in adds) /\ i \notin dels
      BY <1>8, <2>4
    <3>3. i \in DOMAIN pos => /\ Coincide(Grid(pos'[i]), new) <=> Coincide(new, Grid(pos'[i]))
                              /\ Coincide(Grid(pos'[i]), old) <=> Coincide(old, Grid(pos'[i]))
      BY <1>3, <1>6, <1>7, CoincideBoth
    <3> QED BY <1>2, <1>3, <1>5, <1>7, <2>4, <3>1, <3>2, <3>3
  <2>5. CASE i # id /\ o # id
    BY <1>3, <1>8, <2>2, <2>5
  <2> QED BY <2>3, <2>4, <2>5
<1> QED BY <1>3, <1>4, <1>9, <1>10 DEF WorldInv

LEMMA WorldInvSees == Maps /\ WorldInv => SeesNeighbours
<1> SUFFICES ASSUME Maps, WorldInv, NEW id \in Actor \ cut, NEW o \in Actor \ cut
             PROVE  o \in sees[id] <=>
                      /\ id # o /\ id \in DOMAIN pos /\ o \in DOMAIN pos
                      /\ LET g == Grid(pos[id])  h == Grid(pos[o])
                         IN  (g[1] - h[1]) \in -1 .. 1 /\ (g[2] - h[2]) \in -1 .. 1
  BY DEF SeesNeighbours
<1>1. \A j \in DOMAIN pos : Grid(pos[j]) \in Int \X Int
  BY GridIs DEF WorldInv
<1>2. o \in sees[id] <=> /\ id \in DOMAIN pos /\ o \in DOMAIN pos /\ o # id
                         /\ Coincide(Grid(pos[o]), Grid(pos[id]))
  BY DEF WorldInv
<1>3. id \in DOMAIN pos /\ o \in DOMAIN pos =>
        /\ Coincide(Grid(pos[o]), Grid(pos[id])) <=> Coincide(Grid(pos[id]), Grid(pos[o]))
        /\ LET g == Grid(pos[id])  h == Grid(pos[o])
           IN  Coincide(g, h) <=> (g[1] - h[1]) \in -1 .. 1 /\ (g[2] - h[2]) \in -1 .. 1
  BY <1>1, CoincideBoth
<1> QED BY <1>2, <1>3

\* However many actors come, move and go, on the map or off it, and whatever the answers that
\* are cut leave out: two who never got such an answer have been told of each other just when
\* one is in the square of the other or one of the eight around it (aoi.cc diff, world.cc setpos).
THEOREM EachSeesItsNeighbours == Maps => (Spec => []SeesNeighbours)
<1> SUFFICES ASSUME Maps PROVE Spec => []SeesNeighbours
  OBVIOUS
<1>1. Init => WorldInv
  BY DEF Init, WorldInv
<1>2. WorldInv /\ [Next]_vars => WorldInv'
  <2> SUFFICES ASSUME WorldInv, [Next]_vars PROVE WorldInv'
    OBVIOUS
  <2>1. CASE UNCHANGED vars
    BY <2>1 DEF WorldInv, vars, Grid, Coincide
  <2>2. CASE Next
    BY <2>2, AddActorKeeps, DelActorKeeps, SetPosKeeps DEF Next
  <2> QED BY <2>1, <2>2
<1>3. WorldInv => SeesNeighbours
  BY WorldInvSees
<1> QED BY <1>1, <1>2, <1>3, PTL DEF Spec
=============================================================================

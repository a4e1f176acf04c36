-------------------------------- MODULE Mmo --------------------------------
(***************************************************************************)
(* mmo: the earlier form of mmoccskill.  map.cc holds entities in cells    *)
(* and tells which come into reach of one that moves; map.lua holds the    *)
(* objects of the game beside it, and skill.lua lets a skill hit those the *)
(* core finds.  An object that is deleted stays in the core, and an object *)
(* of its id that comes later stands there where the first one stood.      *)
(* Positions are floats, here in halves; cells are the whole numbers that  *)
(* are left when the fraction is cut off.                                  *)
(***************************************************************************)
EXTENDS Integers, FiniteSets, Functions

CONSTANTS
  Id, Type,       \* atk_type_ of the ids
  Reach,          \* search_max_
  Spot,           \* where entities are put or move to, in halves; on the map or off it
  Cfg,            \* __skill_cfg: id -> [targ], Nil where it is missing
  Nil,
  MaxHits         \* bound on what an object takes

VARIABLES
  entities, \* entities_: id -> its position
  cells,    \* cell_entities_, as a set of pairs of a cell and an id
  objs      \* entities of map.lua: id -> how often it was hit
mmoVars == <<entities, cells, objs>>

Erase(f, k) == Restrict(f, DOMAIN f \ {k})
Put(f, k, v) == [x \in DOMAIN f \cup {k} |-> IF x = k THEN v ELSE f[x]]

\* add_cell: a float that becomes an integer loses its fraction, towards zero.
Cell(p) == [i \in 1 .. 2 |-> IF p[i] < 0 THEN -((-p[i]) \div 2) ELSE p[i] \div 2]

Near(c, d) == \A i \in 1 .. 2 : c[i] - d[i] \in -Reach .. Reach
\* get_aoi: the pairs of the cells around c.
Aoi(c) == {e \in cells : Near(e[1], c)}
Ids(E) == {e[2] : e \in E}

\* diff_aoi of the cells o and n.  The second test compares rows with those of n (map.cc,
\* line 87): of the cells that come into reach, it finds those in new columns.
Gone(o, n) == IF o = n THEN {} ELSE Ids({e \in Aoi(o) : ~Near(e[1], n)})
Come(o, n) ==
  IF o = n THEN {}
  ELSE Ids({e \in Aoi(n) : ~ (/\ e[1][1] - o[1] \in -Reach .. Reach
                              /\ e[1][2] - n[2] \in -Reach .. Reach)})

Dis(c, d) == (c[1] - d[1]) * (c[1] - d[1]) + (c[2] - d[2]) * (c[2] - d[2])
Meets(id, o, type) ==
  /\ type = 0 => Type[id] # Type[o]
  /\ type = 1 => Type[id] = Type[o]

\* Range::circle of radius r around id.
Circle(id, r, o) == Dis(entities[id], entities[o]) <= 2 * r * 2 * r
\* How far the cells of two entities are from each other, squared.
Apart(id, o) == Dis(Cell(entities[id]), Cell(entities[o]))

\* Those that a search of id may hit, by the distance of their cells.
InRange(id, type, r) ==
  LET all == {o \in Ids(Aoi(Cell(entities[id]))) : Meets(id, o, type) /\ Circle(id, r, o)}
  IN  [k \in 0 .. 2 * Reach * Reach |-> {o \in all : Apart(id, o) = k}]

\* What may be found once room for num is left: all of the cell, or some that fill it up.
Some(R, num) == IF Cardinality(R) <= num THEN {R} ELSE {T \in SUBSET R : Cardinality(T) = num}

\* aoi_search in a circle goes through the cells by their distance (search_order_) and
\* stops at num; the order of equal cells, and in a cell, is any.
Search(id, num, type, r) ==
  LET range == InRange(id, type, r)
      found[k \in -1 .. 2 * Reach * Reach] ==
        IF k = -1 THEN {{}}
        ELSE UNION {{S \cup T : T \in Some(range[k], num - Cardinality(S))} : S \in found[k - 1]}
  IN  IF id \in DOMAIN entities THEN found[2 * Reach * Reach] ELSE {{}}

\* init_skill: what a configuration lacks is taken over from the one before it, of the
\* same hundred.
Inherited(field) ==
  LET with == {j \in DOMAIN Cfg : Cfg[j][field] # Nil}
      before(i) == {j \in with : j <= i /\ j \div 100 = i \div 100}
      last(S) == CHOOSE j \in S : \A k \in S : k <= j
  IN  [i \in DOMAIN Cfg |-> IF before(i) = {} THEN Nil ELSE Cfg[last(before(i))][field]]

Init == entities = [i \in {} |-> 0] /\ cells = {} /\ objs = [i \in {} |-> 0]

----------------------------------------------------------------------------
\* Map::add_entity tests a position that was never set (map.cc, line 22): whether it
\* takes the entity is chance.
CoreAdd(id, p) ==
  \/ /\ id \notin DOMAIN entities
     /\ entities' = Put(entities, id, p) /\ cells' = cells \cup {<<Cell(p), id>>}
  \/ UNCHANGED <<entities, cells>>

\* ins.add_entity: an object takes the place of another of its id, also if the core, which
\* knows the id, stays as it is.
AddObject(id, p) == CoreAdd(id, p) /\ objs' = Put(objs, id, 0)

\* ins.del_entity, which leaves the core as it is.
DelObject(id) == id \in DOMAIN objs /\ objs' = Erase(objs, id) /\ UNCHANGED <<entities, cells>>

\* Map::update_pos and Map::del_entity, which the game calls on the core.
UpdatePos(id, p) ==
  /\ id \in DOMAIN entities
  /\ entities' = [entities EXCEPT ![id] = p]
  /\ cells' = (cells \ {<<Cell(entities[id]), id>>}) \cup {<<Cell(p), id>>}
  /\ UNCHANGED objs
CoreDel(id) ==
  /\ id \in DOMAIN entities
  /\ entities' = Erase(entities, id) /\ cells' = cells \ {<<Cell(entities[id]), id>>}
  /\ UNCHANGED objs

\* M.use_skill of the damage skills: targ is [num, type, r], and the objects among
\* those the core finds are hit.
UseSkill(id, skill) ==
  /\ id \in DOMAIN objs /\ \A o \in DOMAIN objs : objs[o] < MaxHits
  /\ LET targ == Inherited("targ")[skill]
     IN  \E ids \in IF targ.type = 2 THEN {{id}} ELSE Search(id, targ.num, targ.type, targ.r) :
           objs' = [o \in DOMAIN objs |-> IF o \in ids THEN objs[o] + 1 ELSE objs[o]]
  /\ UNCHANGED <<entities, cells>>

Next ==
  \E id \in Id :
    \/ DelObject(id) \/ CoreDel(id)
    \/ \E p \in Spot : AddObject(id, p) \/ UpdatePos(id, p)
    \/ \E skill \in DOMAIN Cfg : UseSkill(id, skill)

Spec == Init /\ [][Next]_mmoVars

----------------------------------------------------------------------------
TypeOK ==
  /\ DOMAIN entities \subseteq Id /\ \A id \in DOMAIN entities : entities[id] \in Spot
  /\ cells \subseteq {Cell(p) : p \in Spot} \X Id
  /\ DOMAIN objs \subseteq Id /\ \A id \in DOMAIN objs : objs[id] \in 0 .. MaxHits

\* A search within reach finds as many of the right kind on the whole map as it asks for, or
\* all of them, and no one that is left out stands in a cell nearer than that of one that is
\* found (in which it may still be nearer itself).  What an entity that moves is told is never
\* wrong: those that went out of reach are told, and those that are told to come do.
FindsTheNearest ==
  \A id \in DOMAIN entities :
    LET c == Cell(entities[id])
    IN  /\ \A type \in -1 .. 1, num \in 1 .. 2, r \in 1 .. Reach :
             LET all == {o \in DOMAIN entities : Meets(id, o, type) /\ Circle(id, r, o)}
             IN  \A S \in Search(id, num, type, r) :
                   /\ S \subseteq all /\ (Cardinality(S) = num \/ S = all)
                   /\ \A s \in S, o \in all \ S : Apart(id, s) <= Apart(id, o)
        /\ \A n \in {Cell(p) : p \in Spot} :
             LET now(d) == {o \in DOMAIN entities : Near(Cell(entities[o]), d)}
             IN  /\ Gone(c, n) = now(c) \ now(n)
                 /\ Come(c, n) \subseteq now(n) \ now(c)
=============================================================================

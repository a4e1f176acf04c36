------------------------------- MODULE Astar -------------------------------
(***************************************************************************)
(* mmoccskill/cc/astar.cc: the search for a way from start to goal on a    *)
(* map with blocked fields, one round of its loop at a time.  A field gets *)
(* its predecessor from the first that reaches it and keeps it.            *)
(***************************************************************************)
EXTENDS Integers, Sequences, FiniteSets

CONSTANTS
  Length, Width, \* len_ and wid_
  Searches \* triples of a start, a goal and whether to be quick

VARIABLES
  block,  \* block_
  search, \* what is searched
  open,   \* openlist: [p, cost, weigh, at], ordered by weigh, then by when it came
  closed, \* closelist
  pres,   \* field -> the field before it
  ret     \* the corners of the way, from the goal back, once it is found
vars == <<block, search, open, closed, pres, ret>>

Fields == (0 .. Length - 1) \X (0 .. Width - 1)
Start == search[1]
Goal == search[2]
Quick == search[3]

LWEIGH == 100
HWEIGH == 141
\* DIRECT_COST.
Directions == <<<<0, 1>>, <<0, -1>>, <<1, 0>>, <<-1, 0>>, <<1, 1>>, <<-1, 1>>, <<1, -1>>, <<-1, -1>>>>
DirectCost(d) == IF d[1] = 0 \/ d[2] = 0 THEN LWEIGH ELSE HWEIGH
Plus(p, d) == <<p[1] + d[1], p[2] + d[2]>>

IsBlock(p) == p \notin Fields \/ p \in block

\* 100 times the distance, cut off.
Root(n) == CHOOSE r \in 0 .. 100 * (Length + Width) : r * r <= n /\ n < (r + 1) * (r + 1)
Cost(p, q) == Root(10000 * ((p[1] - q[1]) * (p[1] - q[1]) + (p[2] - q[2]) * (p[2] - q[2])))

Init ==
  /\ block \in SUBSET Fields /\ search \in Searches
  /\ open = IF IsBlock(Start) \/ IsBlock(Goal) \/ Start = Goal THEN <<>>
            ELSE <<[p |-> Start, cost |-> 0, weigh |-> Cost(Start, Goal)]>>
  /\ closed = {} /\ ret = <<>>
  /\ pres = [p \in {} |-> <<0, 0>>]

----------------------------------------------------------------------------
\* A multiset puts a new element behind those that are not greater.
Insert(seq, s) ==
  LET k == Cardinality({i \in DOMAIN seq : seq[i].weigh <= s.weigh})
  IN  SubSeq(seq, 1, k) \o <<s>> \o SubSeq(seq, k + 1, Len(seq))

\* Three points on a line, of which the middle one is not a corner.
OnLine(p, q, r) == (q[1] - p[1]) * (r[2] - p[2]) = (q[2] - p[2]) * (r[1] - p[1])

\* The corners of the way from p back to the start, after those of c.
Corners(c, p) ==
  LET n == Len(c)
  IN  IF n >= 2 /\ OnLine(p, c[n], c[n - 1]) THEN [c EXCEPT ![n] = p] ELSE Append(c, p)
Way ==
  LET back[k \in 0 .. Cardinality(DOMAIN pres)] ==
        IF k = 0 THEN [p |-> Goal, c |-> <<Goal>>]
        ELSE LET b == back[k - 1]
             IN  IF b.p \notin DOMAIN pres THEN b
                 ELSE [p |-> pres[b.p], c |-> Corners(b.c, pres[b.p])]
  IN  back[Cardinality(DOMAIN pres)].c

\* The fields that are reached for the first time from p, in order.
NewFields(p) ==
  SelectSeq([i \in 1 .. 8 |-> Plus(p, Directions[i])],
            LAMBDA q : ~IsBlock(q) /\ q \notin closed \cup {p} /\ q \notin DOMAIN pres)

Reached(s, q) ==
  LET cost == s.cost + DirectCost(<<q[1] - s.p[1], q[2] - s.p[2]>>)
  IN  [p |-> q, cost |-> cost,
       weigh |-> IF q = Goal THEN 0 ELSE Cost(q, Goal) + (IF Quick THEN 0 ELSE cost)]

\* The loop takes the goal out of the open list.
Arrive ==
  /\ open # <<>> /\ Head(open).p = Goal
  /\ ret' = Way /\ open' = <<>>
  /\ UNCHANGED <<block, search, closed, pres>>

\* The loop takes another field out and opens those around it.
Expand ==
  /\ open # <<>> /\ Head(open).p # Goal
  /\ LET s == Head(open)
         new == NewFields(s.p)
         opened[k \in 0 .. Len(new)] ==
           IF k = 0 THEN Tail(open) ELSE Insert(opened[k - 1], Reached(s, new[k]))
         fields == {new[k] : k \in DOMAIN new}
     IN  /\ open' = opened[Len(new)]
         /\ closed' = closed \cup {s.p}
         /\ pres' = [q \in DOMAIN pres \cup fields |-> IF q \in fields THEN s.p ELSE pres[q]]
  /\ UNCHANGED <<block, search, ret>>

Next == Arrive \/ Expand

Spec == Init /\ [][Next]_vars

----------------------------------------------------------------------------
TypeOK ==
  /\ block \subseteq Fields /\ search \in Searches
  /\ \A i \in DOMAIN open : open[i].p \in Fields /\ open[i].cost \in Nat /\ open[i].weigh \in Nat
  /\ closed \subseteq Fields /\ DOMAIN pres \subseteq Fields /\ ret \in Seq(Fields)

\* The fields from which moves along free fields lead to the goal.
Reachable ==
  LET next(p) == {p} \cup {Plus(p, Directions[i]) : i \in 1 .. 8}
      within[k \in 0 .. Length * Width] ==
        IF k = 0 THEN {Goal} \ block
        ELSE UNION {next(p) : p \in within[k - 1]} \cap (Fields \ block)
  IN  within[Length * Width]

\* The fields on the line from p to q, where it is one of the eight directions.
Line(p, q) == {r \in Fields : /\ OnLine(p, q, r)
                             /\ \A i \in 1 .. 2 : r[i] \in p[i] .. q[i] \/ r[i] \in q[i] .. p[i]}
Straight(p, q) == LET dx == p[1] - q[1]  dy == p[2] - q[2]
                  IN  p # q /\ (dx = 0 \/ dy = 0 \/ dx = dy \/ dx = -dy)

\* When the search is over, quick or not, it found a way just when there is one, and
\* from corner to corner of it only free fields are crossed.
FindsAWay ==
  open = <<>> =>
    IF Start \in Reachable \ block /\ Start # Goal
    THEN /\ ret # <<>> /\ ret[1] = Goal /\ ret[Len(ret)] = Start
         /\ \A i \in 1 .. Len(ret) - 1 :
              Straight(ret[i], ret[i + 1]) /\ Line(ret[i], ret[i + 1]) \cap block = {}
    ELSE ret = <<>>
=============================================================================

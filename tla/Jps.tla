-------------------------------- MODULE Jps --------------------------------
(***************************************************************************)
(* jps/new/jps.cc: the search for a way by jump points.  For each field    *)
(* and straight direction a cache holds how far the next jump point is;    *)
(* the search goes from jump point to jump point, one round of its loop at *)
(* a time.  The order of fields, the way and its cost are those of Astar.  *)
(***************************************************************************)
EXTENDS Integers, Sequences, FiniteSets, TLC

CONSTANTS Length, Width, Searches, \* as in Astar
          MostBlocks, \* bound on the number of fields that are blocked at first
          MaxChanges  \* bound on the calls of set_obstacle after that

VARIABLES
  block, search, open, closed, pre, ret, \* as in Astar
  cache,   \* jpcache_: direction -> field -> how far to jump
  drawn,   \* what was blocked when jpcache was called last
  current, \* whether the search is one of the map as it is, by lines that fit it
  changes
mapVars == <<block, cache, drawn, changes>>
searchVars == <<search, open, closed, pre, ret, current>>
jpsVars == <<mapVars, searchVars>>

Grid == INSTANCE Astar WITH pres <- pre
Fields == Grid!Fields
Obstacle(p) == Grid!IsBlock(p)
Plus(p, d) == Grid!Plus(p, d)
Times(d, n) == <<n * d[1], n * d[2]>>
Straights == {<<0, 1>>, <<0, -1>>, <<1, 0>>, <<-1, 0>>}

\* fneig: where a field beside p is blocked and the one after it is not, that one, and
\* the direction in which it is reached.
Fneig(p, d) ==
  LET side(n) == <<n[1] - d[1], n[2] - d[2]>>
      forced(n) == LET q == Plus(p, side(n))
                   IN  q \in Fields /\ Obstacle(q) /\ ~Obstacle(Plus(q, d))
      dirs == <<<<d[1] + d[2], d[2] + d[1]>>, <<d[1] - d[2], d[2] - d[1]>>>>
      some == SelectSeq(dirs, forced)
  IN  [i \in DOMAIN some |-> [p |-> Plus(p, some[i]), d |-> some[i]]]

\* The line in direction d through f, from the edge on, and where f is on it.
Place(f, d) == 1 + Cardinality({k \in 1 .. Length + Width : Plus(f, Times(d, -k)) \in Fields})
Line(f, d) ==
  LET ahead == Cardinality({k \in 1 .. Length + Width : Plus(f, Times(d, k)) \in Fields})
  IN  [k \in 1 .. Place(f, d) + ahead |-> Plus(f, Times(d, k - Place(f, d)))]

\* linecache: along a line, fields count down to the next jump point or to the last free
\* field; it goes on from there, and counts again at the jump point.
LineCache(line, d) ==
  LET edge == Len(line) + 1
      barred(k) == k = edge \/ Obstacle(line[k])
      first(S) == CHOOSE k \in S : \A j \in S : k <= j
      from[k \in 1 .. edge] ==
        LET q == first({j \in k .. edge : j = edge \/ ~Obstacle(line[j])})
            t == first({j \in q .. edge : barred(j) \/ (j # q /\ Fneig(line[j], d) # <<>>)})
            last == IF barred(t) THEN t - 1 ELSE t
        IN  [j \in k .. edge - 1 |-> IF j < q THEN 0 ELSE IF j < t THEN last - j ELSE from[t][j]]
  IN  from[1]

\* jpcache.
JpCache == [d \in Straights |-> [f \in Fields |-> LineCache(Line(f, d), d)[Place(f, d)]]]

----------------------------------------------------------------------------
\* The rest of the module computes with s, [open, pre], and the states of the search,
\* [p, cost, d].
Result(ok, s) == [ok |-> ok, open |-> s.open, pre |-> s.pre]
Noted(s, p, from) == IF p \in DOMAIN s.pre THEN s ELSE [s EXCEPT !.pre = (p :> from) @@ @]

\* addjp.
Weigh(st) ==
  IF st.p = Grid!Goal THEN 0 ELSE Grid!Cost(st.p, Grid!Goal) + (IF Grid!Quick THEN 0 ELSE st.cost)
AddJp(s, st, from) ==
  LET new == [p |-> st.p, cost |-> st.cost, weigh |-> Weigh(st), d |-> st.d]
  IN  IF st.p \in DOMAIN s.pre THEN Result(FALSE, s)
      ELSE Result(TRUE, [Noted(s, st.p, from) EXCEPT !.open = Grid!Insert(@, new)])

\* addfn: whether the last of the forced neighbours was new.
AddAll(s, st, n) ==
  LET after[k \in 0 .. Len(n)] ==
        IF k = 0 THEN Result(FALSE, s)
        ELSE AddJp(after[k - 1], [p |-> n[k].p, cost |-> st.cost + Grid!HWEIGH, d |-> n[k].d], st.p)
  IN  after[Len(n)]
AddFn(s, st, d) == AddAll(s, st, Fneig(st.p, d))

CheckEnd(p1, p2) ==
  LET e == Grid!Goal
      v == <<e[1] - p1[1], e[2] - p1[2]>>  w == <<p2[1] - e[1], p2[2] - e[2]>>
  IN  \/ p1 = e \/ p2 = e
      \/ v[1] * w[1] + v[2] * w[2] >= 0 /\ v[1] * w[2] = v[2] * w[1]

\* The field ns is opened if forced neighbours were, with fn as the outcome.
Forced(fn, ns, from) == IF fn.ok THEN Result(TRUE, AddJp(fn, ns, from)) ELSE fn
Jump(st, d, len) == [p |-> Plus(st.p, Times(d, len)), cost |-> st.cost + Grid!LWEIGH * len, d |-> d]
\* Mutant: the goal is not looked for between jump points.
JumpedPast(s, st, ns, d) == Forced(AddFn(s, ns, d), ns, st.p)

\* What a jump to ns finds: the goal, which it may pass, or forced neighbours.
Jumped(s, st, ns, d) ==
  IF CheckEnd(st.p, ns.p)
  THEN Result(TRUE, AddJp(s, [p |-> Grid!Goal, cost |-> 0, d |-> <<0, 0>>], st.p))
  ELSE Forced(AddFn(s, ns, d), ns, st.p)

\* step in a straight direction.
StepStraight(s, st, d) ==
  IF Obstacle(st.p) \/ cache[d][st.p] <= 0 THEN Result(FALSE, s)
  ELSE Jumped(s, st, Jump(st, d, cache[d][st.p]), d)

RECURSIVE StepDiagonal(_, _, _, _)
\* step in a diagonal direction, from the field start on: forced neighbours on both sides,
\* then steps in both straight directions from the next field, then on.
Either(r, after) == [after EXCEPT !.ok = @ \/ r.ok]
AddFns(b, st, d) == Either(b, AddFn(b, st, d))
Steps(r, st, d) == Either(r, StepStraight(r, st, d))
Ahead(st, d) == [p |-> Plus(st.p, d), cost |-> st.cost + Grid!HWEIGH, d |-> d]
Found(r, next, more, d, start) ==
  IF ~r.ok THEN StepDiagonal(r, next, d, start)
  ELSE Result(TRUE, IF Obstacle(more.p) THEN Noted(r, next.p, start)
                    ELSE AddJp(Noted(r, next.p, start), more, start))
GoOn(b, st, next, d, start) ==
  IF b.ok
  THEN Result(TRUE, AddJp(IF st.p = start THEN b ELSE Noted(b, st.p, start), next, start))
  ELSE IF next.p = Grid!Goal THEN Result(TRUE, AddJp(b, next, start))
  ELSE IF Obstacle(next.p) \/ next.p \in DOMAIN b.pre THEN Result(FALSE, b)
  ELSE Found(Steps(StepStraight(b, next, <<d[1], 0>>), next, <<0, d[2]>>), next, Ahead(next, d), d, start)
StepDiagonal(s, st, d, start) ==
  GoOn(AddFns(AddFn(s, st, <<d[1], 0>>), st, <<0, d[2]>>), st, Ahead(st, d), d, start)

Step(s, st, d) ==
  IF d[1] = 0 \/ d[2] = 0 THEN StepStraight(s, [st EXCEPT !.d = d], d)
  ELSE StepDiagonal(s, [st EXCEPT !.d = d], d, st.p)

\* The directions in which the search goes on.
Dirs(d) ==
  IF d = <<0, 0>>
  THEN <<<<0, 1>>, <<0, -1>>, <<1, 0>>, <<-1, 0>>, <<1, 1>>, <<1, -1>>, <<-1, 1>>, <<-1, -1>>>>
  ELSE IF d[1] # 0 /\ d[2] # 0 THEN <<<<d[1], 0>>, <<0, d[2]>>, d>> ELSE <<d>>

----------------------------------------------------------------------------
\* A map whose obstacles are set and whose lines are cached, as in new/test.lua.
Init ==
  /\ block \in {b \in SUBSET Fields : Cardinality(b) <= MostBlocks}
  /\ cache = JpCache /\ drawn = block /\ changes = 0
  /\ search \in Searches /\ current = FALSE
  /\ open = <<>> /\ closed = {} /\ ret = <<>> /\ pre = [p \in {} |-> <<0, 0>>]

\* set_obstacle leaves the cached lines as they are.
SetObstacle(p) ==
  /\ open = <<>> /\ changes < MaxChanges
  /\ \E b \in {block \cup {p}, block \ {p}} : b # block /\ block' = b
  /\ changes' = changes + 1 /\ current' = FALSE
  /\ UNCHANGED <<cache, drawn, search, open, closed, pre, ret>>

CallJpCache ==
  /\ open = <<>> /\ drawn # block
  /\ cache' = JpCache /\ drawn' = block
  /\ UNCHANGED <<block, changes, searchVars>>

\* Ljps::find and the first lines of find: reset, and the start is opened.
StartFind(q) ==
  /\ open = <<>>
  /\ search' = q /\ current' = (drawn = block)
  /\ closed' = {} /\ ret' = <<>> /\ pre' = [p \in {} |-> <<0, 0>>]
  /\ open' = IF Obstacle(q[1]) \/ Obstacle(q[2]) \/ q[1] = q[2] THEN <<>>
             ELSE <<[p |-> q[1], cost |-> 0, weigh |-> Grid!Cost(q[1], q[2]), d |-> <<0, 0>>]>>
  /\ UNCHANGED mapVars

\* One round of find; the way is that of Astar (genret, which does not end if the start
\* was given a field before it).
Find ==
  /\ open # <<>>
  /\ LET st == Head(open)
         dirs == Dirs(st.d)
         after[k \in 0 .. Len(dirs)] ==
           IF k = 0 THEN [ok |-> TRUE, open |-> Tail(open), pre |-> pre] ELSE Step(after[k - 1], st, dirs[k])
     IN  IF st.p \in closed THEN open' = Tail(open) /\ UNCHANGED <<closed, pre, ret>>
         ELSE /\ closed' = closed \cup {st.p}
              /\ IF st.p = Grid!Goal
                 THEN Grid!Start \notin DOMAIN pre /\ ret' = Grid!Way /\ open' = <<>> /\ UNCHANGED pre
                 ELSE \E s \in {after[Len(dirs)]} : open' = s.open /\ pre' = s.pre /\ UNCHANGED ret
  /\ UNCHANGED <<search, current, mapVars>>

Next == Find \/ CallJpCache \/ (\E p \in Fields : SetObstacle(p)) \/ (\E q \in Searches : StartFind(q))
Spec == Init /\ [][Next]_jpsVars

----------------------------------------------------------------------------
TypeOK ==
  /\ block \subseteq Fields /\ drawn \subseteq Fields /\ current \in BOOLEAN /\ search \in Searches
  /\ \A d \in Straights, f \in Fields : cache[d][f] \in 0 .. Length + Width

\* While no block changed since the lines were cached, they lead from each free field to the
\* first field with a forced neighbour, or to the last that is free.
CacheLeadsToJumpPoints ==
  open = <<>> /\ drawn = block =>
    \A d \in Straights, f \in Fields \ block :
      LET to == Plus(f, Times(d, cache[d][f]))
      IN  /\ \A k \in 0 .. cache[d][f] : ~Obstacle(Plus(f, Times(d, k)))
          /\ \A k \in 1 .. cache[d][f] - 1 : Fneig(Plus(f, Times(d, k)), d) = <<>>
          /\ Obstacle(Plus(to, d)) \/ (to # f /\ Fneig(to, d) # <<>>)

\* A goal on one of the lines from the start is found, also where no jump ends there, and
\* the way that any search answers goes from the goal along the eight directions, whatever
\* is blocked and however old the lines are.  (That it begins at the start and crosses no
\* blocked field, or that a goal off those lines is found, the search does not promise.)
FindsByLines ==
  open = <<>> =>
    /\ current /\ closed # {}
         /\ (\E d \in Straights : \E k \in 1 .. cache[d][Grid!Start] : Grid!Goal = Plus(Grid!Start, Times(d, k)))
       => ret # <<>>
    /\ ret # <<>> => ret[1] = Grid!Goal
    /\ \A i \in 1 .. Len(ret) - 1 : Grid!Straight(ret[i], ret[i + 1])
=============================================================================

-------------------------------- MODULE Rank --------------------------------
(***************************************************************************)
(* rank/cc/lrank.cc: the Limit best of all who have a score, of equal ones *)
(* those that had it first.  An element that is pushed out is forgotten;   *)
(* this is sound as long as scores only rise, which is the caller's        *)
(* business (Rising).                                                      *)
(***************************************************************************)
EXTENDS Integers, FiniteSets, Functions

CONSTANTS
  RankId,  \* naturals, for an order
  Limit,   \* max_
  MaxScore,
  Rising,  \* bound: a score that is added is higher than the last of its id
  MaxTm    \* bound on tm_

ASSUME RankAssumption == RankId \subseteq Nat /\ Limit \in Nat

VARIABLES
  ranks,  \* ranks_, a set ordered by Better
  it,     \* id_it_: id -> the element of ranks_ it points to
  latest  \* id -> the last element that was added
rankVars == <<ranks, it, latest>>

Nothing == [x \in {} |-> 0]
Element(id, score, tm) == [id |-> id, score |-> score, tm |-> tm]
PutIn(f, k, v) == [x \in DOMAIN f \cup {k} |-> IF x = k THEN v ELSE f[x]]
Erase(f, k) == Restrict(f, DOMAIN f \ {k})

\* Rankele::operator<.
Better(a, b) ==
  \/ a.score > b.score
  \/ a.score = b.score /\ a.tm < b.tm
  \/ a.score = b.score /\ a.tm = b.tm /\ a.id < b.id
Worst(R) == CHOOSE e \in R : \A f \in R \ {e} : Better(f, e)
PlaceIn(R, e) == Cardinality({f \in R : Better(f, e)}) + 1

\* Rank::get_order.
Order(id) == IF id \in DOMAIN it THEN PlaceIn(ranks, it[id]) ELSE -1

RankInit == ranks = {} /\ it = Nothing /\ latest = Nothing

----------------------------------------------------------------------------
\* Mutant: who is pushed out is still found by its id.
AddedNotErased(r, i, e) ==
  LET R == (IF e.id \in DOMAIN i THEN r \ {i[e.id]} ELSE r) \cup {e}
      I == PutIn(i, e.id, e)
  IN  IF Cardinality(R) <= Limit THEN [ranks |-> R, it |-> I] ELSE [ranks |-> R \ {Worst(R)}, it |-> I]

\* Rank::add and Rank::evict.
Added(r, i, e) ==
  LET R == (IF e.id \in DOMAIN i THEN r \ {i[e.id]} ELSE r) \cup {e}
      I == PutIn(i, e.id, e)
  IN  IF Cardinality(R) <= Limit THEN [ranks |-> R, it |-> I]
      ELSE [ranks |-> R \ {Worst(R)}, it |-> Erase(I, Worst(R).id)]

\* The time of the last add.
Now == LET tms == {e.tm : e \in Range(latest)}
       IN  IF tms = {} THEN 0 ELSE CHOOSE t \in tms : \A u \in tms : u <= t

\* Lrank::add; several may fall into the same second.
AddScore(id, score, tm) ==
  LET e == Element(id, score, tm)
  IN  /\ Now <= tm /\ tm <= MaxTm
      /\ Rising /\ id \in DOMAIN latest => latest[id].score < score
      /\ ranks' = Added(ranks, it, e).ranks /\ it' = Added(ranks, it, e).it
      /\ latest' = PutIn(latest, id, e)

\* Lrank::deseri: the best are added first, to a new ranking.
Reloaded ==
  LET nth(k) == CHOOSE e \in ranks : PlaceIn(ranks, e) = k
      after[k \in 0 .. Cardinality(ranks)] ==
        IF k = 0 THEN [ranks |-> {}, it |-> Nothing]
        ELSE Added(after[k - 1].ranks, after[k - 1].it, nth(k))
  IN  after

\* Lrank::seri, and Lrank::deseri of what it wrote.
Reload ==
  /\ ranks # {}
  /\ ranks' = Reloaded[Cardinality(ranks)].ranks /\ it' = Reloaded[Cardinality(ranks)].it
  /\ UNCHANGED latest

RankNext ==
  \/ Reload
  \/ \E id \in RankId, score \in 1 .. MaxScore, tm \in 1 .. MaxTm : AddScore(id, score, tm)

RankSpec == RankInit /\ [][RankNext]_rankVars

----------------------------------------------------------------------------
RankTypeOK ==
  /\ ranks \subseteq [id : RankId, score : 1 .. MaxScore, tm : 1 .. MaxTm]
  /\ DOMAIN it \subseteq RankId /\ DOMAIN latest \subseteq RankId

\* Though what is pushed out is forgotten, the ranking holds the best of all that
\* were ever added, each with its last score, and get_order tells its place
\* among all of them.
KeepsTheBest ==
  LET all == Range(latest)
  IN  /\ ranks = {e \in all : PlaceIn(all, e) <= Limit}
      /\ \A e \in all : Order(e.id) = IF PlaceIn(all, e) <= Limit THEN PlaceIn(all, e) ELSE -1
=============================================================================

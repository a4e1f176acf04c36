------------------------------- MODULE Battle -------------------------------
(***************************************************************************)
(* battle/battle.lua, battle/skill.lua and battle/cc/stimer.cc: rounds of  *)
(* a battle, in which the units use skills that put buffs on units, and at *)
(* the end of which the buffs whose time is over are taken off.  A buff    *)
(* adds to an attribute of its unit, or hangs a function on the end of the *)
(* round or on an event.  What those functions do (damage and addhp print) *)
(* and who is whose target is left out.                                    *)
(***************************************************************************)
EXTENDS Integers, FiniteSets, Functions

CONSTANTS
  Unit,
  Amount,   \* what a buff may add to the attribute
  IdEnd,    \* 0xffff: ids are below
  MaxBuffs, \* bound on the buffs that a unit gets in a round
  MaxRounds \* bound on rounds

ASSUME BuffsAssumption ==
  /\ Amount \subseteq Int /\ MaxRounds \in Nat
  /\ IdEnd \in Nat /\ MaxBuffs \in Nat /\ MaxBuffs < IdEnd

VARIABLES
  round,    \* battle.round
  fighting, \* whether a round goes on
  attr,     \* the attribute of each unit that buffs add to
  idx,      \* unit.buff.idx
  buffs,    \* unit.buff.buffs: id -> what it adds, 0 for one that hangs a function
  hooks,    \* unit.roundend and unit.event: the ids with a function there
  timer     \* battle.timer: [unit, id, endtm]
battleVars == <<round, fighting, attr, idx, buffs, hooks, timer>>

Base == 10

BattleInit ==
  /\ round = 0 /\ fighting = FALSE
  /\ attr = [u \in Unit |-> Base]
  /\ idx = [u \in Unit |-> 0]
  /\ buffs = [u \in Unit |-> [i \in {} |-> 0]]
  /\ hooks = [u \in Unit |-> {}]
  /\ timer = {}

----------------------------------------------------------------------------
\* The head of round().
BeginRound ==
  /\ ~fighting /\ round < MaxRounds
  /\ round' = round + 1 /\ fighting' = TRUE
  /\ UNCHANGED <<attr, idx, buffs, hooks, timer>>

NextId(u) == IF idx[u] + 1 >= IdEnd THEN 1 ELSE idx[u] + 1

\* initbuff, with what each of its callers adds.
InitBuff(u, amount) ==
  LET id == NextId(u)
  IN  /\ fighting
      /\ Cardinality({t \in timer : t.unit = u}) < MaxBuffs
      /\ idx' = [idx EXCEPT ![u] = id]
      /\ buffs' = [buffs EXCEPT ![u] =
                     [i \in DOMAIN @ \cup {id} |-> IF i = id THEN amount ELSE @[i]]]
      /\ timer' = timer \cup {[unit |-> u, id |-> id, endtm |-> 1]}
      /\ UNCHANGED <<round, fighting>>

\* buffattr.
BuffAttr(u, amount) ==
  /\ InitBuff(u, amount)
  /\ attr' = [attr EXCEPT ![u] = @ + amount]
  /\ UNCHANGED hooks

\* buff_roundend and buffevent.
BuffHook(u) ==
  /\ InitBuff(u, 0)
  /\ hooks' = [hooks EXCEPT ![u] = @ \cup {NextId(u)}]
  /\ UNCHANGED attr

\* Mutant: what has its end in this very round stays.
ExpiredBefore(now) == {t \in timer : now > t.endtm}

\* stimer's expire.
Expired(now) == {t \in timer : now >= t.endtm}

\* The end of round(): removebuff of every buff that expired.
EndRound ==
  LET ended == [u \in Unit |-> {t.id : t \in {t \in Expired(round) : t.unit = u}}]
  IN  /\ fighting
      /\ fighting' = FALSE
      /\ timer' = timer \ Expired(round)
      /\ attr' = [u \in Unit |-> attr[u] - SumFunctionOnSet(buffs[u], ended[u])]
      /\ hooks' = [u \in Unit |-> hooks[u] \ ended[u]]
      /\ buffs' = [u \in Unit |-> Restrict(buffs[u], DOMAIN buffs[u] \ ended[u])]
      /\ UNCHANGED <<round, idx>>

BattleNext ==
  \/ BeginRound \/ EndRound
  \/ \E u \in Unit : BuffHook(u) \/ \E n \in Amount : BuffAttr(u, n)

BattleSpec == BattleInit /\ [][BattleNext]_battleVars

----------------------------------------------------------------------------
BattleTypeOK ==
  /\ round \in 0 .. MaxRounds /\ fighting \in BOOLEAN
  /\ attr \in [Unit -> Int] /\ idx \in [Unit -> 0 .. IdEnd - 1]
  /\ \A u \in Unit : DOMAIN buffs[u] \subseteq 1 .. IdEnd - 1 /\ hooks[u] \subseteq 1 .. IdEnd - 1
  /\ timer \subseteq [unit : Unit, id : 1 .. IdEnd - 1, endtm : {1}]

\* What a buff adds is taken off once, when the buff is, though ids are given out
\* again: the attribute is always its base and what the present buffs add, no
\* function outlives its buff, and no buff its round.
BuffsAddUp ==
  /\ \A u \in Unit : attr[u] = Base + SumFunction(buffs[u]) /\ hooks[u] \subseteq DOMAIN buffs[u]
  /\ {<<t.unit, t.id>> : t \in timer} = UNION {{u} \X DOMAIN buffs[u] : u \in Unit}
  /\ fighting \/ timer = {}
=============================================================================

------------------------------- MODULE Quest -------------------------------
(***************************************************************************)
(* quest/quest.lua: quests have a target, a number to be reached by events *)
(* of a type; of some types a handler says what the number is by now, and  *)
(* of others it is the sum of what the events brought.  An index tells     *)
(* which quests still wait for the events of a type.                       *)
(***************************************************************************)
EXTENDS Integers, Functions

CONSTANTS
  Cfgs,      \* quest id -> [type, num] of its target
  Handled,   \* the types that have a handler
  MaxLevel,  \* bound on what a handler says
  MaxNum     \* bound on what the events of a type bring in all

ASSUME CfgsAssumption == /\ \A q \in DOMAIN Cfgs : Cfgs[q].num \in Nat
                         /\ MaxLevel \in Nat

VARIABLES
  known,  \* the quests of the configuration by now, which only grows
  quests, \* qobj.quests: id -> [num, done]
  index,  \* qobj.index: type -> ids
  level,  \* type -> what its handler says of the player
  total,  \* type -> what the events brought in all
  since   \* quest id -> total of its type when it was accepted
questVars == <<known, quests, index, level, total, since>>

Type == {Cfgs[q].type : q \in DOMAIN Cfgs}
NoQuests == [x \in {} |-> 0]

QuestInit ==
  /\ known = {} /\ quests = NoQuests /\ since = NoQuests
  /\ index = [t \in {} |-> {}]
  /\ level = [t \in Handled |-> 0] /\ total = [t \in Type |-> 0]

\* Mutant: what is beyond the target is kept.
CountedBeyond(q, quest, addnum, said) ==
  LET num == IF Cfgs[q].type \in Handled THEN said[Cfgs[q].type] ELSE quest.num + addnum
  IN  [num |-> num, done |-> num > Cfgs[q].num]

\* count.
Counted(q, quest, addnum, said) ==
  LET num == IF Cfgs[q].type \in Handled THEN said[Cfgs[q].type] ELSE quest.num + addnum
  IN  IF num >= Cfgs[q].num THEN [num |-> Cfgs[q].num, done |-> TRUE]
      ELSE [quest EXCEPT !.num = num]

----------------------------------------------------------------------------
\* M.init_quests, with the quests that a new configuration has.
InitQuests(Q) ==
  LET new == Q \ DOMAIN quests
      quest == [q \in new |-> Counted(q, [num |-> 0, done |-> FALSE], 0, level)]
      waiting(t) == {q \in new : Cfgs[q].type = t /\ ~quest[q].done}
      types == DOMAIN index \cup {Cfgs[q].type : q \in {q \in new : ~quest[q].done}}
  IN  /\ known' = Q
      /\ quests' = [q \in DOMAIN quests \cup new |-> IF q \in new THEN quest[q] ELSE quests[q]]
      /\ index' = [t \in types |-> waiting(t) \cup (IF t \in DOMAIN index THEN index[t] ELSE {})]
      /\ since' = [q \in DOMAIN quests \cup new |->
                     IF q \in new THEN total[Cfgs[q].type] ELSE since[q]]
      /\ UNCHANGED <<level, total>>

\* M.count for an event of type t.
CountIndexed(t, addnum, said) ==
  IF t \notin DOMAIN index THEN UNCHANGED <<quests, index>>
  ELSE LET counted == [q \in index[t] |-> Counted(q, quests[q], addnum, said)]
           left == {q \in index[t] : ~counted[q].done}
       IN  /\ quests' = [q \in DOMAIN quests |-> IF q \in index[t] THEN counted[q] ELSE quests[q]]
           /\ index' = IF left = {} THEN Restrict(index, DOMAIN index \ {t})
                       ELSE [index EXCEPT ![t] = left]

\* An event of a type that adds up.
Event(t, addnum) ==
  /\ t \notin Handled /\ total[t] + addnum <= MaxNum
  /\ total' = [total EXCEPT ![t] = @ + addnum]
  /\ CountIndexed(t, addnum, level)
  /\ UNCHANGED <<known, level, since>>

\* What the handler of a type looks at changes, and the event that tells of it.
LevelEvent(t, lv) ==
  /\ level' = [level EXCEPT ![t] = lv]
  /\ CountIndexed(t, lv, level')
  /\ UNCHANGED <<known, total, since>>

QuestNext ==
  \/ \E Q \in SUBSET DOMAIN Cfgs : known \subseteq Q /\ Q # known /\ InitQuests(Q)
  \/ \E t \in Type, n \in 1 .. 2 : Event(t, n)
  \/ \E t \in Handled, lv \in 0 .. MaxLevel : lv # level[t] /\ LevelEvent(t, lv)

QuestSpec == QuestInit /\ [][QuestNext]_questVars

----------------------------------------------------------------------------
QuestTypeOK ==
  /\ known \subseteq DOMAIN Cfgs /\ DOMAIN quests = known
  /\ \A q \in known : quests[q].num \in Nat /\ quests[q].done \in BOOLEAN
  /\ DOMAIN index \subseteq Type /\ \A t \in DOMAIN index : index[t] # {} /\ index[t] \subseteq known

\* No event passes a quest by and none counts twice, when quests come in at any time
\* and finish in any order: a quest has counted all events of its type since it
\* was accepted, up to its target, and it is done just when that is reached;
\* the index holds just the others.
CountsEvents ==
  /\ \A q \in known :
       LET num == total[Cfgs[q].type] - since[q]
       IN  IF Cfgs[q].type \in Handled
           THEN quests[q].done \/ quests[q].num = level[Cfgs[q].type]
           ELSE /\ quests[q].num = IF num < Cfgs[q].num THEN num ELSE Cfgs[q].num
                /\ quests[q].done <=> num >= Cfgs[q].num
  /\ \A q \in known, t \in Type :
       (t \in DOMAIN index /\ q \in index[t]) <=> (t = Cfgs[q].type /\ ~quests[q].done)
=============================================================================

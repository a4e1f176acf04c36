-------------------------------- MODULE Lru --------------------------------
(***************************************************************************)
(* lru: a table (lru/test.lua) that keeps the num_ keys that were used     *)
(* last.  Which those are is kept in lru/cc/llru.cc, as a list of the keys *)
(* (ids_) and an index of their places in it (it_); the key that falls off *)
(* the list is answered, and the table forgets it.                         *)
(***************************************************************************)
EXTENDS Integers, Sequences, FiniteSets, Functions

CONSTANTS
  LruKey, LruValue,
  Num,    \* num_
  MaxUses \* bound on reads and writes

ASSUME LruAssumption == IsFiniteSet(LruKey) /\ Num \in Nat \ {0}

VARIABLES
  ids_,    \* the key that was used last in front
  tb,      \* tb[1]
  uses,    \* how many reads and writes there were
  lastUse, \* key -> which of these was its last; 0 if there was none
  cleared  \* the keys that were set to nil since
lruVars == <<ids_, tb, uses, lastUse, cleared>>

\* Lru::del, by the place it_ has for the key.
Unlist(list, k) ==
  IF k \notin Range(list) THEN list
  ELSE LET p == CHOOSE i \in DOMAIN list : list[i] = k
       IN  SubSeq(list, 1, p - 1) \o SubSeq(list, p + 1, Len(list))

Updated(list, k) == <<k>> \o Unlist(list, k)

\* Lru::evict: the key that falls off the end.
Evicted(list) == IF Len(list) <= Num THEN {} ELSE {list[Len(list)]}
Shortened(list) == IF Len(list) <= Num THEN list ELSE SubSeq(list, 1, Len(list) - 1)

LruInit ==
  /\ ids_ = <<>> /\ tb = [k \in {} |-> 0]
  /\ uses = 0 /\ lastUse = [k \in LruKey |-> 0] /\ cleared = {}

----------------------------------------------------------------------------
Use(k) ==
  /\ uses < MaxUses /\ uses' = uses + 1
  /\ ids_' = Shortened(Updated(ids_, k))
  /\ lastUse' = [lastUse EXCEPT ![k] = uses']

\* __index: a key that is there becomes the newest; nothing falls off.
ReadKey(k) ==
  /\ k \in DOMAIN tb
  /\ Use(k)
  /\ UNCHANGED <<tb, cleared>>

\* __newindex with a value.
WriteKey(k, v) ==
  /\ Use(k)
  /\ tb' = [x \in (DOMAIN tb \ Evicted(Updated(ids_, k))) \cup {k} |-> IF x = k THEN v ELSE tb[x]]
  /\ cleared' = cleared \ {k}

\* __newindex with nil.
ClearKey(k) ==
  /\ tb' = [x \in DOMAIN tb \ {k} |-> tb[x]]
  /\ ids_' = Unlist(ids_, k)
  /\ cleared' = cleared \cup {k}
  /\ UNCHANGED <<uses, lastUse>>

LruNext == \E k \in LruKey : ReadKey(k) \/ ClearKey(k) \/ \E v \in LruValue : WriteKey(k, v)

LruSpec == LruInit /\ [][LruNext]_lruVars

----------------------------------------------------------------------------
LruTypeOK ==
  /\ DOMAIN tb \subseteq LruKey /\ \A k \in DOMAIN tb : tb[k] \in LruValue
  /\ ids_ \in Seq(LruKey) /\ uses \in 0 .. MaxUses /\ lastUse \in [LruKey -> 0 .. MaxUses]
  /\ cleared \subseteq LruKey

\* The list and the table hold the same keys, at most Num.  A key is missing only if it
\* was cleared, or if Num others were used after it, and none that stays before it.
KeepsTheNewest ==
  /\ Range(ids_) = DOMAIN tb /\ Len(ids_) = Cardinality(DOMAIN tb) /\ Len(ids_) <= Num
  /\ \A k \in LruKey \ (DOMAIN tb \cup cleared) :
       lastUse[k] > 0 =>
         /\ Cardinality({o \in LruKey : lastUse[o] > lastUse[k]}) >= Num
         /\ \A o \in DOMAIN tb : lastUse[k] < lastUse[o]
=============================================================================

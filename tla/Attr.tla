-------------------------------- MODULE Attr --------------------------------
(***************************************************************************)
(* attr: the attributes of a player are the sums of what several sources   *)
(* give.  attr1.lua keeps the sums up to date by the difference of the one *)
(* source that changes; attr2.lua sums up again and answers what differs,  *)
(* which the client (external) puts over what it has.                      *)
(***************************************************************************)
EXTENDS Integers, FiniteSets, Functions

CONSTANTS
  Handle,  \* attr_handle
  AttrId,
  AttrValue

ASSUME SourcesAssumption == IsFiniteSet(Handle) /\ AttrValue \subseteq Int

VARIABLES
  given,  \* source -> what it gives, without the attributes it lacks
  attrs,  \* player.attrs of attr1.lua
  sums,   \* player.attrs of attr2.lua
  showing \* what the client was told of sums
attrVars == <<given, attrs, sums, showing>>

Gives(f, id) == IF id \in DOMAIN f THEN f[id] ELSE 0
Given == UNION {[S -> AttrValue] : S \in SUBSET AttrId}
Total(g, id) == SumFunction([h \in Handle |-> Gives(g[h], id)])
Names(g) == UNION {DOMAIN g[h] : h \in Handle}

\* all_attr of attr1.lua, and the loop of that of attr2.lua.
AllAttr(g) == [id \in Names(g) |-> Total(g, id)]

\* Mutant: what only the old has stays.
AddDiffNewOnly(p, old, new) ==
  LET changed == {id \in DOMAIN new : new[id] # Gives(old, id)}
  IN  [id \in DOMAIN p \cup changed |->
         IF id \in changed THEN Gives(p, id) + Gives(new, id) - Gives(old, id) ELSE p[id]]

\* add_diff: what differs in the new, and what only the old has.
AddDiff(p, old, new) ==
  LET changed == {id \in DOMAIN new : new[id] # Gives(old, id)} \cup (DOMAIN old \ DOMAIN new)
  IN  [id \in DOMAIN p \cup changed |->
         IF id \in changed THEN Gives(p, id) + Gives(new, id) - Gives(old, id) ELSE p[id]]

AttrInit ==
  /\ given = [h \in Handle |-> [id \in {} |-> 0]] /\ attrs = AllAttr(given)
  /\ sums = [id \in {} |-> 0] /\ showing = sums

----------------------------------------------------------------------------
\* diff_attr of one source, which func changes to new.
DiffAttr(h, new) ==
  /\ given' = [given EXCEPT ![h] = new]
  /\ attrs' = AddDiff(attrs, given[h], new)
  /\ UNCHANGED <<sums, showing>>

\* all_attr of attr2.lua: what has another value, and 0 for what is gone.
AllAttrDiff ==
  LET new == AllAttr(given)
      ret == [id \in {i \in DOMAIN new : i \notin DOMAIN sums \/ sums[i] # new[i]}
                     \cup (DOMAIN sums \ DOMAIN new) |-> Gives(new, id)]
  IN  /\ sums' = new
      /\ showing' = [id \in DOMAIN showing \cup DOMAIN ret |->
                      IF id \in DOMAIN ret THEN ret[id] ELSE showing[id]]
      /\ UNCHANGED <<given, attrs>>

AttrNext == AllAttrDiff \/ \E h \in Handle, new \in Given : DiffAttr(h, new)

AttrSpec == AttrInit /\ [][AttrNext]_attrVars

----------------------------------------------------------------------------
AttrTypeOK ==
  /\ given \in [Handle -> Given]
  /\ DOMAIN attrs \subseteq AttrId /\ DOMAIN sums \subseteq AttrId /\ DOMAIN showing \subseteq AttrId

\* The sums that are kept by differences are those of what the sources give now, and
\* what the client was told adds up to what was summed last.
SumsAddUp ==
  \A id \in AttrId : Gives(attrs, id) = Total(given, id) /\ Gives(showing, id) = Gives(sums, id)
=============================================================================

----------------------------- MODULE Dictionary -----------------------------
(***************************************************************************)
(* What a container of values by keys promises: the tables and trees that  *)
(* are built in other modules are compared with it.                        *)
(***************************************************************************)
EXTENDS Integers

CONSTANTS Key, Value

VARIABLE content  \* the keys that are there, each with its value

Init == content = [k \in {} |-> 0]

\* Keys are taken out and the others keep their values, or one is put in or given another
\* value and none is lost.
Next ==
  LET new == content'
      changed == {k \in DOMAIN new : k \notin DOMAIN content \/ new[k] # content[k]}
  IN  \/ changed = {}
      \/ \E k \in changed :
           changed = {k} /\ k \in Key /\ new[k] \in Value /\ DOMAIN new = DOMAIN content \cup {k}

Spec == Init /\ [][Next]_content
=============================================================================

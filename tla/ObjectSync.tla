----------------------------- MODULE ObjectSync -----------------------------
(***************************************************************************)
(* synobj/syn2.lua: a player's data is a tree; each change is noted with   *)
(* update(), and what was noted is sent to the client when tick() runs, as *)
(* a tree of updates or a tree of deletions, which the client merges into  *)
(* its own copy (fill_upd, fill_del).  Here the tree is player.map: items  *)
(* by their id, each with some fields.  The ids that the nodes carry only  *)
(* tell what is an item and are left out.                                  *)
(***************************************************************************)
EXTENDS Naturals, FiniteSets, Functions

CONSTANTS Item, Field, Value

VARIABLES
  player,  \* item -> field -> value: what the server has
  updates, \* the same for what is noted as updated
  deletes, \* item -> the fields noted as deleted, All for the item itself
  client   \* item -> field -> value: what the client has
syncVars == <<player, updates, deletes, client>>

NoItems == [i \in {} |-> {}]
All == {}   \* an item without a field: fill_del takes it off
Without(f, S) == Restrict(f, DOMAIN f \ S)
\* g laid over f.
Over(f, g) == [x \in DOMAIN f \cup DOMAIN g |-> IF x \in DOMAIN g THEN g[x] ELSE f[x]]
Under(f, x) == IF x \in DOMAIN f THEN f[x] ELSE NoItems

\* fill_upd: what is there is merged, what is not is added.
FillUpd(tree, upd) ==
  [i \in DOMAIN tree \cup DOMAIN upd |-> Over(Under(tree, i), Under(upd, i))]

\* fill_del.
FillDel(tree, del) ==
  LET gone == {i \in DOMAIN del : del[i] = All}
  IN  [i \in DOMAIN tree \ gone |-> IF i \in DOMAIN del THEN Without(tree[i], del[i]) ELSE tree[i]]

SyncInit ==
  /\ player \in [Item -> [Field -> Value]] /\ client = player
  /\ updates = NoItems /\ deletes = NoItems

----------------------------------------------------------------------------
\* update(player, path) of a value: what was deleted before goes out first.
NoteUpdate(i, fields) ==
  /\ client' = FillDel(client, deletes) /\ deletes' = NoItems
  /\ updates' = FillUpd(updates, [x \in {i} |-> fields])

\* An item that the client does not have yet is noted as the item itself, and so
\* without the fields it has lost by now.
Noted(i, fields) ==
  [j \in DOMAIN updates |->
     IF j = i /\ i \notin DOMAIN client THEN Without(updates[i], fields) ELSE updates[j]]

\* Mutant: what was updated stays noted, to go out with the next tick.
NoteDeleteKept(i, fields) ==
  /\ client' = client /\ updates' = updates
  /\ deletes' = Over(deletes, [x \in {i} |-> fields])

\* update(player, path, deltype): what was updated before goes out first.
NoteDelete(i, fields) ==
  /\ client' = FillUpd(client, Noted(i, fields)) /\ updates' = NoItems
  /\ deletes' = Over(deletes, [x \in {i} |->
       IF fields = All THEN All
       ELSE fields \cup (IF i \in DOMAIN deletes THEN deletes[i] ELSE {})])

\* The game sets a field of an item.
SetField(i, f, v) ==
  /\ i \in DOMAIN player
  /\ player' = [player EXCEPT ![i] = Over(@, [x \in {f} |-> v])]
  /\ NoteUpdate(i, [x \in {f} |-> v])

\* The game puts an item where there was none.
AddItem(i, item) ==
  /\ i \notin DOMAIN player
  /\ player' = Over(player, [x \in {i} |-> item])
  /\ NoteUpdate(i, item)

DelField(i, f) ==
  /\ i \in DOMAIN player /\ f \in DOMAIN player[i]
  /\ player' = [player EXCEPT ![i] = Without(@, {f})]
  /\ NoteDelete(i, {f})

DelItem(i) ==
  /\ i \in DOMAIN player
  /\ player' = Without(player, {i})
  /\ NoteDelete(i, All)

\* tick.
Tick ==
  /\ updates # NoItems \/ deletes # NoItems
  /\ client' = FillDel(FillUpd(client, updates), deletes)
  /\ updates' = NoItems /\ deletes' = NoItems
  /\ UNCHANGED player

SyncNext ==
  \/ Tick
  \/ \E i \in Item :
       \/ DelItem(i)
       \/ \E f \in Field : DelField(i, f) \/ \E v \in Value : SetField(i, f, v)
       \/ \E F \in SUBSET Field : \E item \in [F -> Value] : AddItem(i, item)

SyncSpec == SyncInit /\ [][SyncNext]_syncVars

----------------------------------------------------------------------------
SyncTypeOK ==
  /\ \A i \in DOMAIN player : i \in Item /\ player[i] \in UNION {[F -> Value] : F \in SUBSET Field}
  /\ \A i \in DOMAIN client : i \in Item /\ client[i] \in UNION {[F -> Value] : F \in SUBSET Field}
  /\ DOMAIN updates \subseteq Item /\ DOMAIN deletes \subseteq Item

\* What the client gets with the next tick makes its copy that of the server,
\* whatever was added, changed and taken off since the last one, in any order.
ReplicaFollows == FillDel(FillUpd(client, updates), deletes) = player
=============================================================================

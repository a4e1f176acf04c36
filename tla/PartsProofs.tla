----------------------------- MODULE PartsProofs -----------------------------
(***************************************************************************)
(* Theorems about parts that work alone: the choice of a master among the  *)
(* servers of a group (db/group/mgr.lua), the sending of a player's        *)
(* changes to the client (synobj/syn2.lua), the counting of quests         *)
(* (quest/quest.lua), the version files (leveldb/cluster/version.lua), the *)
(* circular array of raft/raft/raft_log.c, the services of a database      *)
(* (db/proxy), the node table of a raft server (raft_server.c), scans of   *)
(* leveldb (leveldb/ldb), the ranking (rank/cc/lrank.cc), timers           *)
(* (timer/cc/ltimer.cc), attributes (attr), buffs (battle) and the table   *)
(* of what was used last (lru).                                            *)
(***************************************************************************)
EXTENDS ServerGroup, ObjectSync, Quest, VersionLog, RaftLog, DbProxy, Membership, Ldb, Rank, Timer,
        Attr, Battle, Lru, TLAPS, FiniteSetTheorems, SequenceTheorems, WellFoundedInduction

----------------------------------------------------------------------------
(* A group of servers.                                                     *)
LEMMA LowestIs ==
  ASSUME NEW g, g \subseteq Server, g # {}
  PROVE  Lowest(g) \in g /\ \A t \in g : Lowest(g) <= t
<1> DEFINE Less == {ss \in Nat \X Nat : ss[1] < ss[2]}
<1>1. IsWellFoundedOn(Less, Nat)
  BY NatLessThanWellFounded DEF OpToRel
<1>2. g \subseteq Nat
  BY ServerAssumption
<1>3. PICK n \in g : \A m \in g : <<m, n>> \notin Less
  <2> HIDE DEF Less
  <2> QED BY <1>1, <1>2, WFMin
<1>4. ASSUME NEW m \in g PROVE n <= m
  <2>1. m \in Nat /\ n \in Nat /\ <<m, n>> \notin Less
    BY <1>2, <1>3
  <2>2. ~(m < n)
    BY <2>1
  <2> QED BY <2>1, <2>2
<1>5. \E s \in g : \A t \in g : s <= t
  BY <1>4
<1> QED BY <1>5 DEF Lowest

\* A master that is announced has a smaller name than who is told.
GroupInv ==
  /\ GroupTypeOK /\ MasterIsFirstItKnows
  /\ \A s \in Server : s \in group[s]
  /\ \A s \in Server : told[s] # Nil => told[s] < s
  /\ \A m \in msgs : m.master < m.dst

LEMMA FreshKeeps ==
  ASSUME GroupInv, NEW s \in Server, Fresh(s), msgs' \subseteq msgs, up' \subseteq Server
  PROVE  GroupInv'
<1>1. /\ group' = [group EXCEPT ![s] = {s}] /\ master' = [master EXCEPT ![s] = Nil]
      /\ told' = [told EXCEPT ![s] = Nil]
  BY DEF Fresh
<1>2. GroupTypeOK'
  BY <1>1 DEF GroupInv, GroupTypeOK
<1>3. MasterIsFirstItKnows'
  BY <1>1, ServerAssumption DEF GroupInv, GroupTypeOK, MasterIsFirstItKnows
<1>4. \A t \in Server : t \in group'[t] /\ (told'[t] # Nil => told'[t] < t)
  BY <1>1 DEF GroupInv, GroupTypeOK
<1> QED BY <1>2, <1>3, <1>4 DEF GroupInv

\* A server that takes itself for the master keeps the others of its group, unless they
\* have stopped, and stays the first of them.
LEMMA DiffKeeps ==
  ASSUME GroupInv, NEW s \in Server, s \in up, NEW upd \in SUBSET (up \ group[s]),
         NEW del \in SUBSET (group[s] \ up), ClusterDiff(s, upd, del)
  PROVE  GroupInv'
<1> DEFINE rest == (group[s] \cup upd) \ del
           doubted == IF upd # {} \/ master[s] \in del THEN Nil ELSE master[s]
           elect == doubted = Nil /\ Lowest(rest) = s
<1>1. /\ group' = [group EXCEPT ![s] = rest]
      /\ master' = [master EXCEPT ![s] = IF elect THEN s ELSE doubted]
      /\ msgs' = msgs \cup (IF elect THEN Announcements(s, s, rest) ELSE {})
      /\ up' = up /\ told' = told
  BY DEF ClusterDiff
<1>2. /\ rest \subseteq Server /\ s \in rest /\ up \subseteq Server /\ msgs \subseteq [dst : Server, src : Server, master : Server]
      /\ group \in [Server -> SUBSET Server] /\ master \in [Server -> Server \cup {Nil}]
      /\ told \in [Server -> Server \cup {Nil}]
  BY DEF GroupInv, GroupTypeOK
<1>3. Lowest(rest) \in rest /\ \A t \in rest : Lowest(rest) <= t
  <2> HIDE DEF rest
  <2> QED BY <1>2, LowestIs
<1>4. doubted \in Server \cup {Nil}
  BY <1>2
<1>5. ~elect /\ doubted = s => Lowest(rest) = s
  <2> SUFFICES ASSUME doubted = s PROVE Lowest(rest) = s
    OBVIOUS
  <2>1. upd = {} /\ master[s] = s
    BY ServerAssumption
  <2>2. s = Lowest(group[s])
    BY <2>1 DEF GroupInv, MasterIsFirstItKnows
  <2>3. \A t \in group[s] : s <= t
    BY <1>2, <2>2, LowestIs
  <2>4. rest \subseteq group[s]
    BY <2>1
  <2>5. s <= Lowest(rest) /\ Lowest(rest) <= s
    BY <1>2, <1>3, <2>3, <2>4
  <2>6. s \in Nat /\ Lowest(rest) \in Nat
    BY <1>2, <1>3, ServerAssumption
  <2> QED BY <2>5, <2>6
<1>6. ASSUME elect, NEW m \in Announcements(s, s, rest)
      PROVE  m.master < m.dst /\ m \in [dst : Server, src : Server, master : Server]
  <2>1. PICK n \in rest \ {s} : m = [dst |-> n, src |-> s, master |-> s]
    BY DEF Announcements
  <2>2. s <= n /\ n # s /\ n \in Nat /\ s \in Nat
    BY <1>2, <1>3, <1>6, ServerAssumption
  <2>3. n \in Server
    BY <1>2, <2>1
  <2>4. m.master = s /\ m.dst = n
    BY <2>1
  <2>5. m.master < m.dst
    BY <2>2, <2>4
  <2> QED BY <2>1, <2>3, <2>5
<1> DEFINE chosen == IF elect THEN s ELSE doubted
<1>7. chosen \in Server \cup {Nil} /\ (chosen = s => s = Lowest(rest))
  BY <1>4, <1>5
<1>8. /\ msgs' \subseteq [dst : Server, src : Server, master : Server]
      /\ \A m \in msgs' : m.master < m.dst
  BY <1>1, <1>2, <1>6 DEF GroupInv
<1>9. master' = [master EXCEPT ![s] = chosen]
  BY <1>1
<1> HIDE DEF chosen, elect, doubted, rest
<1>10. GroupTypeOK'
  BY <1>1, <1>2, <1>7, <1>8, <1>9 DEF GroupTypeOK
<1>11. MasterIsFirstItKnows'
  <2>1. ASSUME NEW t \in Server, master'[t] = t PROVE t = Lowest(group'[t])
    <3>1. CASE t = s
      BY <1>1, <1>2, <1>7, <1>9, <2>1, <3>1
    <3>2. CASE t # s
      BY <1>1, <1>2, <1>9, <2>1, <3>2 DEF GroupInv, MasterIsFirstItKnows
    <3> QED BY <3>1, <3>2
  <2> QED BY <2>1 DEF MasterIsFirstItKnows
<1>12. \A t \in Server : t \in group'[t] /\ (told'[t] # Nil => told'[t] < t)
  BY <1>1, <1>2 DEF GroupInv
<1> QED BY <1>8, <1>10, <1>11, <1>12 DEF GroupInv

LEMMA GroupInvHolds == GroupSpec => []GroupInv
<1>1. GroupInit => GroupInv
  <2> SUFFICES ASSUME GroupInit PROVE GroupInv
    OBVIOUS
  <2>1. /\ up = {} /\ msgs = {} /\ group = [s \in Server |-> {s}]
        /\ master = [s \in Server |-> Nil] /\ told = [s \in Server |-> Nil]
    BY DEF GroupInit
  <2>2. GroupTypeOK
    BY <2>1 DEF GroupTypeOK
  <2>3. MasterIsFirstItKnows
    BY <2>1, ServerAssumption DEF MasterIsFirstItKnows
  <2> QED BY <2>1, <2>2, <2>3 DEF GroupInv
<1>2. ASSUME GroupInv, [GroupNext]_groupVars PROVE GroupInv'
  <2>1. ASSUME NEW s \in Server, StartServer(s) PROVE GroupInv'
    <3>1. Fresh(s) /\ msgs' = msgs /\ up' \subseteq Server
      BY <1>2, <2>1 DEF StartServer, GroupInv, GroupTypeOK
    <3> QED BY <1>2, <3>1, FreshKeeps
  <2>2. ASSUME NEW s \in Server, StopServer(s) PROVE GroupInv'
    <3>1. Fresh(s) /\ msgs' \subseteq msgs /\ up' \subseteq Server
      BY <1>2, <2>2 DEF StopServer, GroupInv, GroupTypeOK
    <3> QED BY <1>2, <3>1, FreshKeeps
  <2>3. ASSUME NEW s \in Server, Notice(s) PROVE GroupInv'
    <3>1. PICK upd \in SUBSET (up \ group[s]), del \in SUBSET (group[s] \ up) : ClusterDiff(s, upd, del)
      BY <2>3 DEF Notice
    <3>2. s \in up
      BY <2>3 DEF Notice
    <3> QED BY <1>2, <3>1, <3>2, DiffKeeps
  <2>4. ASSUME NEW m \in msgs, GroupMaster(m) PROVE GroupInv'
    <3>1. /\ msgs' \subseteq msgs /\ up' = up /\ group' = group
          /\ master' = [master EXCEPT ![m.dst] = m.master] /\ told' = [told EXCEPT ![m.dst] = m.master]
      BY <2>4 DEF GroupMaster
    <3>2. /\ m.dst \in Server /\ m.master \in Server /\ m.master < m.dst
          /\ master \in [Server -> Server \cup {Nil}] /\ told \in [Server -> Server \cup {Nil}]
      BY <1>2 DEF GroupInv, GroupTypeOK
    <3>3. m.master # m.dst
      <4>1. m.master \in Nat
        BY <3>2, ServerAssumption
      <4>2. ~(m.master < m.master)
        BY <4>1
      <4> QED BY <3>2, <4>2
    <3>4. GroupTypeOK'
      BY <1>2, <3>1, <3>2 DEF GroupInv, GroupTypeOK
    <3>5. MasterIsFirstItKnows'
      BY <1>2, <3>1, <3>2, <3>3 DEF GroupInv, MasterIsFirstItKnows
    <3>6. \A s \in Server : told'[s] # Nil => told'[s] < s
      BY <1>2, <3>1, <3>2 DEF GroupInv
    <3> QED BY <1>2, <3>1, <3>4, <3>5, <3>6 DEF GroupInv
  <2>5. CASE UNCHANGED groupVars
    BY <1>2, <2>5 DEF groupVars, GroupInv, GroupTypeOK, MasterIsFirstItKnows
  <2> QED BY <1>2, <2>1, <2>2, <2>3, <2>4, <2>5 DEF GroupNext
<1> QED BY <1>1, <1>2, PTL DEF GroupSpec

\* An operation is forwarded only to a server with a smaller name, so that two servers never
\* send one back and forth, and a server that takes itself for the master is the first of
\* those it knows (select_master and cluster_diff in db/group/mgr.lua, master_bygroup in
\* db/proxy/mgr.lua).
THEOREM MastersAgree == GroupSpec => []OneMasterWins
<1>1. GroupInv => OneMasterWins
  <2> SUFFICES ASSUME GroupInv PROVE OneMasterWins
    OBVIOUS
  <2>1. ASSUME NEW s \in Server, Route(s) # Nil, Route(s) # s PROVE Route(s) < s
    <3>1. Route(s) = told[s]
      BY <2>1 DEF Route
    <3> QED BY <2>1, <3>1 DEF GroupInv
  <2> QED BY <2>1 DEF OneMasterWins, ForwardsGoDown, GroupInv
<1> QED BY <1>1, GroupInvHolds, PTL

----------------------------------------------------------------------------
(* Trees of items and what is laid over them and taken off.                *)
IsMap(f) == f = [x \in DOMAIN f |-> f[x]]
IsTree(t) == IsMap(t) /\ \A i \in DOMAIN t : IsMap(t[i])

LEMMA SameMap ==
  ASSUME NEW f, NEW g, IsMap(f), IsMap(g), DOMAIN f = DOMAIN g, \A x \in DOMAIN f : f[x] = g[x]
  PROVE  f = g
<1>1. f = [x \in DOMAIN f |-> f[x]] /\ g = [x \in DOMAIN g |-> g[x]]
  BY DEF IsMap
<1>2. [x \in DOMAIN f |-> f[x]] = [x \in DOMAIN g |-> g[x]]
  OBVIOUS
<1> QED BY <1>1, <1>2

LEMMA NothingIs == DOMAIN NoItems = {} /\ IsMap(NoItems) /\ IsTree(NoItems)
  BY DEF NoItems, IsTree, IsMap

LEMMA OverIs ==
  ASSUME NEW f, NEW g
  PROVE  /\ DOMAIN Over(f, g) = DOMAIN f \cup DOMAIN g /\ IsMap(Over(f, g))
         /\ \A x \in DOMAIN f \cup DOMAIN g : Over(f, g)[x] = IF x \in DOMAIN g THEN g[x] ELSE f[x]
  BY DEF Over, IsMap

LEMMA OverNothing ==
  ASSUME NEW f, IsMap(f)
  PROVE  Over(f, NoItems) = f /\ Over(NoItems, f) = f
<1> DEFINE a == Over(f, NoItems)
           b == Over(NoItems, f)
<1>1. DOMAIN a = DOMAIN f /\ IsMap(a) /\ \A x \in DOMAIN f : a[x] = f[x]
  BY NothingIs DEF Over, IsMap
<1>2. DOMAIN b = DOMAIN f /\ IsMap(b) /\ \A x \in DOMAIN f : b[x] = f[x]
  BY NothingIs DEF Over, IsMap
<1> HIDE DEF a, b
<1>3. a = f /\ b = f
  BY <1>1, <1>2, SameMap
<1> QED BY <1>3 DEF a, b

LEMMA OverTwice ==
  ASSUME NEW f, NEW g, NEW h
  PROVE  Over(Over(f, g), h) = Over(f, Over(g, h))
<1> DEFINE a == Over(Over(f, g), h)
           b == Over(f, Over(g, h))
<1>1. DOMAIN a = DOMAIN f \cup DOMAIN g \cup DOMAIN h /\ IsMap(a)
  BY DEF Over, IsMap
<1>2. DOMAIN b = DOMAIN f \cup DOMAIN g \cup DOMAIN h /\ IsMap(b)
  BY DEF Over, IsMap
<1>3. ASSUME NEW x \in DOMAIN f \cup DOMAIN g \cup DOMAIN h PROVE a[x] = b[x]
  <2>1. a[x] = IF x \in DOMAIN h THEN h[x] ELSE IF x \in DOMAIN g THEN g[x] ELSE f[x]
    BY DEF Over
  <2>2. b[x] = IF x \in DOMAIN h THEN h[x] ELSE IF x \in DOMAIN g THEN g[x] ELSE f[x]
    BY DEF Over
  <2> QED BY <2>1, <2>2
<1> HIDE DEF a, b
<1>4. a = b
  BY <1>1, <1>2, <1>3, SameMap
<1> QED BY <1>4 DEF a, b

LEMMA WithoutIs ==
  ASSUME NEW f, NEW S
  PROVE  /\ DOMAIN Without(f, S) = DOMAIN f \ S /\ IsMap(Without(f, S))
         /\ \A x \in DOMAIN f \ S : Without(f, S)[x] = f[x]
  BY DEF Without, Restrict, IsMap

LEMMA AtIs ==
  ASSUME NEW t, IsTree(t), NEW i
  PROVE  /\ i \in DOMAIN t => Under(t, i) = t[i]
         /\ i \notin DOMAIN t => Under(t, i) = NoItems
         /\ IsMap(Under(t, i))
  BY NothingIs DEF Under, IsTree

LEMMA FillUpdIs ==
  ASSUME NEW t, NEW u
  PROVE  /\ DOMAIN FillUpd(t, u) = DOMAIN t \cup DOMAIN u /\ IsTree(FillUpd(t, u))
         /\ \A i \in DOMAIN t \cup DOMAIN u : FillUpd(t, u)[i] = Over(Under(t, i), Under(u, i))
<1>1. /\ DOMAIN FillUpd(t, u) = DOMAIN t \cup DOMAIN u /\ IsMap(FillUpd(t, u))
      /\ \A i \in DOMAIN t \cup DOMAIN u : FillUpd(t, u)[i] = Over(Under(t, i), Under(u, i))
  BY DEF FillUpd, IsMap
<1>2. \A i \in DOMAIN FillUpd(t, u) : IsMap(FillUpd(t, u)[i])
  <2>1. ASSUME NEW i \in DOMAIN t \cup DOMAIN u PROVE IsMap(FillUpd(t, u)[i])
    <3>1. IsMap(Over(Under(t, i), Under(u, i)))
      BY DEF Over, IsMap
    <3> QED BY <1>1, <3>1
  <2> QED BY <1>1, <2>1
<1> QED BY <1>1, <1>2 DEF IsTree

LEMMA FillUpdNothing ==
  ASSUME NEW t, IsTree(t)
  PROVE  FillUpd(t, NoItems) = t /\ FillUpd(NoItems, t) = t
<1>1. IsMap(t) /\ \A i \in DOMAIN t : IsMap(t[i]) /\ Under(t, i) = t[i]
  BY AtIs DEF IsTree
<1>2. \A i : Under(NoItems, i) = NoItems
  BY NothingIs, AtIs
<1>3. \A i \in DOMAIN t : Over(Under(t, i), Under(NoItems, i)) = t[i] /\ Over(Under(NoItems, i), Under(t, i)) = t[i]
  BY <1>1, <1>2, OverNothing
<1>4. FillUpd(t, NoItems) = t
  <2>1. /\ DOMAIN FillUpd(t, NoItems) = DOMAIN t /\ IsMap(FillUpd(t, NoItems))
        /\ \A i \in DOMAIN t : FillUpd(t, NoItems)[i] = Over(Under(t, i), Under(NoItems, i))
    BY NothingIs DEF FillUpd, IsMap
  <2> DEFINE a == FillUpd(t, NoItems)
  <2>2. DOMAIN a = DOMAIN t /\ IsMap(a) /\ \A i \in DOMAIN t : a[i] = t[i]
    BY <1>3, <2>1
  <2> HIDE DEF a
  <2>3. a = t
    BY <1>1, <2>2, SameMap
  <2> QED BY <2>3 DEF a
<1>5. FillUpd(NoItems, t) = t
  <2>1. /\ DOMAIN FillUpd(NoItems, t) = DOMAIN t /\ IsMap(FillUpd(NoItems, t))
        /\ \A i \in DOMAIN t : FillUpd(NoItems, t)[i] = Over(Under(NoItems, i), Under(t, i))
    BY NothingIs DEF FillUpd, IsMap
  <2> DEFINE a == FillUpd(NoItems, t)
  <2>2. DOMAIN a = DOMAIN t /\ IsMap(a) /\ \A i \in DOMAIN t : a[i] = t[i]
    BY <1>3, <2>1
  <2> HIDE DEF a
  <2>3. a = t
    BY <1>1, <2>2, SameMap
  <2> QED BY <2>3 DEF a
<1> QED BY <1>4, <1>5

\* What is noted twice may be laid over what is noted before it is laid over a tree.
LEMMA FillUpdTwice ==
  ASSUME NEW t, NEW u, NEW w, IsTree(t), IsTree(u), IsTree(w)
  PROVE  FillUpd(FillUpd(t, u), w) = FillUpd(t, FillUpd(u, w))
<1> DEFINE a == FillUpd(FillUpd(t, u), w)
           b == FillUpd(t, FillUpd(u, w))
           D == DOMAIN t \cup DOMAIN u \cup DOMAIN w
<1>1. DOMAIN a = D /\ IsMap(a)
  BY DEF FillUpd, IsMap
<1>2. DOMAIN b = D /\ IsMap(b)
  BY DEF FillUpd, IsMap
<1>3. ASSUME NEW x, NEW y, IsTree(x), IsTree(y), NEW i PROVE Under(FillUpd(x, y), i) = Over(Under(x, i), Under(y, i))
  <2>1. CASE i \in DOMAIN x \cup DOMAIN y
    <3>1. i \in DOMAIN FillUpd(x, y) /\ IsTree(FillUpd(x, y))
      BY <2>1, FillUpdIs
    <3>2. FillUpd(x, y)[i] = Over(Under(x, i), Under(y, i))
      BY <2>1, FillUpdIs
    <3>3. Under(FillUpd(x, y), i) = FillUpd(x, y)[i]
      BY <3>1 DEF Under
    <3> QED BY <3>2, <3>3
  <2>2. CASE i \notin DOMAIN x \cup DOMAIN y
    <3>1. i \notin DOMAIN FillUpd(x, y) /\ IsTree(FillUpd(x, y))
      BY <2>2, FillUpdIs
    <3>2. Under(x, i) = NoItems /\ Under(y, i) = NoItems /\ Under(FillUpd(x, y), i) = NoItems
      BY <1>3, <2>2, <3>1, AtIs
    <3> QED BY <3>2, OverNothing, NothingIs
  <2> QED BY <2>1, <2>2
<1>4. ASSUME NEW i \in D PROVE a[i] = b[i]
  <2>1. a[i] = Over(Under(FillUpd(t, u), i), Under(w, i))
    BY DEF FillUpd
  <2>2. b[i] = Over(Under(t, i), Under(FillUpd(u, w), i))
    <3>1. DOMAIN FillUpd(u, w) = DOMAIN u \cup DOMAIN w
      BY DEF FillUpd
    <3> DEFINE y == FillUpd(u, w)
    <3>2. b = FillUpd(t, y) /\ i \in DOMAIN t \cup DOMAIN y
      BY <3>1
    <3> HIDE DEF y
    <3>3. FillUpd(t, y)[i] = Over(Under(t, i), Under(y, i))
      BY <3>2 DEF FillUpd
    <3> QED BY <3>2, <3>3 DEF y
  <2>3. Under(FillUpd(t, u), i) = Over(Under(t, i), Under(u, i)) /\ Under(FillUpd(u, w), i) = Over(Under(u, i), Under(w, i))
    BY <1>3
  <2> QED BY <2>1, <2>2, <2>3, OverTwice
<1> HIDE DEF a, b
<1>5. a = b
  BY <1>1, <1>2, <1>4, SameMap
<1> QED BY <1>5 DEF a, b

Gone(d) == {i \in DOMAIN d : d[i] = All}
LEMMA FillDelIs ==
  ASSUME NEW t, NEW d
  PROVE  /\ DOMAIN FillDel(t, d) = DOMAIN t \ Gone(d) /\ IsMap(FillDel(t, d))
         /\ \A i \in DOMAIN t \ Gone(d) :
              FillDel(t, d)[i] = IF i \in DOMAIN d THEN Without(t[i], d[i]) ELSE t[i]
         /\ IsTree(t) => IsTree(FillDel(t, d))
<1>1. /\ DOMAIN FillDel(t, d) = DOMAIN t \ Gone(d) /\ IsMap(FillDel(t, d))
      /\ \A i \in DOMAIN t \ Gone(d) :
           FillDel(t, d)[i] = IF i \in DOMAIN d THEN Without(t[i], d[i]) ELSE t[i]
  BY DEF FillDel, Gone, IsMap
<1>2. ASSUME IsTree(t), NEW i \in DOMAIN t \ Gone(d) PROVE IsMap(FillDel(t, d)[i])
  <2>1. IsMap(t[i]) /\ IsMap(Without(t[i], d[i]))
    BY <1>2, WithoutIs DEF IsTree
  <2> QED BY <1>1, <2>1
<1> QED BY <1>1, <1>2 DEF IsTree

LEMMA FillDelNothing ==
  ASSUME NEW t, IsTree(t)
  PROVE  FillDel(t, NoItems) = t
<1>1. Gone(NoItems) = {}
  BY NothingIs DEF Gone
<1>2. /\ DOMAIN FillDel(t, NoItems) = DOMAIN t /\ IsMap(FillDel(t, NoItems))
      /\ \A i \in DOMAIN t : FillDel(t, NoItems)[i] = t[i]
  BY <1>1, NothingIs DEF FillDel, Gone, IsMap
<1> DEFINE a == FillDel(t, NoItems)
<1>3. DOMAIN a = DOMAIN t /\ IsMap(a) /\ \A i \in DOMAIN t : a[i] = t[i]
  BY <1>2
<1> HIDE DEF a
<1>4. a = t
  BY <1>3, SameMap DEF IsTree
<1> QED BY <1>4 DEF a

----------------------------------------------------------------------------
(* The changes of a player's data and what of them is sent.                *)
\* Updates and deletions are not noted at the same time.
SyncInv ==
  /\ IsTree(player) /\ IsTree(client) /\ IsTree(updates) /\ IsMap(deletes)
  /\ updates = NoItems \/ deletes = NoItems
  /\ ReplicaFollows

\* Either what is noted as updated makes the client's copy that of the server, or what is
\* noted as deleted does.
LEMMA OneIsNoted ==
  ASSUME SyncInv
  PROVE  /\ deletes = NoItems => FillUpd(client, updates) = player
         /\ updates = NoItems => FillDel(client, deletes) = player
<1>1. IsTree(client) /\ FillDel(FillUpd(client, updates), deletes) = player
  BY DEF SyncInv, ReplicaFollows
<1>2. ASSUME deletes = NoItems PROVE FillUpd(client, updates) = player
  <2> DEFINE t == FillUpd(client, updates)
  <2>1. IsTree(t)
    BY FillUpdIs
  <2>2. FillDel(t, NoItems) = player
    BY <1>1, <1>2
  <2> HIDE DEF t
  <2>3. FillDel(t, NoItems) = t
    BY <2>1, FillDelNothing
  <2> QED BY <2>2, <2>3 DEF t
<1>3. ASSUME updates = NoItems PROVE FillDel(client, deletes) = player
  <2>1. FillUpd(client, NoItems) = client
    BY <1>1, FillUpdNothing
  <2> QED BY <1>1, <1>3, <2>1
<1> QED BY <1>2, <1>3

LEMMA NoteUpdateKeeps ==
  ASSUME SyncInv, NEW i, NEW fields, IsMap(fields), NoteUpdate(i, fields),
         player' = FillUpd(player, [x \in {i} |-> fields])
  PROVE  SyncInv'
<1> DEFINE u == [x \in {i} |-> fields]
<1>1. IsTree(u)
  BY DEF IsTree, IsMap
<1>2. /\ client' = FillDel(client, deletes) /\ deletes' = NoItems /\ updates' = FillUpd(updates, u)
      /\ player' = FillUpd(player, u)
  BY DEF NoteUpdate
<1>3. /\ IsTree(player) /\ IsTree(client) /\ IsTree(updates) /\ IsMap(deletes)
      /\ updates = NoItems \/ deletes = NoItems
  BY DEF SyncInv
<1> HIDE DEF u
<1>4. IsTree(player') /\ IsTree(updates') /\ IsTree(client') /\ IsMap(deletes')
  <2>1. IsTree(FillUpd(player, u)) /\ IsTree(FillUpd(updates, u))
    BY FillUpdIs
  <2>2. IsTree(FillDel(client, deletes))
    BY <1>3, FillDelIs
  <2> QED BY <1>2, <2>1, <2>2, NothingIs
<1>5. FillUpd(client', updates') = player'
  <2>1. CASE deletes = NoItems
    <3>1. client' = client
      BY <1>2, <1>3, <2>1, FillDelNothing
    <3>2. FillUpd(FillUpd(client, updates), u) = FillUpd(client, FillUpd(updates, u))
      BY <1>1, <1>3, FillUpdTwice
    <3>3. FillUpd(client, updates) = player
      BY <2>1, OneIsNoted
    <3> QED BY <1>2, <3>1, <3>2, <3>3
  <2>2. CASE updates = NoItems
    <3>1. client' = player
      BY <1>2, <2>2, OneIsNoted
    <3>2. updates' = u
      BY <1>1, <1>2, <2>2, FillUpdNothing
    <3> QED BY <1>2, <3>1, <3>2
  <2> QED BY <1>3, <2>1, <2>2
<1>6. FillDel(FillUpd(client', updates'), deletes') = player'
  BY <1>2, <1>4, <1>5, FillDelNothing
<1> QED BY <1>2, <1>4, <1>6 DEF SyncInv, ReplicaFollows

LEMMA NoteDeleteKeeps ==
  ASSUME SyncInv, NEW i, NEW fields, i \in DOMAIN player, NoteDelete(i, fields), IsTree(player'),
         IF fields = All THEN player' = Without(player, {i})
         ELSE /\ DOMAIN player' = DOMAIN player /\ player'[i] = Without(player[i], fields)
              /\ \A j \in DOMAIN player \ {i} : player'[j] = player[j]
  PROVE  SyncInv'
<1> DEFINE del == IF fields = All THEN All
                  ELSE fields \cup (IF i \in DOMAIN deletes THEN deletes[i] ELSE {})
           sent == Noted(i, fields)
           now == FillUpd(client, sent)
<1>1. /\ client' = now /\ updates' = NoItems /\ deletes' = Over(deletes, [x \in {i} |-> del])
  BY DEF NoteDelete
<1>2. /\ IsTree(player) /\ IsTree(client) /\ IsTree(updates) /\ IsMap(deletes)
      /\ updates = NoItems \/ deletes = NoItems
  BY DEF SyncInv
<1>3. /\ DOMAIN deletes' = DOMAIN deletes \cup {i} /\ IsMap(deletes') /\ deletes'[i] = del
      /\ \A j \in DOMAIN deletes \ {i} : deletes'[j] = deletes[j]
  BY <1>1 DEF Over, IsMap
<1>4. IsTree(now)
  BY FillUpdIs
<1>5. del = All <=> fields = All
  BY DEF All
<1>6. Gone(deletes') \ {i} = Gone(deletes) \ {i} /\ (i \in Gone(deletes') <=> fields = All)
  BY <1>3, <1>5 DEF Gone
<1>7. /\ DOMAIN sent = DOMAIN updates
      /\ \A j \in DOMAIN updates :
           sent[j] = IF j = i /\ i \notin DOMAIN client THEN Without(updates[i], fields) ELSE updates[j]
  BY DEF Noted
<1>8. /\ DOMAIN now = DOMAIN client \cup DOMAIN sent
      /\ \A j \in DOMAIN now : now[j] = Over(Under(client, j), Under(sent, j))
  BY DEF FillUpd
<1> HIDE DEF now, sent, del
<1> DEFINE then == FillDel(now, deletes')
<1>9. /\ DOMAIN then = DOMAIN now \ Gone(deletes') /\ IsMap(then)
      /\ \A j \in DOMAIN now \ Gone(deletes') :
           then[j] = IF j \in DOMAIN deletes' THEN Without(now[j], deletes'[j]) ELSE now[j]
  BY DEF FillDel, Gone, IsMap
<1> HIDE DEF then
<1>10. /\ DOMAIN then = DOMAIN player'
       /\ \A j \in DOMAIN player' : then[j] = player'[j]
  <2>1. CASE deletes = NoItems
    <3>1. DOMAIN deletes = {} /\ Gone(deletes) = {}
      BY <2>1, NothingIs DEF Gone
    <3>2. /\ DOMAIN player = DOMAIN client \cup DOMAIN updates
          /\ \A j \in DOMAIN player : player[j] = Over(Under(client, j), Under(updates, j))
      BY <2>1, OneIsNoted DEF FillUpd
    <3>3. DOMAIN now = DOMAIN player
      BY <1>7, <1>8, <3>2
    <3>4. \A j \in DOMAIN player \ {i} : now[j] = player[j]
      BY <1>7, <1>8, <3>2, <3>3 DEF Under
    <3>5. CASE fields = All
      <4>1. DOMAIN player' = DOMAIN player \ {i} /\ \A j \in DOMAIN player \ {i} : player'[j] = player[j]
        BY <3>5 DEF Without, Restrict
      <4> QED BY <1>3, <1>6, <1>9, <3>1, <3>3, <3>4, <3>5, <4>1
    <3>6. CASE fields # All
      <4>1. /\ DOMAIN player' = DOMAIN player /\ player'[i] = Without(player[i], fields)
            /\ \A j \in DOMAIN player \ {i} : player'[j] = player[j]
        BY <3>6
      <4>2. Gone(deletes') = {}
        BY <1>6, <3>1, <3>6
      <4>3. \A j \in DOMAIN player \ {i} : then[j] = player'[j]
        BY <1>3, <1>9, <3>1, <3>3, <3>4, <4>1, <4>2
      <4>4. then[i] = Without(now[i], fields)
        BY <1>3, <1>9, <3>1, <3>3, <3>6, <4>2 DEF del
      <4>5. Without(now[i], fields) = Without(player[i], fields)
        <5>1. CASE i \in DOMAIN client
          BY <1>7, <1>8, <3>2, <3>3, <5>1 DEF Under
        <5>2. CASE i \notin DOMAIN client
          <6>1. i \in DOMAIN updates /\ IsMap(updates[i])
            BY <1>2, <3>2, <5>2 DEF IsTree
          <6>2. player[i] = updates[i]
            BY <3>2, <5>2, <6>1, OverNothing DEF Under
          <6> DEFINE w == Without(updates[i], fields)
          <6>3. IsMap(w)
            BY WithoutIs
          <6>4. now[i] = Over(NoItems, w)
            BY <1>7, <1>8, <3>3, <5>2, <6>1 DEF Under
          <6>5. now[i] = w
            <7> HIDE DEF w
            <7> QED BY <6>3, <6>4, OverNothing
          <6>6. Without(w, fields) = w
            BY DEF Without, Restrict
          <6> QED BY <6>2, <6>5, <6>6
        <5> QED BY <5>1, <5>2
      <4>6. DOMAIN then = DOMAIN player'
        BY <1>9, <3>3, <4>1, <4>2
      <4> QED BY <4>1, <4>3, <4>4, <4>5, <4>6
    <3> QED BY <3>5, <3>6
  <2>2. CASE updates = NoItems
    <3>1. DOMAIN sent = {}
      BY <1>7, <2>2, NothingIs
    <3>2. DOMAIN now = DOMAIN client /\ \A j \in DOMAIN client : now[j] = client[j]
      <4>1. ASSUME NEW j \in DOMAIN client PROVE now[j] = client[j]
        <5>1. Under(client, j) = client[j] /\ Under(sent, j) = NoItems /\ IsMap(client[j])
          BY <1>2, <3>1 DEF Under, IsTree
        <5> QED BY <1>8, <5>1, OverNothing
      <4> QED BY <1>8, <3>1, <4>1
    <3>3. /\ DOMAIN player = DOMAIN client \ Gone(deletes)
          /\ \A j \in DOMAIN player :
               player[j] = IF j \in DOMAIN deletes THEN Without(client[j], deletes[j]) ELSE client[j]
      BY <2>2, OneIsNoted DEF FillDel, Gone
    <3>4. i \notin Gone(deletes)
      BY <3>3
    <3>5. CASE fields = All
      <4>1. DOMAIN player' = DOMAIN player \ {i} /\ \A j \in DOMAIN player \ {i} : player'[j] = player[j]
        BY <3>5 DEF Without, Restrict
      <4>2. DOMAIN then = DOMAIN player'
        BY <1>6, <1>9, <3>2, <3>3, <3>5, <4>1
      <4>3. ASSUME NEW j \in DOMAIN player' PROVE then[j] = player'[j]
        BY <1>3, <1>9, <3>2, <3>3, <4>1, <4>2
      <4> QED BY <4>2, <4>3
    <3>6. CASE fields # All
      <4>1. /\ DOMAIN player' = DOMAIN player /\ player'[i] = Without(player[i], fields)
            /\ \A j \in DOMAIN player \ {i} : player'[j] = player[j]
        BY <3>6
      <4>2. DOMAIN then = DOMAIN player'
        BY <1>6, <1>9, <3>2, <3>3, <3>4, <3>6, <4>1
      <4>3. ASSUME NEW j \in DOMAIN player' \ {i} PROVE then[j] = player'[j]
        BY <1>3, <1>9, <3>2, <3>3, <4>1, <4>2
      <4>4. then[i] = Without(client[i], del)
        BY <1>3, <1>9, <3>2, <4>1, <4>2
      <4>5. Without(client[i], del) = Without(player[i], fields)
        <5>1. CASE i \in DOMAIN deletes
          <6>1. del = fields \cup deletes[i]
            BY <3>6, <5>1 DEF del
          <6>2. player[i] = Without(client[i], deletes[i])
            BY <3>3, <5>1
          <6>3. ASSUME NEW f, NEW A, NEW B PROVE Without(f, A \cup B) = Without(Without(f, B), A)
            <7>1. DOMAIN Without(f, B) = DOMAIN f \ B
              BY WithoutIs
            <7>2. (DOMAIN f \ B) \ A = DOMAIN f \ (A \cup B)
              OBVIOUS
            <7>3. Without(Without(f, B), A) = [x \in DOMAIN f \ (A \cup B) |-> Without(f, B)[x]]
              BY <7>1, <7>2 DEF Without, Restrict
            <7>4. \A x \in DOMAIN f \ (A \cup B) : Without(f, B)[x] = f[x]
              BY DEF Without, Restrict
            <7> QED BY <7>3, <7>4 DEF Without, Restrict
          <6> QED BY <6>1, <6>2, <6>3
        <5>2. CASE i \notin DOMAIN deletes
          <6>1. del = fields /\ player[i] = client[i]
            BY <3>3, <3>6, <5>2 DEF del
          <6> QED BY <6>1
        <5> QED BY <5>1, <5>2
      <4> QED BY <4>1, <4>2, <4>3, <4>4, <4>5
    <3> QED BY <3>5, <3>6
  <2> QED BY <1>2, <2>1, <2>2
<1>11. then = player'
  BY <1>9, <1>10, SameMap DEF IsTree
<1>12. FillUpd(client', updates') = client'
  BY <1>1, <1>4, FillUpdNothing
<1> QED BY <1>1, <1>3, <1>4, <1>11, <1>12, NothingIs DEF SyncInv, ReplicaFollows, then

LEMMA SyncInvHolds == SyncSpec => []SyncInv
<1>1. SyncInit => SyncInv
  <2> SUFFICES ASSUME SyncInit PROVE SyncInv
    OBVIOUS
  <2>1. player \in [Item -> [Field -> Value]] /\ client = player /\ updates = NoItems /\ deletes = NoItems
    BY DEF SyncInit
  <2>2. IsTree(player)
    BY <2>1 DEF IsTree, IsMap
  <2>3. FillUpd(player, NoItems) = player /\ FillDel(player, NoItems) = player
    BY <2>2, FillUpdNothing, FillDelNothing
  <2> QED BY <2>1, <2>2, <2>3, NothingIs DEF SyncInv, ReplicaFollows
<1>2. ASSUME SyncInv, [SyncNext]_syncVars PROVE SyncInv'
  <2>1. CASE Tick
    <3>1. /\ client' = player /\ updates' = NoItems /\ deletes' = NoItems /\ player' = player
      BY <1>2, <2>1 DEF Tick, SyncInv, ReplicaFollows
    <3>2. IsTree(player)
      BY <1>2 DEF SyncInv
    <3>3. FillUpd(player, NoItems) = player /\ FillDel(player, NoItems) = player
      BY <3>2, FillUpdNothing, FillDelNothing
    <3> QED BY <3>1, <3>2, <3>3, NothingIs DEF SyncInv, ReplicaFollows
  <2>2. ASSUME NEW i \in Item, DelItem(i) PROVE SyncInv'
    <3>1. i \in DOMAIN player /\ player' = Without(player, {i}) /\ NoteDelete(i, All)
      BY <2>2 DEF DelItem
    <3>2. IsTree(player')
      <4>1. IsTree(player)
        BY <1>2 DEF SyncInv
      <4> QED BY <3>1, <4>1 DEF Without, Restrict, IsTree, IsMap
    <3> QED BY <1>2, <3>1, <3>2, NoteDeleteKeeps
  <2>3. ASSUME NEW i \in Item, NEW f \in Field, DelField(i, f) PROVE SyncInv'
    <3>1. /\ i \in DOMAIN player /\ player' = [player EXCEPT ![i] = Without(@, {f})]
          /\ NoteDelete(i, {f})
      BY <2>3 DEF DelField
    <3>2. IsTree(player)
      BY <1>2 DEF SyncInv
    <3>3. /\ DOMAIN player' = DOMAIN player /\ player'[i] = Without(player[i], {f})
          /\ \A j \in DOMAIN player \ {i} : player'[j] = player[j]
          /\ IsMap(player')
      BY <3>1 DEF IsMap
    <3>4. IsTree(player')
      <4>1. IsMap(Without(player[i], {f}))
        BY WithoutIs
      <4> QED BY <3>1, <3>2, <3>3, <4>1 DEF IsTree
    <3>5. {f} # All
      BY DEF All
    <3> QED BY <1>2, <3>1, <3>3, <3>4, <3>5, NoteDeleteKeeps
  <2>4. ASSUME NEW i \in Item, NEW f \in Field, NEW v \in Value, SetField(i, f, v) PROVE SyncInv'
    <3> DEFINE fields == [x \in {f} |-> v]
               u == [x \in {i} |-> fields]
    <3>1. i \in DOMAIN player /\ player' = [player EXCEPT ![i] = Over(@, fields)] /\ NoteUpdate(i, fields)
      BY <2>4 DEF SetField
    <3>2. IsMap(fields) /\ DOMAIN u = {i} /\ u[i] = fields
      BY DEF IsMap
    <3> HIDE DEF fields
    <3>3. IsTree(player)
      BY <1>2 DEF SyncInv
    <3>4. DOMAIN player' = DOMAIN player /\ IsMap(player')
      BY <3>1 DEF IsMap
    <3>5. ASSUME NEW j \in DOMAIN player PROVE player'[j] = Over(Under(player, j), Under(u, j))
      <4>1. CASE j = i
        BY <3>1, <3>2, <4>1 DEF Under
      <4>2. CASE j # i
        <5>1. Under(player, j) = player[j] /\ Under(u, j) = NoItems /\ IsMap(player[j])
          BY <3>2, <3>3, <4>2 DEF Under, IsTree
        <5> QED BY <3>1, <4>2, <5>1, OverNothing
      <4> QED BY <4>1, <4>2
    <3> HIDE DEF u
    <3> DEFINE then == FillUpd(player, u)
    <3>6. DOMAIN then = DOMAIN player /\ IsMap(then)
          /\ \A j \in DOMAIN player : then[j] = Over(Under(player, j), Under(u, j))
      BY <3>1, <3>2 DEF FillUpd, IsMap
    <3> HIDE DEF then
    <3>7. player' = then
      BY <3>4, <3>5, <3>6, SameMap
    <3> QED BY <1>2, <3>1, <3>2, <3>7, NoteUpdateKeeps DEF then, u
  <2>5. ASSUME NEW i \in Item, NEW F \in SUBSET Field, NEW item \in [F -> Value], AddItem(i, item)
        PROVE  SyncInv'
    <3> DEFINE u == [x \in {i} |-> item]
    <3>1. i \notin DOMAIN player /\ player' = Over(player, u) /\ NoteUpdate(i, item)
      BY <2>5 DEF AddItem
    <3>2. IsMap(item) /\ DOMAIN u = {i} /\ u[i] = item
      BY DEF IsMap
    <3>3. IsTree(player)
      BY <1>2 DEF SyncInv
    <3>4. /\ DOMAIN player' = DOMAIN player \cup {i} /\ IsMap(player') /\ player'[i] = item
          /\ \A j \in DOMAIN player : player'[j] = player[j]
      BY <3>1, <3>2 DEF Over, IsMap
    <3>5. ASSUME NEW j \in DOMAIN player \cup {i} PROVE player'[j] = Over(Under(player, j), Under(u, j))
      <4>1. CASE j = i
        <5>1. Under(player, j) = NoItems /\ Under(u, j) = item
          BY <3>1, <3>2, <4>1 DEF Under
        <5> QED BY <3>2, <3>4, <4>1, <5>1, OverNothing
      <4>2. CASE j # i
        <5>1. Under(player, j) = player[j] /\ Under(u, j) = NoItems /\ IsMap(player[j])
          BY <3>2, <3>3, <4>2 DEF Under, IsTree
        <5> QED BY <3>4, <4>2, <5>1, OverNothing
      <4> QED BY <4>1, <4>2
    <3> HIDE DEF u
    <3> DEFINE then == FillUpd(player, u)
    <3>6. DOMAIN then = DOMAIN player \cup {i} /\ IsMap(then)
          /\ \A j \in DOMAIN player \cup {i} : then[j] = Over(Under(player, j), Under(u, j))
      BY <3>2 DEF FillUpd, IsMap
    <3> HIDE DEF then
    <3>7. player' = then
      BY <3>4, <3>5, <3>6, SameMap
    <3> QED BY <1>2, <3>1, <3>2, <3>7, NoteUpdateKeeps DEF then, u
  <2>6. CASE UNCHANGED syncVars
    BY <1>2, <2>6 DEF syncVars, SyncInv, ReplicaFollows
  <2> QED BY <1>2, <2>1, <2>2, <2>3, <2>4, <2>5, <2>6 DEF SyncNext
<1> QED BY <1>1, <1>2, PTL DEF SyncSpec

\* Whatever is added, changed and taken off between two ticks, in any order, what is noted
\* makes the client's copy that of the server (update, tick, fill_upd and fill_del in
\* synobj/syn2.lua).
THEOREM ClientFollows == SyncSpec => []ReplicaFollows
<1>1. SyncInv => ReplicaFollows
  BY DEF SyncInv
<1> QED BY <1>1, SyncInvHolds, PTL

----------------------------------------------------------------------------
(* The quests of a player.                                                 *)
QuestRecord == [num : Nat, done : BOOLEAN]
TypeOf(q) == Cfgs[q].type

\* How far a quest is.
Counts(q) ==
  LET num == total[TypeOf(q)] - since[q]
  IN  IF TypeOf(q) \in Handled
      THEN quests[q].done \/ quests[q].num = level[TypeOf(q)]
      ELSE /\ quests[q].num = IF num < Cfgs[q].num THEN num ELSE Cfgs[q].num
           /\ quests[q].done <=> num >= Cfgs[q].num

\* The index holds just the quests that are not done.
Waiting(q, t) == t \in DOMAIN index /\ q \in index[t]
QuestWaits == \A q \in known, t \in Type : Waiting(q, t) <=> t = TypeOf(q) /\ ~quests[q].done

QuestTypes ==
  /\ known \subseteq DOMAIN Cfgs /\ quests \in [known -> QuestRecord] /\ since \in [known -> Nat]
  /\ total \in [Type -> Nat] /\ level \in [Handled -> Nat]
  /\ IsMap(index) /\ DOMAIN index \subseteq Type /\ \A t \in DOMAIN index : index[t] # {} /\ index[t] \subseteq known
  /\ \A q \in known : since[q] <= total[TypeOf(q)]

QuestInv == QuestTypes /\ QuestWaits /\ \A q \in known : Counts(q)

LEMMA CountedIs ==
  ASSUME NEW q \in DOMAIN Cfgs, NEW quest \in QuestRecord, NEW n \in Nat, NEW said \in [Handled -> Nat]
  PROVE  /\ Counted(q, quest, n, said) \in QuestRecord
         /\ LET num == IF TypeOf(q) \in Handled THEN said[TypeOf(q)] ELSE quest.num + n
            IN  /\ num >= Cfgs[q].num => Counted(q, quest, n, said) = [num |-> Cfgs[q].num, done |-> TRUE]
                /\ ~(num >= Cfgs[q].num) => Counted(q, quest, n, said) = [num |-> num, done |-> quest.done]
<1> DEFINE num == IF TypeOf(q) \in Handled THEN said[TypeOf(q)] ELSE quest.num + n
<1>1. Cfgs[q].num \in Nat
  BY CfgsAssumption
<1>2. num \in Nat
  BY DEF QuestRecord
<1>3. Counted(q, quest, n, said)
      = IF num >= Cfgs[q].num THEN [num |-> Cfgs[q].num, done |-> TRUE] ELSE [quest EXCEPT !.num = num]
  BY DEF Counted, TypeOf
<1> HIDE DEF num
<1>4. quest.done \in BOOLEAN /\ [quest EXCEPT !.num = num] = [num |-> num, done |-> quest.done]
  BY DEF QuestRecord
<1>5. Counted(q, quest, n, said) \in QuestRecord
  BY <1>1, <1>2, <1>3, <1>4 DEF QuestRecord
<1> QED BY <1>3, <1>4, <1>5 DEF num

\* An event counts for the quests of its type that are not done, and takes those that
\* are done by it off the index.
LEMMA CountIndexedIs ==
  ASSUME QuestInv, NEW t, NEW n \in Nat, NEW said \in [Handled -> Nat], CountIndexed(t, n, said)
  PROVE  /\ quests' \in [known -> QuestRecord]
         /\ \A q \in known :
              quests'[q] = IF TypeOf(q) = t /\ ~quests[q].done THEN Counted(q, quests[q], n, said) ELSE quests[q]
         /\ IsMap(index') /\ DOMAIN index' \subseteq Type
         /\ \A x \in DOMAIN index' : index'[x] # {} /\ index'[x] \subseteq known
         /\ \A q \in known, x \in Type :
              (x \in DOMAIN index' /\ q \in index'[x]) <=> x = TypeOf(q) /\ ~quests'[q].done
<1>1. /\ known \subseteq DOMAIN Cfgs /\ quests \in [known -> QuestRecord]
      /\ IsMap(index) /\ DOMAIN index \subseteq Type /\ \A x \in DOMAIN index : index[x] # {} /\ index[x] \subseteq known
  BY DEF QuestInv, QuestTypes
<1>2. \A q \in known : TypeOf(q) \in Type
  BY <1>1 DEF Type, TypeOf
<1>3. \A q \in known, x \in Type : (x \in DOMAIN index /\ q \in index[x]) <=> x = TypeOf(q) /\ ~quests[q].done
  BY DEF QuestInv, QuestWaits, Waiting
<1>4. CASE t \notin DOMAIN index
  <2>1. quests' = quests /\ index' = index
    BY <1>4 DEF CountIndexed
  <2>2. \A q \in known : ~(TypeOf(q) = t /\ ~quests[q].done)
    BY <1>2, <1>3, <1>4
  <2> QED BY <1>1, <1>3, <2>1, <2>2
<1>5. CASE t \in DOMAIN index
  <2> DEFINE counted == [q \in index[t] |-> Counted(q, quests[q], n, said)]
             left == {q \in index[t] : ~counted[q].done}
  <2>1. /\ quests' = [q \in DOMAIN quests |-> IF q \in index[t] THEN counted[q] ELSE quests[q]]
        /\ index' = IF left = {} THEN Restrict(index, DOMAIN index \ {t}) ELSE [index EXCEPT ![t] = left]
    BY <1>5 DEF CountIndexed
  <2>2. t \in Type /\ index[t] \subseteq known
    BY <1>1, <1>5
  <2>3. \A q \in index[t] : counted[q] = Counted(q, quests[q], n, said) /\ counted[q] \in QuestRecord
    <3>1. ASSUME NEW q \in index[t] PROVE Counted(q, quests[q], n, said) \in QuestRecord
      <4>1. q \in DOMAIN Cfgs /\ quests[q] \in QuestRecord
        BY <1>1, <2>2
      <4> QED BY <4>1, CountedIs
    <3> QED BY <3>1
  <2>4. \A q \in known : q \in index[t] <=> TypeOf(q) = t /\ ~quests[q].done
    BY <1>3, <1>5, <2>2
  <2> HIDE DEF counted
  <2>5. quests' \in [known -> QuestRecord]
    BY <1>1, <2>1, <2>3
  <2>6. \A q \in known :
          quests'[q] = IF TypeOf(q) = t /\ ~quests[q].done THEN Counted(q, quests[q], n, said) ELSE quests[q]
    BY <1>1, <2>1, <2>3, <2>4
  <2>7. \A q \in known : q \in left <=> TypeOf(q) = t /\ ~quests'[q].done
    <3>1. ASSUME NEW q \in known PROVE q \in left <=> TypeOf(q) = t /\ ~quests'[q].done
      <4>1. CASE q \in index[t]
        <5>1. quests'[q] = counted[q] /\ TypeOf(q) = t
          BY <1>1, <2>1, <2>4, <4>1
        <5> QED BY <4>1, <5>1
      <4>2. CASE q \notin index[t]
        <5>1. quests'[q] = quests[q] /\ ~(TypeOf(q) = t /\ ~quests[q].done)
          BY <1>1, <2>1, <2>4, <4>2
        <5> QED BY <4>2, <5>1
      <4> QED BY <4>1, <4>2
    <3> QED BY <3>1
  <2>8. left \subseteq known
    BY <2>2
  <2>9. \A q \in known : TypeOf(q) # t => quests'[q] = quests[q]
    BY <2>6
  <2> HIDE DEF left
  <2>10. /\ IsMap(index') /\ DOMAIN index' = IF left = {} THEN DOMAIN index \ {t} ELSE DOMAIN index
         /\ \A x \in DOMAIN index' : index'[x] = IF x = t THEN left ELSE index[x]
    <3>1. CASE left = {}
      BY <2>1, <3>1 DEF Restrict, IsMap
    <3>2. CASE left # {}
      BY <2>1, <3>2 DEF IsMap
    <3> QED BY <3>1, <3>2
  <2>11. \A x \in DOMAIN index' : index'[x] # {} /\ index'[x] \subseteq known
    BY <1>1, <2>8, <2>10
  <2>12. ASSUME NEW q \in known, NEW x \in Type
         PROVE  (x \in DOMAIN index' /\ q \in index'[x]) <=> x = TypeOf(q) /\ ~quests'[q].done
    <3>1. CASE x = t
      BY <1>5, <2>7, <2>10, <3>1
    <3>2. CASE x # t
      <4>1. (x \in DOMAIN index' /\ q \in index'[x]) <=> (x \in DOMAIN index /\ q \in index[x])
        BY <2>10, <3>2
      <4>2. (x \in DOMAIN index /\ q \in index[x]) <=> x = TypeOf(q) /\ ~quests[q].done
        BY <1>3
      <4>3. x = TypeOf(q) => quests'[q] = quests[q]
        BY <2>9, <3>2
      <4> QED BY <4>1, <4>2, <4>3
    <3> QED BY <3>1, <3>2
  <2> QED BY <1>1, <2>5, <2>6, <2>10, <2>11, <2>12
<1> QED BY <1>4, <1>5

LEMMA InitQuestsKeeps ==
  ASSUME QuestInv, NEW Q \in SUBSET DOMAIN Cfgs, known \subseteq Q, InitQuests(Q)
  PROVE  QuestInv'
<1> DEFINE new == Q \ DOMAIN quests
           quest == [q \in new |-> Counted(q, [num |-> 0, done |-> FALSE], 0, level)]
           waiting(t) == {q \in new : Cfgs[q].type = t /\ ~quest[q].done}
           types == DOMAIN index \cup {Cfgs[q].type : q \in {q \in new : ~quest[q].done}}
<1>1. /\ known' = Q
      /\ quests' = [q \in DOMAIN quests \cup new |-> IF q \in new THEN quest[q] ELSE quests[q]]
      /\ index' = [t \in types |-> waiting(t) \cup (IF t \in DOMAIN index THEN index[t] ELSE {})]
      /\ since' = [q \in DOMAIN quests \cup new |-> IF q \in new THEN total[Cfgs[q].type] ELSE since[q]]
      /\ level' = level /\ total' = total
  BY DEF InitQuests
<1>2. /\ known \subseteq DOMAIN Cfgs /\ quests \in [known -> QuestRecord] /\ since \in [known -> Nat]
      /\ total \in [Type -> Nat] /\ level \in [Handled -> Nat]
      /\ IsMap(index) /\ DOMAIN index \subseteq Type /\ \A t \in DOMAIN index : index[t] # {} /\ index[t] \subseteq known
      /\ \A q \in known : since[q] <= total[TypeOf(q)]
  BY DEF QuestInv, QuestTypes
<1>3. /\ new = Q \ known /\ DOMAIN quests \cup new = Q /\ new \subseteq DOMAIN Cfgs
      /\ \A q \in Q : TypeOf(q) \in Type
  BY <1>2 DEF Type, TypeOf
<1>4. [num |-> 0, done |-> FALSE] \in QuestRecord
  BY DEF QuestRecord
<1>5. ASSUME NEW q \in new
      PROVE  /\ quest[q] \in QuestRecord
             /\ LET num == IF TypeOf(q) \in Handled THEN level[TypeOf(q)] ELSE 0
                IN  /\ num >= Cfgs[q].num => quest[q] = [num |-> Cfgs[q].num, done |-> TRUE]
                    /\ ~(num >= Cfgs[q].num) => quest[q] = [num |-> num, done |-> FALSE]
  <2> DEFINE fresh == [num |-> 0, done |-> FALSE]
  <2>1. q \in DOMAIN Cfgs /\ quest[q] = Counted(q, fresh, 0, level) /\ 0 \in Nat
    BY <1>3
  <2>2. fresh.num + 0 = 0 /\ fresh.done = FALSE
    OBVIOUS
  <2>3. fresh \in QuestRecord
    BY <1>4
  <2> HIDE DEF fresh, quest
  <2> DEFINE num == IF TypeOf(q) \in Handled THEN level[TypeOf(q)] ELSE fresh.num + 0
  <2>4. /\ Counted(q, fresh, 0, level) \in QuestRecord
        /\ num >= Cfgs[q].num => Counted(q, fresh, 0, level) = [num |-> Cfgs[q].num, done |-> TRUE]
        /\ ~(num >= Cfgs[q].num) => Counted(q, fresh, 0, level) = [num |-> num, done |-> fresh.done]
    BY <1>2, <2>1, <2>3, CountedIs
  <2> QED BY <2>1, <2>2, <2>4
<1> HIDE DEF quest
<1>6. quests' \in [Q -> QuestRecord] /\ since' \in [Q -> Nat]
  <2>1. \A q \in new : total[TypeOf(q)] \in Nat
    BY <1>2, <1>3
  <2> QED BY <1>1, <1>2, <1>3, <1>5, <2>1 DEF TypeOf
<1>7. \A q \in Q : q \notin new => quests'[q] = quests[q] /\ since'[q] = since[q]
  BY <1>1, <1>3
<1>8. \A q \in new : quests'[q] = quest[q] /\ since'[q] = total[TypeOf(q)]
  BY <1>1, <1>3 DEF TypeOf
<1>9. \A q \in Q : since'[q] <= total'[TypeOf(q)]
  <2>1. \A q \in Q : total[TypeOf(q)] \in Nat
    BY <1>2, <1>3
  <2>2. ASSUME NEW q \in Q PROVE since'[q] <= total[TypeOf(q)]
    <3>1. CASE q \in new
      <4>1. since'[q] = total[TypeOf(q)] /\ total[TypeOf(q)] \in Nat
        BY <1>8, <2>1, <3>1
      <4> QED BY <4>1
    <3>2. CASE q \notin new
      <4>1. q \in known /\ since'[q] = since[q]
        BY <1>3, <1>7, <3>2
      <4> QED BY <1>2, <4>1
    <3> QED BY <3>1, <3>2
  <2> QED BY <1>1, <2>2 DEF TypeOf
<1>10. /\ IsMap(index') /\ DOMAIN index' = types
       /\ \A t \in types : index'[t] = waiting(t) \cup (IF t \in DOMAIN index THEN index[t] ELSE {})
  BY <1>1 DEF IsMap
<1>11. types \subseteq Type
  <2>1. \A q \in new : Cfgs[q].type \in Type
    BY <1>3 DEF TypeOf
  <2> QED BY <1>2, <2>1
<1>12. \A t \in types : index'[t] # {} /\ index'[t] \subseteq Q
  <2>1. ASSUME NEW t \in types PROVE index'[t] # {} /\ index'[t] \subseteq Q
    <3>1. waiting(t) \subseteq Q /\ (t \in DOMAIN index => index[t] \subseteq Q /\ index[t] # {})
      BY <1>2, <1>3
    <3>2. t \notin DOMAIN index => waiting(t) # {}
      OBVIOUS
    <3> QED BY <1>10, <3>1, <3>2
  <2> QED BY <2>1
<1>13. QuestTypes'
  BY <1>1, <1>2, <1>6, <1>9, <1>10, <1>11, <1>12 DEF QuestTypes
<1>14. QuestWaits'
  <2>1. ASSUME NEW q \in Q, NEW t \in Type
        PROVE  (t \in DOMAIN index' /\ q \in index'[t]) <=> t = TypeOf(q) /\ ~quests'[q].done
    <3>1. CASE q \in new
      <4>1. t \in DOMAIN index => q \notin index[t]
        BY <1>2, <1>3, <3>1
      <4>2. q \in waiting(t) <=> t = TypeOf(q) /\ ~quest[q].done
        BY <3>1 DEF TypeOf
      <4>3. q \in waiting(t) => t \in types
        BY <3>1
      <4> HIDE DEF waiting, types
      <4> QED BY <1>8, <1>10, <3>1, <4>1, <4>2, <4>3
    <3>2. CASE q \notin new
      <4>1. q \in known /\ q \notin waiting(t)
        BY <1>3, <3>2
      <4>2. (t \in DOMAIN index /\ q \in index[t]) <=> t = TypeOf(q) /\ ~quests[q].done
        BY <4>1 DEF QuestInv, QuestWaits, Waiting
      <4>3. DOMAIN index \subseteq types
        OBVIOUS
      <4> HIDE DEF waiting, types
      <4> QED BY <1>7, <1>10, <3>2, <4>1, <4>2, <4>3
    <3> QED BY <3>1, <3>2
  <2> QED BY <1>1, <2>1 DEF QuestWaits, Waiting
<1>15. ASSUME NEW q \in Q PROVE Counts(q)'
  <2>1. CASE q \in new
    <3>1. total[TypeOf(q)] \in Nat /\ Cfgs[q].num \in Nat /\ total[TypeOf(q)] - total[TypeOf(q)] = 0
      BY <1>2, <1>3, CfgsAssumption
    <3>2. quests'[q] = quest[q] /\ since'[q] = total[TypeOf(q)]
      BY <1>8, <2>1
    <3>3. CASE TypeOf(q) \in Handled
      <4>1. quest[q].done \/ quest[q].num = level[TypeOf(q)]
        <5>1. /\ level[TypeOf(q)] >= Cfgs[q].num => quest[q] = [num |-> Cfgs[q].num, done |-> TRUE]
              /\ ~(level[TypeOf(q)] >= Cfgs[q].num) => quest[q] = [num |-> level[TypeOf(q)], done |-> FALSE]
          BY <1>5, <2>1, <3>3
        <5>2. CASE level[TypeOf(q)] >= Cfgs[q].num
          BY <5>1, <5>2
        <5>3. CASE ~(level[TypeOf(q)] >= Cfgs[q].num)
          BY <5>1, <5>3
        <5> QED BY <5>2, <5>3
      <4>2. quests'[q].done \/ quests'[q].num = level'[TypeOf(q)]
        BY <1>1, <3>2, <4>1
      <4> QED BY <3>3, <4>2, Zenon DEF Counts, TypeOf
    <3>4. CASE TypeOf(q) \notin Handled
      <4>1. /\ 0 >= Cfgs[q].num => quest[q] = [num |-> Cfgs[q].num, done |-> TRUE]
            /\ ~(0 >= Cfgs[q].num) => quest[q] = [num |-> 0, done |-> FALSE]
        BY <1>5, <2>1, <3>4
      <4>2. quest[q].num = (IF 0 < Cfgs[q].num THEN 0 ELSE Cfgs[q].num) /\ (quest[q].done <=> 0 >= Cfgs[q].num)
        <5>1. CASE 0 >= Cfgs[q].num
          BY <3>1, <4>1, <5>1
        <5>2. CASE ~(0 >= Cfgs[q].num)
          BY <3>1, <4>1, <5>2
        <5> QED BY <5>1, <5>2
      <4> QED BY <1>1, <3>1, <3>2, <3>4, <4>2 DEF Counts
    <3> QED BY <3>3, <3>4
  <2>2. CASE q \notin new
    <3>1. q \in known
      BY <1>3, <2>2
    <3>2. Counts(q)
      BY <3>1 DEF QuestInv
    <3> QED BY <1>1, <1>7, <2>2, <3>2 DEF Counts
  <2> QED BY <2>1, <2>2
<1> QED BY <1>1, <1>13, <1>14, <1>15 DEF QuestInv

LEMMA EventKeeps ==
  ASSUME QuestInv, NEW t \in Type, NEW n \in Nat, Event(t, n)
  PROVE  QuestInv'
<1>1. /\ t \notin Handled /\ total' = [total EXCEPT ![t] = @ + n] /\ CountIndexed(t, n, level)
      /\ known' = known /\ level' = level /\ since' = since
  BY DEF Event
<1>2. /\ known \subseteq DOMAIN Cfgs /\ quests \in [known -> QuestRecord] /\ since \in [known -> Nat]
      /\ total \in [Type -> Nat] /\ level \in [Handled -> Nat]
      /\ \A q \in known : since[q] <= total[TypeOf(q)] /\ TypeOf(q) \in Type
  BY DEF QuestInv, QuestTypes, Type, TypeOf
<1>3. /\ quests' \in [known -> QuestRecord]
      /\ \A q \in known :
           quests'[q] = IF TypeOf(q) = t /\ ~quests[q].done THEN Counted(q, quests[q], n, level) ELSE quests[q]
      /\ IsMap(index') /\ DOMAIN index' \subseteq Type
      /\ \A x \in DOMAIN index' : index'[x] # {} /\ index'[x] \subseteq known
      /\ \A q \in known, x \in Type :
           (x \in DOMAIN index' /\ q \in index'[x]) <=> x = TypeOf(q) /\ ~quests'[q].done
  BY <1>1, <1>2, CountIndexedIs
<1>4. /\ total' \in [Type -> Nat] /\ total'[t] = total[t] + n /\ total[t] \in Nat
      /\ \A x \in Type : x # t => total'[x] = total[x]
  BY <1>1, <1>2
<1>5. \A q \in known : since[q] <= total'[TypeOf(q)]
  <2>1. ASSUME NEW q \in known PROVE since[q] <= total'[TypeOf(q)]
    <3>1. since[q] \in Nat /\ since[q] <= total[TypeOf(q)] /\ TypeOf(q) \in Type
      BY <1>2
    <3>2. CASE TypeOf(q) = t
      BY <1>4, <3>1, <3>2
    <3>3. CASE TypeOf(q) # t
      BY <1>4, <3>1, <3>3
    <3> QED BY <3>2, <3>3
  <2> QED BY <2>1
<1>6. QuestTypes'
  BY <1>1, <1>2, <1>3, <1>4, <1>5 DEF QuestTypes, TypeOf
<1>7. QuestWaits'
  BY <1>1, <1>3 DEF QuestWaits, Waiting, TypeOf
<1>8. ASSUME NEW q \in known PROVE Counts(q)'
  <2>1. Counts(q) /\ TypeOf(q) \in Type /\ q \in DOMAIN Cfgs /\ quests[q] \in QuestRecord
    BY <1>2 DEF QuestInv
  <2>2. CASE TypeOf(q) # t
    <3>1. quests'[q] = quests[q] /\ total'[TypeOf(q)] = total[TypeOf(q)]
      BY <1>3, <1>4, <2>1, <2>2
    <3> QED BY <1>1, <2>1, <3>1 DEF Counts, TypeOf
  <2>3. CASE TypeOf(q) = t
    <3> DEFINE num == total[t] - since[q]
               want == Cfgs[q].num
    <3>1. since[q] \in Nat /\ since[q] <= total[t] /\ want \in Nat /\ total[t] \in Nat
      BY <1>2, <1>4, <2>1, <2>3, CfgsAssumption
    <3>2. num \in Nat /\ total'[t] - since'[q] = num + n
      BY <1>1, <1>4, <3>1
    <3>3. quests[q].num = (IF num < want THEN num ELSE want) /\ (quests[q].done <=> num >= want)
      BY <1>1, <2>1, <2>3 DEF Counts
    <3> HIDE DEF num, want
    <3>4. quests'[q].num = (IF num + n < want THEN num + n ELSE want) /\ (quests'[q].done <=> num + n >= want)
      <4>1. CASE quests[q].done
        <5>1. quests'[q] = quests[q]
          BY <1>3, <4>1
        <5> QED BY <3>1, <3>2, <3>3, <4>1, <5>1
      <4>2. CASE ~quests[q].done
        <5>1. quests'[q] = Counted(q, quests[q], n, level)
          BY <1>3, <2>3, <4>2
        <5>2. num < want /\ quests[q].num = num
          BY <3>1, <3>2, <3>3, <4>2
        <5>3. /\ num + n >= want => quests'[q] = [num |-> want, done |-> TRUE]
              /\ ~(num + n >= want) => quests'[q] = [num |-> num + n, done |-> quests[q].done]
          BY <1>1, <1>2, <2>1, <2>3, <5>1, <5>2, CountedIs DEF want
        <5>4. CASE num + n >= want
          BY <3>1, <3>2, <5>3, <5>4
        <5>5. CASE ~(num + n >= want)
          BY <3>1, <3>2, <4>2, <5>3, <5>5
        <5> QED BY <5>4, <5>5
      <4> QED BY <4>1, <4>2
    <3> QED BY <1>1, <2>3, <3>2, <3>4 DEF Counts, TypeOf, want
  <2> QED BY <2>2, <2>3
<1> QED BY <1>1, <1>6, <1>7, <1>8 DEF QuestInv

LEMMA LevelEventKeeps ==
  ASSUME QuestInv, NEW t \in Handled, NEW lv \in Nat, LevelEvent(t, lv)
  PROVE  QuestInv'
<1>1. /\ level' = [level EXCEPT ![t] = lv] /\ CountIndexed(t, lv, level')
      /\ known' = known /\ total' = total /\ since' = since
  BY DEF LevelEvent
<1>2. /\ known \subseteq DOMAIN Cfgs /\ quests \in [known -> QuestRecord] /\ since \in [known -> Nat]
      /\ total \in [Type -> Nat] /\ level \in [Handled -> Nat]
      /\ \A q \in known : since[q] <= total[TypeOf(q)] /\ TypeOf(q) \in Type
  BY DEF QuestInv, QuestTypes, Type, TypeOf
<1>3. level' \in [Handled -> Nat] /\ level'[t] = lv /\ \A x \in Handled : x # t => level'[x] = level[x]
  BY <1>1, <1>2
<1>4. /\ quests' \in [known -> QuestRecord]
      /\ \A q \in known :
           quests'[q] = IF TypeOf(q) = t /\ ~quests[q].done THEN Counted(q, quests[q], lv, level') ELSE quests[q]
      /\ IsMap(index') /\ DOMAIN index' \subseteq Type
      /\ \A x \in DOMAIN index' : index'[x] # {} /\ index'[x] \subseteq known
      /\ \A q \in known, x \in Type :
           (x \in DOMAIN index' /\ q \in index'[x]) <=> x = TypeOf(q) /\ ~quests'[q].done
  <2>1. PICK said \in [Handled -> Nat] : said = level'
    BY <1>3
  <2>2. CountIndexed(t, lv, said)
    BY <1>1, <2>1
  <2>3. /\ quests' \in [known -> QuestRecord]
        /\ \A q \in known :
             quests'[q] = IF TypeOf(q) = t /\ ~quests[q].done THEN Counted(q, quests[q], lv, said) ELSE quests[q]
        /\ IsMap(index') /\ DOMAIN index' \subseteq Type
        /\ \A x \in DOMAIN index' : index'[x] # {} /\ index'[x] \subseteq known
        /\ \A q \in known, x \in Type :
             (x \in DOMAIN index' /\ q \in index'[x]) <=> x = TypeOf(q) /\ ~quests'[q].done
    BY <2>2, CountIndexedIs
  <2> QED BY <2>1, <2>3
<1>5. QuestTypes'
  BY <1>1, <1>2, <1>3, <1>4 DEF QuestTypes, TypeOf
<1>6. QuestWaits'
  BY <1>1, <1>4 DEF QuestWaits, Waiting, TypeOf
<1>7. ASSUME NEW q \in known PROVE Counts(q)'
  <2>1. Counts(q) /\ q \in DOMAIN Cfgs /\ quests[q] \in QuestRecord
    BY <1>2 DEF QuestInv
  <2>2. CASE TypeOf(q) # t
    <3>1. quests'[q] = quests[q] /\ (TypeOf(q) \in Handled => level'[TypeOf(q)] = level[TypeOf(q)])
      BY <1>3, <1>4, <2>2
    <3> QED BY <1>1, <2>1, <3>1 DEF Counts, TypeOf
  <2>3. CASE TypeOf(q) = t
    <3>1. quests'[q].done \/ quests'[q].num = level'[t]
      <4>1. CASE quests[q].done
        BY <1>4, <4>1
      <4>2. CASE ~quests[q].done
        <5>1. quests'[q] = Counted(q, quests[q], lv, level')
          BY <1>4, <2>3, <4>2
        <5>2. /\ lv >= Cfgs[q].num => quests'[q] = [num |-> Cfgs[q].num, done |-> TRUE]
              /\ ~(lv >= Cfgs[q].num) => quests'[q] = [num |-> lv, done |-> quests[q].done]
          BY <1>3, <2>1, <2>3, <5>1, CountedIs
        <5> QED BY <1>3, <5>2
      <4> QED BY <4>1, <4>2
    <3> QED BY <2>3, <3>1, Zenon DEF Counts, TypeOf
  <2> QED BY <2>2, <2>3
<1> QED BY <1>1, <1>5, <1>6, <1>7 DEF QuestInv

LEMMA QuestInvHolds == QuestSpec => []QuestInv
<1>1. QuestInit => QuestInv
  <2> SUFFICES ASSUME QuestInit PROVE QuestInv
    OBVIOUS
  <2>1. /\ known = {} /\ quests = NoQuests /\ since = NoQuests /\ index = [t \in {} |-> {}]
        /\ level = [t \in Handled |-> 0] /\ total = [t \in Type |-> 0]
    BY DEF QuestInit
  <2>2. QuestTypes
    BY <2>1 DEF QuestTypes, NoQuests, IsMap
  <2>3. QuestWaits
    BY <2>1 DEF QuestWaits
  <2> QED BY <2>1, <2>2, <2>3 DEF QuestInv
<1>2. ASSUME QuestInv, [QuestNext]_questVars PROVE QuestInv'
  <2>1. ASSUME NEW Q \in SUBSET DOMAIN Cfgs, known \subseteq Q, InitQuests(Q) PROVE QuestInv'
    BY <1>2, <2>1, InitQuestsKeeps
  <2>2. ASSUME NEW t \in Type, NEW n \in 1 .. 2, Event(t, n) PROVE QuestInv'
    <3>1. n \in Nat
      OBVIOUS
    <3> QED BY <1>2, <2>2, <3>1, EventKeeps
  <2>3. ASSUME NEW t \in Handled, NEW lv \in 0 .. MaxLevel, LevelEvent(t, lv) PROVE QuestInv'
    <3>1. lv \in Nat
      BY CfgsAssumption
    <3> QED BY <1>2, <2>3, <3>1, LevelEventKeeps
  <2>4. CASE UNCHANGED questVars
    BY <1>2, <2>4
       DEF questVars, QuestInv, QuestTypes, QuestWaits, Waiting, Counts, TypeOf
  <2> QED BY <1>2, <2>1, <2>2, <2>3, <2>4 DEF QuestNext
<1> QED BY <1>1, <1>2, PTL DEF QuestSpec

\* No event passes a quest by and none counts twice, whenever quests come in and in whatever
\* order they finish: a quest has counted the events of its type since it was accepted, up
\* to its target, and the index holds just those that wait (count, init_quests and M.count
\* in quest/quest.lua).
THEOREM QuestsCount == QuestSpec => []CountsEvents
<1>1. QuestInv => CountsEvents
  BY DEF QuestInv, QuestWaits, Waiting, Counts, TypeOf, CountsEvents
<1> QED BY <1>1, QuestInvHolds, PTL

----------------------------------------------------------------------------
(***************************************************************************)
(* The version files, for any keys, sizes of files, numbers of dumps kept  *)
(* and crashes, but for a crash between the truncation of the file and its *)
(* new header.                                                             *)
(***************************************************************************)
LEMMA LeastNumber ==
  ASSUME NEW X, X \subseteq Nat, X # {}
  PROVE  \E n \in X : \A m \in X : n <= m
<1> DEFINE Less == {ss \in Nat \X Nat : ss[1] < ss[2]}
<1>1. IsWellFoundedOn(Less, Nat)
  BY NatLessThanWellFounded DEF OpToRel
<1>2. PICK n \in X : \A m \in X : <<m, n>> \notin Less
  <2> HIDE DEF Less
  <2> QED BY <1>1, WFMin
<1>3. ASSUME NEW m \in X PROVE n <= m
  <2>1. m \in Nat /\ n \in Nat /\ <<m, n>> \notin Less
    BY <1>2
  <2>2. ~(m < n)
    BY <2>1
  <2> QED BY <2>1, <2>2
<1> QED BY <1>2, <1>3

LEMMA GreatestNumber ==
  ASSUME NEW X, X \subseteq Nat, X # {}, NEW b \in Nat, \A m \in X : m <= b
  PROVE  \E n \in X : \A m \in X : m <= n
<1> DEFINE Y == {b - m : m \in X}
<1>1. Y \subseteq Nat /\ Y # {}
  <2>1. ASSUME NEW m \in X PROVE b - m \in Nat
    <3>1. m \in Nat /\ m <= b
      OBVIOUS
    <3> QED BY <3>1
  <2> QED BY <2>1
<1>2. PICK y \in Y : \A z \in Y : y <= z
  <2> HIDE DEF Y
  <2> QED BY <1>1, LeastNumber
<1>3. PICK n \in X : y = b - n
  OBVIOUS
<1>4. ASSUME NEW m \in X PROVE m <= n
  <2>1. b - n <= b - m
    BY <1>2, <1>3
  <2>2. m \in Nat /\ n \in Nat
    OBVIOUS
  <2> QED BY <2>1, <2>2
<1> QED BY <1>3, <1>4

----------------------------------------------------------------------------
(* What the records of a file hold.                                        *)
LastPlace(keys, k, i) == i \in DOMAIN keys /\ keys[i] = k /\ \A j \in i + 1 .. Len(keys) : keys[j] # k

LEMMA HasLastPlace ==
  ASSUME NEW keys \in Seq(Key), NEW k \in {keys[i] : i \in DOMAIN keys}
  PROVE  \E i \in DOMAIN keys : LastPlace(keys, k, i)
<1> DEFINE X == {i \in DOMAIN keys : keys[i] = k}
<1>1. X \subseteq Nat /\ X # {} /\ Len(keys) \in Nat /\ \A m \in X : m <= Len(keys)
  OBVIOUS
<1>2. PICK n \in X : \A m \in X : m <= n
  <2> HIDE DEF X
  <2> QED BY <1>1, GreatestNumber
<1>3. ASSUME NEW j \in n + 1 .. Len(keys) PROVE keys[j] # k
  <2>1. j \in DOMAIN keys /\ ~(j <= n)
    OBVIOUS
  <2> QED BY <1>2, <2>1
<1> QED BY <1>2, <1>3 DEF LastPlace

LEMMA OneLastPlace ==
  ASSUME NEW keys \in Seq(Key), NEW k, NEW i, NEW j, LastPlace(keys, k, i), LastPlace(keys, k, j)
  PROVE  i = j
<1>1. i \in 1 .. Len(keys) /\ j \in 1 .. Len(keys) /\ Len(keys) \in Nat
  BY DEF LastPlace
<1>2. ~(i < j)
  BY <1>1 DEF LastPlace
<1>3. ~(j < i)
  BY <1>1 DEF LastPlace
<1> QED BY <1>1, <1>2, <1>3

LEMMA HeldAt ==
  ASSUME NEW keys \in Seq(Key), NEW v \in Nat, NEW k, NEW i, LastPlace(keys, k, i)
  PROVE  k \in DOMAIN Held(keys, v) /\ Held(keys, v)[k] = v - 1 + i
<1>1. k \in {keys[x] : x \in DOMAIN keys}
  BY DEF LastPlace
<1>2. Held(keys, v)[k] = v - 1 + (CHOOSE x \in DOMAIN keys : keys[x] = k /\ \A j \in x + 1 .. Len(keys) : keys[j] # k)
  BY <1>1 DEF Held
<1>3. (CHOOSE x \in DOMAIN keys : keys[x] = k /\ \A j \in x + 1 .. Len(keys) : keys[j] # k) = i
  <2> DEFINE P(x) == keys[x] = k /\ \A j \in x + 1 .. Len(keys) : keys[j] # k
  <2>1. i \in DOMAIN keys /\ P(i)
    BY DEF LastPlace
  <2>2. \A x \in DOMAIN keys : P(x) => x = i
    <3>1. ASSUME NEW x \in DOMAIN keys, P(x) PROVE x = i
      <4>1. LastPlace(keys, k, x)
        BY <3>1 DEF LastPlace
      <4> QED BY <4>1, OneLastPlace
    <3> QED BY <3>1
  <2> HIDE DEF P
  <2>3. (CHOOSE x \in DOMAIN keys : P(x)) = i
    BY <2>1, <2>2
  <2> QED BY <2>3 DEF P
<1>4. k \in DOMAIN Held(keys, v)
  BY <1>1 DEF Held
<1> QED BY <1>2, <1>3, <1>4

\* A file holds the newest version of each of its keys, which is one of its own.
LEMMA HeldIs ==
  ASSUME NEW keys \in Seq(Key), NEW v \in Nat \ {0}
  PROVE  /\ DOMAIN Held(keys, v) = {keys[i] : i \in DOMAIN keys} /\ DOMAIN Held(keys, v) \subseteq Key
         /\ \A k \in DOMAIN Held(keys, v) :
              \E i \in DOMAIN keys : LastPlace(keys, k, i) /\ Held(keys, v)[k] = v - 1 + i
         /\ \A i \in DOMAIN keys : Held(keys, v)[keys[i]] >= v - 1 + i
<1>1. DOMAIN Held(keys, v) = {keys[i] : i \in DOMAIN keys}
  BY DEF Held
<1>2. ASSUME NEW k \in DOMAIN Held(keys, v)
      PROVE  \E i \in DOMAIN keys : LastPlace(keys, k, i) /\ Held(keys, v)[k] = v - 1 + i
  <2>1. PICK i \in DOMAIN keys : LastPlace(keys, k, i)
    BY <1>1, HasLastPlace
  <2> QED BY <2>1, HeldAt
<1>3. ASSUME NEW i \in DOMAIN keys PROVE Held(keys, v)[keys[i]] >= v - 1 + i
  <2>1. PICK k : k = keys[i]
    OBVIOUS
  <2>2. PICK j \in DOMAIN keys : LastPlace(keys, k, j) /\ Held(keys, v)[k] = v - 1 + j
    BY <1>1, <1>2, <2>1
  <2>3. ~(j < i)
    <3>1. ASSUME j < i PROVE FALSE
      <4>1. i \in j + 1 .. Len(keys)
        BY <3>1
      <4> QED BY <2>1, <2>2, <4>1 DEF LastPlace
    <3> QED BY <3>1
  <2>4. i \in Nat /\ j \in Nat
    OBVIOUS
  <2> QED BY <2>1, <2>2, <2>3, <2>4
<1>4. {keys[i] : i \in DOMAIN keys} \subseteq Key
  BY ElementOfSeq
<1> QED BY <1>1, <1>2, <1>3, <1>4

LEMMA HeldMore ==
  ASSUME NEW keys \in Seq(Key), NEW k \in Key, NEW v \in Nat \ {0}
  PROVE  Add(Held(keys, v), k, v + Len(keys)) = Held(Append(keys, k), v)
<1> DEFINE more == Append(keys, k)
           old == Held(keys, v)
<1>1. /\ more \in Seq(Key) /\ Len(more) = Len(keys) + 1 /\ Len(keys) \in Nat
      /\ \A i \in 1 .. Len(keys) : more[i] = keys[i]
      /\ more[Len(keys) + 1] = k
  OBVIOUS
<1>2. DOMAIN more = 1 .. Len(keys) + 1 /\ DOMAIN keys = 1 .. Len(keys)
  BY <1>1
<1>3. /\ DOMAIN Held(more, v) = {more[i] : i \in DOMAIN more} /\ DOMAIN old = {keys[i] : i \in DOMAIN keys}
      /\ \A x \in DOMAIN old : \E i \in DOMAIN keys : LastPlace(keys, x, i) /\ old[x] = v - 1 + i
  BY <1>1, HeldIs
<1> HIDE DEF more, old
<1>4. DOMAIN Held(more, v) = DOMAIN old \cup {k}
  <2>1. ASSUME NEW x \in {more[i] : i \in DOMAIN more} PROVE x \in {keys[i] : i \in DOMAIN keys} \cup {k}
    <3>1. PICK i \in DOMAIN more : x = more[i]
      OBVIOUS
    <3>2. i = Len(keys) + 1 \/ i \in 1 .. Len(keys)
      BY <1>1, <1>2
    <3> QED BY <1>1, <1>2, <3>1, <3>2
  <2>2. ASSUME NEW x \in {keys[i] : i \in DOMAIN keys} \cup {k} PROVE x \in {more[i] : i \in DOMAIN more}
    <3>1. \A i \in 1 .. Len(keys) : i \in DOMAIN more
      BY <1>1, <1>2
    <3>2. Len(keys) + 1 \in DOMAIN more
      BY <1>1, <1>2
    <3> QED BY <1>1, <1>2, <3>1, <3>2
  <2> QED BY <1>3, <2>1, <2>2
<1>5. Held(more, v)[k] = v + Len(keys)
  <2>1. LastPlace(more, k, Len(keys) + 1)
    <3>1. Len(keys) \in Nat /\ DOMAIN more = 1 .. Len(keys) + 1 /\ more[Len(keys) + 1] = k
      BY <1>1, <1>2
    <3> QED BY <3>1 DEF LastPlace
  <2>2. PICK i : i = Len(keys) + 1
    OBVIOUS
  <2>3. LastPlace(more, k, i) /\ more \in Seq(Key) /\ v \in Nat
    BY <1>1, <2>1, <2>2
  <2>4. Held(more, v)[k] = v - 1 + i
    BY <2>3, HeldAt
  <2>5. v - 1 + i = v + Len(keys)
    BY <1>1, <2>2
  <2> QED BY <2>4, <2>5
<1>6. ASSUME NEW x \in DOMAIN old, x # k PROVE Held(more, v)[x] = old[x]
  <2>1. PICK i \in DOMAIN keys : LastPlace(keys, x, i) /\ old[x] = v - 1 + i
    BY <1>3
  <2>2. i \in 1 .. Len(keys) /\ i \in DOMAIN more /\ more[i] = x
    BY <1>1, <1>2, <2>1 DEF LastPlace
  <2>3. ASSUME NEW j \in i + 1 .. Len(more) PROVE more[j] # x
    <3>1. j = Len(keys) + 1 \/ (j \in 1 .. Len(keys) /\ j \in i + 1 .. Len(keys))
      BY <1>1, <2>2
    <3> QED BY <1>1, <1>6, <2>1, <3>1 DEF LastPlace
  <2>4. LastPlace(more, x, i)
    BY <2>2, <2>3 DEF LastPlace
  <2> QED BY <1>1, <2>1, <2>4, HeldAt
<1>7. Held(more, v) = [x \in DOMAIN Held(more, v) |-> Held(more, v)[x]]
  BY DEF Held
<1>8. Add(old, k, v + Len(keys)) = [x \in DOMAIN old \cup {k} |-> IF x = k THEN v + Len(keys) ELSE old[x]]
  BY DEF Add
<1>9. \A x \in DOMAIN old \cup {k} : Held(more, v)[x] = IF x = k THEN v + Len(keys) ELSE old[x]
  BY <1>5, <1>6, Zenon
<1>10. Held(more, v) = [x \in DOMAIN old \cup {k} |-> IF x = k THEN v + Len(keys) ELSE old[x]]
  BY <1>4, <1>7, <1>9
<1> QED BY <1>8, <1>10 DEF more, old

LEMMA LastIs ==
  ASSUME NEW keys \in Seq(Key), NEW v \in Nat \ {0}
  PROVE  Last(Held(keys, v), v - 1) = v - 1 + Len(keys)
<1>1. /\ Len(keys) \in Nat /\ DOMAIN keys = 1 .. Len(keys)
      /\ DOMAIN Held(keys, v) = {keys[i] : i \in DOMAIN keys}
      /\ \A k \in DOMAIN Held(keys, v) :
           \E i \in DOMAIN keys : LastPlace(keys, k, i) /\ Held(keys, v)[k] = v - 1 + i
  <2>1. Len(keys) \in Nat /\ DOMAIN keys = 1 .. Len(keys)
    OBVIOUS
  <2> QED BY <2>1, HeldIs
<1>2. CASE Len(keys) = 0
  <2>1. DOMAIN Held(keys, v) = {}
    BY <1>1, <1>2
  <2> QED BY <1>1, <1>2, <2>1 DEF Last
<1>3. CASE Len(keys) # 0
  <2> DEFINE vs == {Held(keys, v)[k] : k \in DOMAIN Held(keys, v)}
             n == v - 1 + Len(keys)
  <2>1. Len(keys) \in DOMAIN keys
    BY <1>1, <1>3
  <2>2. LastPlace(keys, keys[Len(keys)], Len(keys))
    BY <1>1, <2>1 DEF LastPlace
  <2>3. n \in vs
    <3>1. v \in Nat
      OBVIOUS
    <3>2. /\ keys[Len(keys)] \in DOMAIN Held(keys, v)
          /\ Held(keys, v)[keys[Len(keys)]] = v - 1 + Len(keys)
      BY <2>2, <3>1, HeldAt
    <3> QED BY <3>2
  <2>4. \A w \in vs : w <= n /\ w \in Int
    BY <1>1
  <2>5. DOMAIN Held(keys, v) # {}
    BY <1>1, <2>1
  <2>6. n \in Int
    BY <1>1
  <2>7. Last(Held(keys, v), v - 1) = CHOOSE x \in vs : \A w \in vs : w <= x
    BY <2>5 DEF Last
  <2> HIDE DEF vs, n
  <2>8. (CHOOSE x \in vs : \A w \in vs : w <= x) = n
    <3>1. ASSUME NEW x \in vs, \A w \in vs : w <= x PROVE x = n
      BY <2>3, <2>4, <2>6, <3>1
    <3>2. n \in vs /\ \A w \in vs : w <= n
      BY <2>3, <2>4
    <3> QED BY <3>1, <3>2
  <2> QED BY <2>7, <2>8 DEF n
<1> QED BY <1>2, <1>3

----------------------------------------------------------------------------
(* The inductive invariant.                                                *)
Told == Len(history)

\* The dumps of the versions that are counted now.
CountedVersions == {d \in dumps : d.min \notin stale}

\* The file holds what was written since its first version; it is empty only between
\* two steps of a rotation, and before the first start.
FileFollows ==
  /\ file = Empty => step = "header" \/ (step = "down" /\ history = <<>> /\ CountedVersions = {})
  /\ file # Empty =>
       /\ step # "header" /\ file.min \in 1 .. Told + 1
       /\ file = [min |-> file.min, records |-> SubSeq(history, file.min, Told)]

\* A process that runs knows what the file holds.
MemoryFollows ==
  step # "down" =>
    /\ version = Told /\ min \in 1 .. Told + 1
    /\ core = Held(SubSeq(history, min, Told), min)
    /\ step # "header" => file.min = min

\* The index names every dump that is written, and nothing above the oldest dump else.
IndexFollows ==
  step # "down" =>
    /\ \A m \in dumpIndex \ stale :
         m <= min /\ ((\E d \in CountedVersions : d.min = m) \/ \A d \in CountedVersions : m <= d.min)
    /\ \A d \in CountedVersions : d.min \in dumpIndex \/ (step = "fill" /\ d.min = min)

\* The first version no dump has to tell of.
Edge == IF step = "header" THEN Told + 1 ELSE file.min

\* What a dump tells is true.
Sound(d) ==
  /\ d.min \in 1 .. Told + 1 /\ d.min <= Edge /\ DOMAIN d.held \subseteq Key
  /\ \A k \in DOMAIN d.held : d.held[k] \in d.min .. Told /\ history[d.held[k]] = k

\* The dump a version leads to, and that it tells of the version's key.
Covers(d, w) == d.min <= w /\ \A e \in CountedVersions : e.min <= w => e.min <= d.min
Tells(d, w) == history[w] \in DOMAIN d.held /\ d.held[history[w]] >= w

DumpsFollow ==
  /\ IsFiniteSet(dumps)
  /\ \A d, e \in dumps : d.min = e.min => d = e
  /\ \A d \in CountedVersions : Sound(d)
  /\ \A d \in CountedVersions : \A w \in 1 .. Edge - 1 : Covers(d, w) => Tells(d, w)
  /\ step \in {"fill", "truncate"} => min \notin stale
  /\ step = "truncate" => Dump(min, core) \in dumps

VersionInv == VersionTypeOK /\ FileFollows /\ MemoryFollows /\ IndexFollows /\ DumpsFollow

----------------------------------------------------------------------------
(* What is written of a log from one of its versions on.                   *)
Slice(h, m) == SubSeq(h, m, Len(h))

LEMMA SliceIs ==
  ASSUME NEW h \in Seq(Key), NEW m \in 1 .. Len(h) + 1
  PROVE  /\ Slice(h, m) \in Seq(Key) /\ Len(Slice(h, m)) = Len(h) - m + 1
         /\ DOMAIN Slice(h, m) = 1 .. Len(h) - m + 1
         /\ \A i \in 1 .. Len(h) - m + 1 : Slice(h, m)[i] = h[m + i - 1]
<1>1. Len(h) \in Nat /\ m \in Nat /\ m >= 1 /\ m <= Len(h) + 1
  OBVIOUS
<1>2. /\ SubSeq(h, m, Len(h)) \in Seq(Key)
      /\ Len(SubSeq(h, m, Len(h))) = IF m <= Len(h) THEN Len(h) - m + 1 ELSE 0
      /\ \A i \in 1 .. Len(h) - m + 1 : SubSeq(h, m, Len(h))[i] = h[m + i - 1]
  BY <1>1, SubSeqProperties
<1>3. (IF m <= Len(h) THEN Len(h) - m + 1 ELSE 0) = Len(h) - m + 1
  BY <1>1
<1> QED BY <1>2, <1>3 DEF Slice

LEMMA SliceGrows ==
  ASSUME NEW h \in Seq(Key), NEW k \in Key, NEW m \in 1 .. Len(h) + 1
  PROVE  Slice(Append(h, k), m) = Append(Slice(h, m), k)
<1> DEFINE g == Append(h, k)
<1>1. /\ g \in Seq(Key) /\ Len(g) = Len(h) + 1 /\ Len(h) \in Nat
      /\ \A i \in 1 .. Len(h) : g[i] = h[i]
      /\ g[Len(h) + 1] = k
  OBVIOUS
<1>2. m \in 1 .. Len(g) + 1 /\ m \in Nat /\ m >= 1 /\ m <= Len(h) + 1
  BY <1>1
<1> HIDE DEF g
<1>3. /\ Slice(g, m) \in Seq(Key) /\ Len(Slice(g, m)) = Len(g) - m + 1
      /\ \A i \in 1 .. Len(g) - m + 1 : Slice(g, m)[i] = g[m + i - 1]
  BY <1>1, <1>2, SliceIs
<1>4. /\ Slice(h, m) \in Seq(Key) /\ Len(Slice(h, m)) = Len(h) - m + 1
      /\ \A i \in 1 .. Len(h) - m + 1 : Slice(h, m)[i] = h[m + i - 1]
  BY <1>1, SliceIs
<1> DEFINE a == Slice(g, m)
           b == Append(Slice(h, m), k)
<1>5. /\ b \in Seq(Key) /\ Len(b) = Len(h) - m + 2
      /\ \A i \in 1 .. Len(h) - m + 1 : b[i] = h[m + i - 1]
      /\ b[Len(h) - m + 2] = k
  <2>1. PICK s : s = Slice(h, m)
    OBVIOUS
  <2>2. s \in Seq(Key) /\ Len(s) = Len(h) - m + 1 /\ \A i \in 1 .. Len(h) - m + 1 : s[i] = h[m + i - 1]
    BY <1>4, <2>1
  <2>3. /\ Append(s, k) \in Seq(Key) /\ Len(Append(s, k)) = Len(s) + 1
        /\ \A i \in 1 .. Len(s) : Append(s, k)[i] = s[i]
        /\ Append(s, k)[Len(s) + 1] = k
    <3>1. s \in Seq(Key) /\ k \in Key
      BY <2>2
    <3> QED BY <3>1, AppendProperties
  <2>4. Len(s) + 1 = Len(h) - m + 2
    BY <1>1, <1>2, <2>2
  <2>5. b = Append(s, k)
    BY <2>1
  <2> HIDE DEF b
  <2>6. b \in Seq(Key) /\ Len(b) = Len(h) - m + 2 /\ b[Len(h) - m + 2] = k
    BY <2>3, <2>4, <2>5
  <2>7. \A i \in 1 .. Len(h) - m + 1 : b[i] = h[m + i - 1]
    BY <2>2, <2>3, <2>5
  <2> QED BY <2>6, <2>7
<1>6. Len(a) = Len(h) - m + 2
  BY <1>1, <1>2, <1>3
<1> HIDE DEF a, b
<1>7. ASSUME NEW i \in 1 .. Len(a) PROVE a[i] = b[i]
  <2>1. i \in 1 .. Len(g) - m + 1 /\ (i \in 1 .. Len(h) - m + 1 \/ i = Len(h) - m + 2)
    BY <1>1, <1>2, <1>6
  <2>2. a[i] = g[m + i - 1]
    BY <1>3, <2>1 DEF a
  <2>3. CASE i \in 1 .. Len(h) - m + 1
    <3>1. m + i - 1 \in 1 .. Len(h)
      BY <1>1, <1>2, <2>3
    <3>2. g[m + i - 1] = h[m + i - 1]
      BY <1>1, <3>1
    <3> QED BY <1>5, <2>2, <2>3, <3>2
  <2>4. CASE i = Len(h) - m + 2
    <3>1. m + i - 1 = Len(h) + 1
      BY <1>1, <1>2, <2>4
    <3> QED BY <1>1, <1>5, <2>2, <2>4, <3>1
  <2> QED BY <2>1, <2>3, <2>4
<1>8. a \in Seq(Key)
  BY <1>3 DEF a
<1>9. a = b
  BY <1>5, <1>6, <1>7, <1>8, SeqEqual
<1> QED BY <1>9 DEF a, b, g

\* What is held of the log from a version on: of each key written since the newest version.
Newest(h, m) == Held(SubSeq(h, m, Len(h)), m)
HoldsTrue(held, h, m) ==
  /\ DOMAIN held \subseteq Key
  /\ \A k \in DOMAIN held : held[k] \in m .. Len(h) /\ h[held[k]] = k
  /\ \A w \in m .. Len(h) : h[w] \in DOMAIN held /\ held[h[w]] >= w

LEMMA NewestIsTrue ==
  ASSUME NEW h \in Seq(Key), NEW m \in 1 .. Len(h) + 1
  PROVE  HoldsTrue(Newest(h, m), h, m)
<1> DEFINE s == Slice(h, m)
           held == Held(s, m)
<1>1. /\ s \in Seq(Key) /\ Len(s) = Len(h) - m + 1 /\ DOMAIN s = 1 .. Len(h) - m + 1
      /\ \A i \in 1 .. Len(h) - m + 1 : s[i] = h[m + i - 1]
  BY SliceIs
<1>2. m \in Nat \ {0} /\ m <= Len(h) + 1 /\ Len(h) \in Nat
  OBVIOUS
<1> HIDE DEF s
<1>3. /\ DOMAIN held = {s[i] : i \in DOMAIN s} /\ DOMAIN held \subseteq Key
      /\ \A k \in DOMAIN held : \E i \in DOMAIN s : LastPlace(s, k, i) /\ held[k] = m - 1 + i
      /\ \A i \in DOMAIN s : held[s[i]] >= m - 1 + i
  BY <1>1, <1>2, HeldIs
<1> HIDE DEF held
<1>4. ASSUME NEW k \in DOMAIN held PROVE held[k] \in m .. Len(h) /\ h[held[k]] = k
  <2>1. PICK i \in DOMAIN s : LastPlace(s, k, i) /\ held[k] = m - 1 + i
    BY <1>3
  <2>2. i \in 1 .. Len(h) - m + 1 /\ s[i] = k
    BY <1>1, <2>1 DEF LastPlace
  <2>3. m - 1 + i = m + i - 1 /\ m - 1 + i \in m .. Len(h)
    BY <1>2, <2>2
  <2> QED BY <1>1, <2>1, <2>2, <2>3
<1>5. ASSUME NEW w \in m .. Len(h) PROVE h[w] \in DOMAIN held /\ held[h[w]] >= w
  <2>1. PICK i \in 1 .. Len(h) - m + 1 : i = w - m + 1
    BY <1>2
  <2>2. m + i - 1 = w /\ m - 1 + i = w /\ i \in DOMAIN s
    BY <1>1, <1>2, <2>1
  <2>3. s[i] = h[w]
    BY <1>1, <2>2
  <2> QED BY <1>3, <2>2, <2>3
<1>6. held = Newest(h, m)
  BY DEF held, s, Slice, Newest
<1> QED BY <1>3, <1>4, <1>5, <1>6 DEF HoldsTrue

LEMMA NewestGrows ==
  ASSUME NEW h \in Seq(Key), NEW k \in Key, NEW m \in 1 .. Len(h) + 1
  PROVE  Add(Newest(h, m), k, Len(h) + 1) = Newest(Append(h, k), m)
<1>1. Slice(h, m) \in Seq(Key) /\ Len(Slice(h, m)) = Len(h) - m + 1
  BY SliceIs
<1>2. m \in Nat \ {0} /\ Len(h) \in Nat
  OBVIOUS
<1>3. m + Len(Slice(h, m)) = Len(h) + 1
  BY <1>1, <1>2
<1>4. Add(Held(Slice(h, m), m), k, m + Len(Slice(h, m))) = Held(Append(Slice(h, m), k), m)
  BY <1>1, <1>2, HeldMore
<1>5. Append(Slice(h, m), k) = Slice(Append(h, k), m)
  BY SliceGrows
<1> QED BY <1>3, <1>4, <1>5 DEF Newest, Slice

LEMMA NewestLast ==
  ASSUME NEW h \in Seq(Key), NEW m \in 1 .. Len(h) + 1
  PROVE  Last(Newest(h, m), m - 1) = Len(h)
<1>1. Slice(h, m) \in Seq(Key) /\ Len(Slice(h, m)) = Len(h) - m + 1
  BY SliceIs
<1>2. m \in Nat \ {0} /\ Len(h) \in Nat
  OBVIOUS
<1>3. Last(Held(Slice(h, m), m), m - 1) = m - 1 + Len(Slice(h, m))
  BY <1>1, <1>2, LastIs
<1> QED BY <1>1, <1>2, <1>3 DEF Newest, Slice

\* Nothing is held of what is not written yet.
LEMMA NewestNone ==
  ASSUME NEW h \in Seq(Key)
  PROVE  Slice(h, Len(h) + 1) = <<>> /\ Newest(h, Len(h) + 1) = NoKeys
<1>1. Len(h) + 1 \in 1 .. Len(h) + 1 /\ Len(h) \in Nat
  OBVIOUS
<1>2. Slice(h, Len(h) + 1) \in Seq(Key) /\ Len(Slice(h, Len(h) + 1)) = Len(h) - (Len(h) + 1) + 1
  BY <1>1, SliceIs
<1>3. Slice(h, Len(h) + 1) = <<>>
  BY <1>1, <1>2, EmptySeq
<1>4. Newest(h, Len(h) + 1) = Held(<<>>, Len(h) + 1)
  BY <1>3 DEF Newest, Slice
<1>5. ASSUME NEW v PROVE Held(<<>>, v) = NoKeys
  BY DEF Held, NoKeys
<1> QED BY <1>3, <1>4, <1>5

----------------------------------------------------------------------------
(* Every step keeps the invariant.                                         *)
LEMMA Types ==
  ASSUME VersionInv
  PROVE  /\ file.min \in Nat /\ file.records \in Seq(Key) /\ history \in Seq(Key) /\ Told \in Nat
         /\ Edge \in Nat /\ Edge <= Told + 1 /\ dumpIndex \subseteq Nat
         /\ step # "down" => file # Empty \/ step = "header"
         /\ file # Empty => file.records = Slice(history, file.min) /\ file.min \in 1 .. Told + 1
         /\ step # "down" => /\ version = Told /\ min \in 1 .. Told + 1 /\ core = Newest(history, min)
                             /\ HoldsTrue(core, history, min)
<1>1. /\ file.min \in Nat /\ file.records \in Seq(Key) /\ history \in Seq(Key) /\ dumpIndex \subseteq Nat
  BY DEF VersionInv, VersionTypeOK
<1>2. Told \in Nat
  BY <1>1 DEF Told
<1>3. step # "down" => file # Empty \/ step = "header"
  BY DEF VersionInv, FileFollows
<1>4. file # Empty => file.records = Slice(history, file.min) /\ file.min \in 1 .. Told + 1
  <2>1. ASSUME file # Empty PROVE file.records = Slice(history, file.min) /\ file.min \in 1 .. Told + 1
    <3>1. /\ file.min \in 1 .. Told + 1
          /\ file = [min |-> file.min, records |-> SubSeq(history, file.min, Told)]
      BY <2>1 DEF VersionInv, FileFollows
    <3>2. file.records = SubSeq(history, file.min, Told)
      BY <3>1
    <3> QED BY <3>1, <3>2 DEF Slice, Told
  <2> QED BY <2>1
<1>5. step # "down" => version = Told /\ min \in 1 .. Told + 1 /\ core = Newest(history, min)
  BY Zenon DEF VersionInv, MemoryFollows, Newest, Told
<1>6. step # "down" => HoldsTrue(core, history, min)
  BY <1>1, <1>5, NewestIsTrue DEF Told
<1>7. Edge \in Nat /\ Edge <= Told + 1
  <2>1. file = Empty => file.min = 0
    BY DEF Empty
  <2> QED BY <1>1, <1>2, <1>4, <2>1 DEF Edge
<1> QED BY <1>1, <1>2, <1>3, <1>4, <1>5, <1>6, <1>7

LEMMA InvStarts == VersionInit => VersionInv
<1> SUFFICES ASSUME VersionInit PROVE VersionInv
  OBVIOUS
<1>1. /\ file = Empty /\ dumps = {} /\ version = 0 /\ min = 0 /\ core = NoKeys /\ dumpIndex = {}
      /\ step = "down" /\ history = <<>> /\ stale = {}
  BY DEF VersionInit
<1>0. CountedVersions = {}
  BY <1>1 DEF CountedVersions
<1>2. VersionTypeOK
  BY <1>1 DEF VersionTypeOK, Empty, NoKeys
<1>3. FileFollows /\ MemoryFollows /\ IndexFollows
  BY <1>0, <1>1 DEF FileFollows, MemoryFollows, IndexFollows
<1>4. DumpsFollow
  BY <1>0, <1>1, FS_EmptySet DEF DumpsFollow
<1> QED BY <1>2, <1>3, <1>4 DEF VersionInv

LEMMA StartKeeps ==
  ASSUME VersionInv, StartLog
  PROVE  VersionInv'
<1>1. /\ step = "down" /\ step' = "ready" /\ dumps' = dumps /\ history' = history
      /\ dumpIndex' = {d.min : d \in dumps} /\ stale' = stale \cap dumpIndex'
  BY DEF StartLog
<1>0. CountedVersions' = CountedVersions
  BY <1>1 DEF CountedVersions
<1>2. /\ Told' = Told /\ Told \in Nat /\ history \in Seq(Key)
  BY <1>1, Types DEF Told
<1>3. /\ file'.min \in 1 .. Told + 1 /\ file'.records \in Seq(Key)
      /\ file' # Empty /\ file' = [min |-> file'.min, records |-> Slice(history, file'.min)]
      /\ min' = file'.min /\ version' = Told /\ core' = Newest(history, min')
      /\ Edge' = min'
      /\ file # Empty => file' = file
      /\ file = Empty => CountedVersions = {}
  <2>1. CASE file = Empty
    <3>1. history = <<>> /\ CountedVersions = {}
      BY <1>1, <2>1 DEF VersionInv, FileFollows
    <3>2. file' = File(1) /\ min' = 1 /\ version' = 0 /\ core' = NoKeys
      BY <2>1 DEF StartLog
    <3>3. Told = 0
      BY <3>1 DEF Told
    <3>4. Slice(history, 1) = <<>> /\ Newest(history, 1) = NoKeys
      <4>1. Len(history) + 1 = 1
        BY <3>3 DEF Told
      <4> QED BY <1>2, <4>1, NewestNone
    <3>5. file'.min = 1 /\ file'.records = <<>>
      BY <3>2 DEF File
    <3>6. File(1) # Empty
      BY DEF File, Empty
    <3> QED BY <1>1, <2>1, <3>1, <3>2, <3>3, <3>4, <3>5, <3>6 DEF File, Edge
  <2>2. CASE file # Empty
    <3>1. /\ file' = file /\ min' = file.min /\ core' = Held(file.records, file.min)
          /\ version' = Last(core', file.min - 1)
      BY <2>2 DEF StartLog
    <3>2. /\ file.min \in 1 .. Told + 1 /\ file.records = Slice(history, file.min)
          /\ file = [min |-> file.min, records |-> Slice(history, file.min)]
          /\ file.records \in Seq(Key)
      BY <2>2, Types DEF VersionInv, FileFollows, Slice, Told
    <3>3. core' = Newest(history, file.min)
      BY <3>1, <3>2 DEF Newest, Slice
    <3>4. version' = Told
      BY <1>2, <3>1, <3>2, <3>3, NewestLast DEF Told
    <3>5. Edge' = file.min
      BY <1>1, <3>1 DEF Edge
    <3> QED BY <2>2, <3>1, <3>2, <3>3, <3>4, <3>5
  <2> QED BY <2>1, <2>2
<1>4. HoldsTrue(core', history, min')
  BY <1>2, <1>3, NewestIsTrue DEF Told
<1>5. VersionTypeOK'
  <2>1. DOMAIN core' \subseteq Key /\ \A k \in DOMAIN core' : core'[k] \in min' .. version'
    BY <1>3, <1>4 DEF HoldsTrue, Told
  <2>2. /\ dumpIndex' \subseteq Nat /\ stale' \subseteq Nat
        /\ \A d \in dumps : d.min \in Nat \ {0} /\ DOMAIN d.held \subseteq Key
    BY <1>1 DEF VersionInv, VersionTypeOK
  <2> QED BY <1>1, <1>2, <1>3, <2>1, <2>2 DEF VersionTypeOK
<1>6. FileFollows'
  BY <1>1, <1>2, <1>3 DEF FileFollows, Slice, Told
<1>7. MemoryFollows'
  BY <1>1, <1>2, <1>3 DEF MemoryFollows, Newest, Told
<1>8. \A d \in CountedVersions : d.min <= min'
  <2>1. CASE file = Empty
    BY <1>3, <2>1
  <2>2. CASE file # Empty
    <3>1. Edge = min'
      BY <1>1, <1>3, <2>2 DEF Edge
    <3> QED BY <3>1 DEF VersionInv, DumpsFollow, Sound
  <2> QED BY <2>1, <2>2
<1>9. IndexFollows'
  <2>1. \A d \in CountedVersions : d \in dumps /\ d.min \in dumpIndex'
    BY <1>1 DEF CountedVersions
  <2>2. \A m \in dumpIndex' \ stale' : \E d \in CountedVersions : d.min = m
    BY <1>1 DEF CountedVersions
  <2> QED BY <1>0, <1>1, <1>8, <2>1, <2>2 DEF IndexFollows
<1>10. DumpsFollow'
  <2>1. CASE file = Empty
    <3>1. IsFiniteSet(dumps) /\ \A d, e \in dumps : d.min = e.min => d = e
      BY DEF VersionInv, DumpsFollow
    <3> QED BY <1>0, <1>1, <1>3, <2>1, <3>1 DEF DumpsFollow
  <2>2. CASE file # Empty
    <3>1. Edge' = Edge
      BY <1>1, <1>3, <2>2 DEF Edge
    <3> QED BY <1>0, <1>1, <1>2, <3>1 DEF VersionInv, DumpsFollow, Sound, Covers, Tells
  <2> QED BY <2>1, <2>2
<1> QED BY <1>5, <1>6, <1>7, <1>9, <1>10 DEF VersionInv

LEMMA AddKeeps ==
  ASSUME VersionInv, NEW k \in Key, AddKey(k)
  PROVE  VersionInv'
<1>1. /\ step = "ready" /\ step' \in {"dump", "ready"} /\ dumps' = dumps /\ dumpIndex' = dumpIndex /\ min' = min
      /\ stale' = stale /\ history' = Append(history, k) /\ version' = version + 1 /\ core' = Add(core, k, version')
      /\ file' = [file EXCEPT !.records = Append(@, k)]
  BY DEF AddKey
<1>0. CountedVersions' = CountedVersions
  BY <1>1 DEF CountedVersions
<1>2. /\ history \in Seq(Key) /\ Told \in Nat /\ file # Empty /\ file.min \in 1 .. Told + 1
      /\ file.records = Slice(history, file.min) /\ version = Told /\ min = file.min
      /\ core = Newest(history, min) /\ file = [min |-> file.min, records |-> file.records]
  <2>1. file # Empty
    BY <1>1, Types
  <2>2. file = [min |-> file.min, records |-> SubSeq(history, file.min, Told)] /\ min = file.min
    BY <1>1, <2>1 DEF VersionInv, FileFollows, MemoryFollows
  <2>3. file = [min |-> file.min, records |-> file.records]
    BY <2>2
  <2> QED BY <1>1, <2>1, <2>2, <2>3, Types
<1>3. /\ history' \in Seq(Key) /\ Told' = Told + 1 /\ history'[Told + 1] = k
      /\ \A w \in 1 .. Told : history'[w] = history[w]
  BY <1>1, <1>2 DEF Told
<1>4. /\ file' = [min |-> file.min, records |-> Append(file.records, k)] /\ file'.min = file.min
      /\ file'.records = Append(file.records, k)
  <2>1. file' = [min |-> file.min, records |-> Append(file.records, k)]
    BY <1>1, <1>2
  <2> QED BY <2>1
<1>5. file'.records = Slice(history', file.min) /\ file'.records \in Seq(Key)
  <2>1. Slice(Append(history, k), file.min) = Append(Slice(history, file.min), k)
    BY <1>2, SliceGrows DEF Told
  <2>2. file.records \in Seq(Key)
    BY Types
  <2> QED BY <1>1, <1>2, <1>4, <2>1, <2>2
<1>6. core' = Newest(history', min)
  <2>1. Add(Newest(history, min), k, Told + 1) = Newest(Append(history, k), min)
    BY <1>2, NewestGrows DEF Told
  <2> QED BY <1>1, <1>2, <2>1
<1>7. HoldsTrue(core', history', min)
  <2>1. min \in 1 .. Told' + 1
    BY <1>2, <1>3
  <2> QED BY <1>3, <1>6, <2>1, NewestIsTrue DEF Told
<1>8. version' = Told' /\ file.min \in 1 .. Told' + 1 /\ file' # Empty
  BY <1>1, <1>2, <1>3, <1>4 DEF Empty
<1>9. VersionTypeOK'
  <2>1. DOMAIN core' \subseteq Key /\ \A x \in DOMAIN core' : core'[x] \in min' .. version'
    BY <1>1, <1>7, <1>8 DEF HoldsTrue, Told
  <2>2. /\ dumpIndex' \subseteq Nat /\ \A d \in dumps' : d.min \in Nat \ {0} /\ DOMAIN d.held \subseteq Key
        /\ min' \in Nat /\ stale' \subseteq Nat
    BY <1>1 DEF VersionInv, VersionTypeOK
  <2> QED BY <1>1, <1>2, <1>3, <1>4, <1>5, <1>8, <2>1, <2>2 DEF VersionTypeOK
<1>10. FileFollows'
  BY <1>1, <1>4, <1>5, <1>8 DEF FileFollows, Slice, Told
<1>11. MemoryFollows'
  BY <1>1, <1>2, <1>4, <1>6, <1>8 DEF MemoryFollows, Newest, Told
<1>12. IndexFollows'
  BY <1>0, <1>1 DEF VersionInv, IndexFollows
<1>13. DumpsFollow'
  <2>1. Edge' = Edge /\ Edge \in Nat /\ Edge <= Told + 1
    BY <1>1, <1>4, Types DEF Edge
  <2>2. ASSUME NEW d \in CountedVersions PROVE Sound(d)'
    <3>1. Sound(d)
      BY DEF VersionInv, DumpsFollow
    <3>2. ASSUME NEW x \in DOMAIN d.held PROVE d.held[x] \in d.min .. Told' /\ history'[d.held[x]] = x
      <4>1. d.held[x] \in d.min .. Told /\ history[d.held[x]] = x /\ d.min \in 1 .. Told + 1
        BY <3>1 DEF Sound
      <4>2. d.held[x] \in 1 .. Told
        BY <1>2, <4>1
      <4> QED BY <1>2, <1>3, <4>1, <4>2
    <3>3. d.min \in 1 .. Told' + 1
      BY <1>2, <1>3, <3>1 DEF Sound
    <3> QED BY <2>1, <3>1, <3>2, <3>3 DEF Sound
  <2>3. ASSUME NEW d \in CountedVersions, NEW w \in 1 .. Edge - 1, Covers(d, w)' PROVE Tells(d, w)'
    <3>1. Covers(d, w)
      BY <1>0, <2>3 DEF Covers
    <3>2. Tells(d, w)
      BY <3>1 DEF VersionInv, DumpsFollow
    <3>3. w \in 1 .. Told
      BY <1>2, <2>1
    <3> QED BY <1>3, <3>2, <3>3 DEF Tells
  <2> QED BY <1>0, <1>1, <2>1, <2>2, <2>3 DEF VersionInv, DumpsFollow
<1> QED BY <1>9, <1>10, <1>11, <1>12, <1>13 DEF VersionInv

\* A dump written at the first version of the file takes the place of one of that version.
LEMMA DumpTakesItsPlace ==
  ASSUME VersionInv, NEW held, step \in {"dump", "fill"}, step' # "header",
         HoldsTrue(held, history, min) \/ held = NoKeys,
         file' = file, history' = history, min' = min, core' = core,
         step' = "truncate" => held = core, stale' = stale \ {min},
         dumps' = {d \in dumps : d.min # min} \cup {Dump(min, held)}
  PROVE  /\ DumpsFollow' /\ \A d \in dumps' : d.min \in Nat \ {0} /\ DOMAIN d.held \subseteq Key
         /\ CountedVersions' = {d \in CountedVersions : d.min # min} \cup {Dump(min, held)}
<1> DEFINE new == Dump(min, held)
<1>1. new.min = min /\ new.held = held
  BY DEF Dump
<1>2. /\ Told' = Told /\ Edge' = Edge /\ Edge = min /\ min \in 1 .. Told + 1 /\ Told \in Nat /\ history \in Seq(Key)
  BY Types DEF Told, Edge, VersionInv, MemoryFollows
<1>3. dumps' = {d \in dumps : d.min # min} \cup {new}
  OBVIOUS
<1>4. step' = "truncate" => Dump(min, core)' \in dumps'
  BY DEF Dump
<1>5. new.min \in 1 .. Told + 1 /\ new.min <= Edge /\ DOMAIN new.held \subseteq Key
      /\ \A k \in DOMAIN new.held : new.held[k] \in new.min .. Told /\ history[new.held[k]] = k
  <2>1. CASE held = NoKeys
    BY <1>1, <1>2, <2>1 DEF NoKeys
  <2>2. CASE HoldsTrue(held, history, min)
    BY <1>1, <1>2, <2>2 DEF HoldsTrue, Told
  <2> QED BY <2>1, <2>2
<1> HIDE DEF new
<1>11. CountedVersions' = {d \in CountedVersions : d.min # min} \cup {new}
  BY <1>1, <1>3 DEF CountedVersions
<1>6. IsFiniteSet(dumps')
  <2>1. IsFiniteSet({d \in dumps : d.min # min})
    BY FS_Subset DEF VersionInv, DumpsFollow
  <2> QED BY <1>3, <2>1, FS_AddElement
<1>7. \A d, e \in dumps' : d.min = e.min => d = e
  BY <1>1, <1>3 DEF VersionInv, DumpsFollow
<1>8. ASSUME NEW d \in CountedVersions' PROVE Sound(d)'
  <2>1. CASE d \in CountedVersions
    <3>1. Sound(d)
      BY <2>1 DEF VersionInv, DumpsFollow
    <3> QED BY <1>2, <3>1 DEF Sound
  <2>2. CASE d = new
    BY <1>2, <1>5, <2>2 DEF Sound
  <2> QED BY <1>8, <1>11, <2>1, <2>2
<1>9. ASSUME NEW d \in CountedVersions', NEW w \in 1 .. Edge' - 1, Covers(d, w)' PROVE Tells(d, w)'
  <2>1. d \in CountedVersions
    <3>1. d.min <= w
      BY <1>9 DEF Covers
    <3>2. d.min # min
      BY <1>2, <3>1
    <3> QED BY <1>1, <1>9, <1>11, <3>2
  <2>2. ASSUME NEW e \in CountedVersions, e.min <= w PROVE e.min <= d.min
    <3>1. e.min # min
      BY <1>2, <2>2
    <3>2. e \in CountedVersions'
      BY <1>11, <3>1
    <3> QED BY <1>9, <2>2, <3>2 DEF Covers
  <2>3. Covers(d, w)
    BY <1>9, <2>2 DEF Covers
  <2>4. Tells(d, w)
    BY <1>2, <2>1, <2>3 DEF VersionInv, DumpsFollow
  <2> QED BY <2>4 DEF Tells
<1>10. \A d \in dumps' : d.min \in Nat \ {0} /\ DOMAIN d.held \subseteq Key
  <2>1. ASSUME NEW d \in dumps' PROVE d.min \in Nat \ {0} /\ DOMAIN d.held \subseteq Key
    <3>1. CASE d \in dumps
      BY <3>1 DEF VersionInv, VersionTypeOK
    <3>2. CASE d = new
      BY <1>2, <1>5, <3>2
    <3> QED BY <1>3, <3>1, <3>2
  <2> QED BY <2>1
<1>12. min' \notin stale'
  OBVIOUS
<1> QED BY <1>4, <1>6, <1>7, <1>8, <1>9, <1>10, <1>11, <1>12 DEF DumpsFollow, new

LEMMA OpenKeeps ==
  ASSUME VersionInv, OpenDump
  PROVE  VersionInv'
<1>1. /\ step = "dump" /\ step' = "fill" /\ file' = file /\ version' = version /\ min' = min /\ core' = core
      /\ dumpIndex' = dumpIndex /\ history' = history /\ stale' = stale \ {min}
      /\ dumps' = {d \in dumps : d.min # min} \cup {Dump(min, NoKeys)}
  BY DEF OpenDump, memory
<1>2. Told' = Told /\ file # Empty
  BY <1>1, Types DEF Told
<1>3. /\ DumpsFollow' /\ \A d \in dumps' : d.min \in Nat \ {0} /\ DOMAIN d.held \subseteq Key
      /\ CountedVersions' = {d \in CountedVersions : d.min # min} \cup {Dump(min, NoKeys)}
  BY <1>1, DumpTakesItsPlace
<1>4. VersionTypeOK'
  BY <1>1, <1>3 DEF VersionInv, VersionTypeOK
<1>5. FileFollows'
  BY <1>1, <1>2 DEF VersionInv, FileFollows
<1>6. MemoryFollows'
  BY <1>1, <1>2 DEF VersionInv, MemoryFollows
<1>7. IndexFollows'
  <2>1. Dump(min, NoKeys).min = min /\ Dump(min, NoKeys) \in CountedVersions'
    BY <1>3 DEF Dump
  <2>2. ASSUME NEW m \in dumpIndex \ stale'
        PROVE  m <= min /\ ((\E d \in CountedVersions' : d.min = m) \/ \A d \in CountedVersions' : m <= d.min)
    <3>1. CASE m = min
      BY <1>2, <2>1, <3>1, Types
    <3>2. CASE m # min
      <4>1. m <= min /\ ((\E d \in CountedVersions : d.min = m) \/ \A d \in CountedVersions : m <= d.min)
        BY <1>1, <2>2, <3>2 DEF VersionInv, IndexFollows
      <4> QED BY <1>3, <2>1, <3>2, <4>1
    <3> QED BY <3>1, <3>2
  <2>3. ASSUME NEW d \in CountedVersions' PROVE d.min \in dumpIndex \/ d.min = min
    BY <1>1, <1>3, <2>1 DEF VersionInv, IndexFollows
  <2> QED BY <1>1, <2>2, <2>3 DEF IndexFollows
<1> QED BY <1>3, <1>4, <1>5, <1>6, <1>7 DEF VersionInv

LEMMA WriteKeeps ==
  ASSUME VersionInv, WriteDump
  PROVE  VersionInv'
<1>1. /\ step = "fill" /\ step' = "truncate" /\ file' = file /\ version' = version /\ min' = min /\ core' = core
      /\ dumpIndex' = dumpIndex \cup {min} /\ history' = history /\ stale' = stale
      /\ dumps' = {d \in dumps : d.min # min} \cup {Dump(min, core)}
  BY DEF WriteDump
<1>2. /\ Told' = Told /\ HoldsTrue(core, history, min) /\ min \in 1 .. Told + 1 /\ Told \in Nat
      /\ file # Empty
  BY <1>1, Types DEF Told
<1>3. /\ DumpsFollow' /\ \A d \in dumps' : d.min \in Nat \ {0} /\ DOMAIN d.held \subseteq Key
      /\ CountedVersions' = {d \in CountedVersions : d.min # min} \cup {Dump(min, core)}
  <2>1. stale' = stale \ {min}
    BY <1>1 DEF VersionInv, DumpsFollow
  <2> QED BY <1>1, <1>2, <2>1, DumpTakesItsPlace
<1>4. VersionTypeOK'
  BY <1>1, <1>2, <1>3 DEF VersionInv, VersionTypeOK
<1>5. FileFollows'
  BY <1>1, <1>2 DEF VersionInv, FileFollows
<1>6. MemoryFollows'
  BY <1>1, <1>2 DEF VersionInv, MemoryFollows
<1>7. IndexFollows'
  <2>1. Dump(min, core).min = min /\ Dump(min, core) \in CountedVersions'
    BY <1>3 DEF Dump
  <2>2. ASSUME NEW m \in dumpIndex' \ stale'
        PROVE  m <= min /\ ((\E d \in CountedVersions' : d.min = m) \/ \A d \in CountedVersions' : m <= d.min)
    <3>1. CASE m = min
      BY <1>2, <2>1, <3>1
    <3>2. CASE m # min
      <4>1. m <= min /\ ((\E d \in CountedVersions : d.min = m) \/ \A d \in CountedVersions : m <= d.min)
        BY <1>1, <2>2, <3>2 DEF VersionInv, IndexFollows
      <4> QED BY <1>3, <2>1, <3>2, <4>1
    <3> QED BY <3>1, <3>2
  <2>3. ASSUME NEW d \in CountedVersions' PROVE d.min \in dumpIndex'
    BY <1>1, <1>3, <2>1 DEF VersionInv, IndexFollows
  <2> QED BY <1>1, <2>2, <2>3 DEF IndexFollows
<1> QED BY <1>3, <1>4, <1>5, <1>6, <1>7 DEF VersionInv

LEMMA TruncateKeeps ==
  ASSUME VersionInv, Truncate
  PROVE  VersionInv'
<1>1. /\ step = "truncate" /\ step' = "header" /\ file' = Empty /\ version' = version /\ min' = min /\ core' = core
      /\ dumpIndex' = dumpIndex /\ history' = history /\ dumps' = dumps /\ stale' = stale
  BY DEF Truncate, memory
<1>0. CountedVersions' = CountedVersions
  BY <1>1 DEF CountedVersions
<1>2. /\ Told' = Told /\ Edge' = Told + 1 /\ Edge = min /\ HoldsTrue(core, history, min)
      /\ min \in 1 .. Told + 1 /\ Told \in Nat
  BY <1>1, Types DEF Told, Edge, VersionInv, MemoryFollows
<1>3. VersionTypeOK'
  BY <1>1 DEF VersionInv, VersionTypeOK, Empty
<1>4. FileFollows'
  BY <1>1 DEF FileFollows
<1>5. MemoryFollows'
  BY <1>1, <1>2 DEF VersionInv, MemoryFollows
<1>6. IndexFollows'
  BY <1>0, <1>1 DEF VersionInv, IndexFollows
<1>7. ASSUME NEW d \in CountedVersions PROVE Sound(d)'
  <2>1. Sound(d)
    BY DEF VersionInv, DumpsFollow
  <2>2. d.min <= Told + 1
    BY <1>2, <2>1 DEF Sound
  <2> QED BY <1>1, <1>2, <2>1, <2>2 DEF Sound
<1>8. ASSUME NEW d \in CountedVersions, NEW w \in 1 .. Told, Covers(d, w)' PROVE Tells(d, w)'
  <2>1. Covers(d, w)
    BY <1>0, <1>8 DEF Covers
  <2>2. CASE w < min
    <3>1. w \in 1 .. Edge - 1
      BY <1>2, <2>2
    <3>2. Tells(d, w)
      BY <2>1, <3>1 DEF VersionInv, DumpsFollow
    <3> QED BY <1>1, <3>2 DEF Tells
  <2>3. CASE w >= min
    <3>1. Dump(min, core) \in dumps /\ Dump(min, core).min = min /\ min \notin stale
      BY <1>1 DEF VersionInv, DumpsFollow, Dump
    <3>6. Dump(min, core) \in CountedVersions
      BY <3>1 DEF CountedVersions
    <3>2. min <= d.min /\ d.min <= min
      BY <1>2, <2>1, <2>3, <3>1, <3>6 DEF Covers, VersionInv, DumpsFollow, Sound
    <3>3. d.min = min
      <4>1. d.min \in 1 .. Told + 1
        BY DEF VersionInv, DumpsFollow, Sound
      <4> QED BY <1>2, <3>2, <4>1
    <3>4. d = Dump(min, core)
      BY <3>1, <3>3 DEF VersionInv, DumpsFollow, CountedVersions
    <3>5. d.held = core
      BY <3>4 DEF Dump
    <3>7. w \in min .. Len(history)
      BY <1>2, <2>3 DEF Told
    <3>8. history[w] \in DOMAIN core /\ core[history[w]] >= w
      BY <1>2, <3>7 DEF HoldsTrue
    <3> QED BY <1>1, <3>5, <3>8 DEF Tells
  <2> QED BY <1>2, <2>2, <2>3
<1>9. DumpsFollow'
  <2>1. 1 .. Edge' - 1 = 1 .. Told
    BY <1>2
  <2> QED BY <1>0, <1>1, <1>7, <1>8, <2>1 DEF VersionInv, DumpsFollow
<1> QED BY <1>3, <1>4, <1>5, <1>6, <1>9 DEF VersionInv

LEMMA HeaderKeeps ==
  ASSUME VersionInv, WriteHeader
  PROVE  VersionInv'
<1>1. /\ step = "header" /\ step' = "ready" /\ file' = File(version + 1) /\ version' = version
      /\ min' = version + 1 /\ core' = NoKeys /\ dumpIndex' = dumpIndex /\ history' = history /\ dumps' = dumps
      /\ stale' = stale
  BY DEF WriteHeader
<1>0. CountedVersions' = CountedVersions
  BY <1>1 DEF CountedVersions
<1>2. /\ Told' = Told /\ Told \in Nat /\ history \in Seq(Key) /\ version = Told /\ min \in 1 .. Told + 1
      /\ Edge = Told + 1
  BY <1>1, Types DEF Told, Edge
<1>3. /\ file' = [min |-> Told + 1, records |-> <<>>] /\ file'.min = Told + 1 /\ file'.records = <<>>
      /\ file' # Empty /\ min' = Told + 1 /\ Edge' = Edge
  BY <1>1, <1>2 DEF File, Empty, Edge
<1>4. Slice(history, Told + 1) = <<>> /\ Newest(history, Told + 1) = NoKeys
  BY <1>2, NewestNone DEF Told
<1>5. VersionTypeOK'
  <2>1. DOMAIN core' = {} /\ file'.min \in Nat /\ file'.records \in Seq(Key) /\ min' \in Nat
    <3>1. DOMAIN core' = {}
      BY <1>1 DEF NoKeys
    <3>2. file'.records \in Seq(Key)
      BY <1>3, EmptySeq
    <3> QED BY <1>2, <1>3, <3>1, <3>2
  <2>2. /\ \A d \in dumps : d.min \in Nat \ {0} /\ DOMAIN d.held \subseteq Key
        /\ version \in Nat /\ dumpIndex \subseteq Nat /\ stale \subseteq Nat
    BY DEF VersionInv, VersionTypeOK
  <2>3. dumpIndex' \subseteq Nat /\ stale' \subseteq Nat /\ history' \in Seq(Key) /\ version' \in Nat
    BY <1>1, <1>2, <2>2
  <2>4. \A d \in dumps' : d.min \in Nat \ {0} /\ DOMAIN d.held \subseteq Key
    BY <1>1, <2>2
  <2> QED BY <1>1, <2>1, <2>3, <2>4 DEF VersionTypeOK
<1>6. FileFollows'
  BY <1>1, <1>2, <1>3, <1>4 DEF FileFollows, Slice, Told
<1>7. MemoryFollows'
  <2>1. Held(SubSeq(history, Told + 1, Told), Told + 1) = NoKeys
    BY <1>4 DEF Newest, Told
  <2> QED BY <1>1, <1>2, <1>3, <2>1 DEF MemoryFollows
<1>8. IndexFollows'
  <2>1. \A m \in dumpIndex \ stale : m <= Told + 1
    <3>1. ASSUME NEW m \in dumpIndex \ stale PROVE m <= Told + 1
      <4>1. m <= min /\ m \in Nat
        BY <1>1, Types DEF VersionInv, IndexFollows
      <4> QED BY <1>2, <4>1
    <3> QED BY <3>1
  <2> QED BY <1>0, <1>1, <1>3, <2>1 DEF VersionInv, IndexFollows
<1>9. DumpsFollow'
  BY <1>0, <1>1, <1>2, <1>3 DEF VersionInv, DumpsFollow, Sound, Covers, Tells
<1> QED BY <1>5, <1>6, <1>7, <1>8, <1>9 DEF VersionInv

\* The dumps that are deleted are older than those that are kept.
LEMMA DeletedAreOlder ==
  ASSUME VersionInv, NEW d \in dumps, NEW e \in dumps,
         Cardinality({x \in dumps : x.min > d.min}) < DumpMax,
         ~(Cardinality({x \in dumps : x.min > e.min}) < DumpMax)
  PROVE  e.min <= d.min
<1> SUFFICES ASSUME ~(e.min <= d.min) PROVE FALSE
  OBVIOUS
<1>1. \A x \in dumps : x.min \in Nat
  BY DEF VersionInv, VersionTypeOK
<1> DEFINE D == {x \in dumps : x.min > d.min}
           E == {x \in dumps : x.min > e.min}
<1>2. E \subseteq D
  BY <1>1
<1>3. IsFiniteSet(D)
  BY FS_Subset DEF VersionInv, DumpsFollow
<1>4. ~(Cardinality(E) < DumpMax) /\ Cardinality(D) < DumpMax
  OBVIOUS
<1> HIDE DEF D, E
<1>5. IsFiniteSet(E) /\ Cardinality(E) <= Cardinality(D)
  BY <1>2, <1>3, FS_Subset
<1>6. Cardinality(E) \in Nat /\ Cardinality(D) \in Nat
  BY <1>3, <1>5, FS_CardinalityType
<1> QED BY <1>4, <1>5, <1>6, DumpMaxAssumption

LEMMA DelKeeps ==
  ASSUME VersionInv, DelDumpFiles
  PROVE  VersionInv'
<1>1. /\ step = "ready" /\ step' = step /\ file' = file /\ version' = version /\ min' = min /\ core' = core
      /\ dumpIndex' = dumpIndex /\ history' = history /\ stale' = stale
      /\ dumps' = {d \in dumps : Cardinality({e \in dumps : e.min > d.min}) < DumpMax}
  BY DEF DelDumpFiles, memory
<1>2. Told' = Told /\ Edge' = Edge /\ dumps' \subseteq dumps
  BY <1>1 DEF Told, Edge
<1>0. CountedVersions' = CountedVersions \cap dumps'
  BY <1>1, <1>2 DEF CountedVersions
<1>3. \A e \in CountedVersions : e \in CountedVersions' \/ \A d \in CountedVersions' : e.min <= d.min
  <2>1. \A e \in dumps : e \in dumps' \/ \A d \in dumps' : e.min <= d.min
    BY <1>1, DeletedAreOlder
  <2> QED BY <1>0, <2>1 DEF CountedVersions
<1>4. VersionTypeOK'
  BY <1>1, <1>2 DEF VersionInv, VersionTypeOK
<1>5. FileFollows'
  BY <1>0, <1>1, <1>2 DEF VersionInv, FileFollows
<1>6. MemoryFollows'
  BY <1>1, <1>2 DEF VersionInv, MemoryFollows
<1>7. IndexFollows'
  <2>1. ASSUME NEW m \in dumpIndex \ stale
        PROVE  m <= min /\ ((\E d \in CountedVersions' : d.min = m) \/ \A d \in CountedVersions' : m <= d.min)
    <3>1. m <= min /\ ((\E d \in CountedVersions : d.min = m) \/ \A d \in CountedVersions : m <= d.min)
      BY <1>1 DEF VersionInv, IndexFollows
    <3> QED BY <1>0, <1>3, <3>1
  <2> QED BY <1>0, <1>1, <2>1 DEF VersionInv, IndexFollows
<1>8. IsFiniteSet(dumps')
  BY <1>2, FS_Subset DEF VersionInv, DumpsFollow
<1>9. ASSUME NEW d \in CountedVersions', NEW w \in 1 .. Edge - 1, Covers(d, w)' PROVE Tells(d, w)'
  <2>1. ASSUME NEW e \in CountedVersions, e.min <= w PROVE e.min <= d.min
    BY <1>3, <1>9, <2>1 DEF Covers
  <2>2. Covers(d, w)
    BY <1>9, <2>1 DEF Covers
  <2>3. Tells(d, w)
    BY <1>0, <1>9, <2>2 DEF VersionInv, DumpsFollow
  <2> QED BY <1>1, <2>3 DEF Tells
<1>10. DumpsFollow'
  BY <1>0, <1>1, <1>2, <1>8, <1>9 DEF VersionInv, DumpsFollow, Sound
<1> QED BY <1>4, <1>5, <1>6, <1>7, <1>10 DEF VersionInv

LEMMA CrashKeeps ==
  ASSUME VersionInv, Crash
  PROVE  VersionInv'
<1>1. /\ step # "down" /\ step' = "down" /\ file' = file /\ version' = version
      /\ min' = min /\ core' = core /\ dumpIndex' = dumpIndex /\ dumps' = dumps
  BY DEF Crash, disk, memory
<1>2. MemoryFollows' /\ IndexFollows'
  BY <1>1 DEF MemoryFollows, IndexFollows
<1>3. CASE step = "header"
  <2>1. history' = <<>> /\ stale' = {d.min : d \in dumps} /\ file = Empty
    BY <1>3 DEF Crash, VersionInv, FileFollows
  <2>2. CountedVersions' = {}
    BY <1>1, <2>1 DEF CountedVersions
  <2>3. VersionTypeOK'
    BY <1>1, <2>1, EmptySeq DEF VersionInv, VersionTypeOK
  <2>4. FileFollows'
    BY <1>1, <2>1, <2>2 DEF FileFollows
  <2>5. DumpsFollow'
    BY <1>1, <2>2 DEF VersionInv, DumpsFollow
  <2> QED BY <1>2, <2>3, <2>4, <2>5 DEF VersionInv
<1>4. CASE step # "header"
  <2>1. history' = history /\ stale' = stale
    BY <1>4 DEF Crash
  <2>2. Told' = Told /\ Edge' = Edge /\ CountedVersions' = CountedVersions
    BY <1>1, <1>4, <2>1 DEF Told, Edge, CountedVersions
  <2>3. VersionTypeOK'
    BY <1>1, <2>1 DEF VersionInv, VersionTypeOK
  <2>4. FileFollows'
    BY <1>1, <1>4, <2>1, <2>2 DEF VersionInv, FileFollows
  <2>5. DumpsFollow'
    BY <1>1, <2>1, <2>2 DEF VersionInv, DumpsFollow, Sound, Covers, Tells
  <2> QED BY <1>2, <2>3, <2>4, <2>5 DEF VersionInv
<1> QED BY <1>3, <1>4

LEMMA InvKept ==
  ASSUME VersionInv, [VersionNext]_versionVars
  PROVE  VersionInv'
<1>1. CASE StartLog
  BY <1>1, StartKeeps
<1>2. CASE OpenDump
  BY <1>2, OpenKeeps
<1>3. CASE WriteDump
  BY <1>3, WriteKeeps
<1>4. CASE Truncate
  BY <1>4, TruncateKeeps
<1>5. CASE WriteHeader
  BY <1>5, HeaderKeeps
<1>6. CASE DelDumpFiles
  BY <1>6, DelKeeps
<1>7. CASE Crash
  BY <1>7, CrashKeeps
<1>8. ASSUME NEW k \in Key, AddKey(k) PROVE VersionInv'
  BY <1>8, AddKeeps
<1>9. CASE UNCHANGED versionVars
  <2>1. /\ step' = step /\ file' = file /\ version' = version /\ min' = min /\ core' = core
        /\ dumpIndex' = dumpIndex /\ history' = history /\ dumps' = dumps /\ stale' = stale
    BY <1>9 DEF versionVars, disk, memory
  <2> QED
    BY <2>1 DEF VersionInv, VersionTypeOK, FileFollows, MemoryFollows, IndexFollows, DumpsFollow,
                Sound, Covers, Tells, Edge, Told, CountedVersions
<1> QED BY <1>1, <1>2, <1>3, <1>4, <1>5, <1>6, <1>7, <1>8, <1>9 DEF VersionNext

----------------------------------------------------------------------------
(* What the invariant gives.                                               *)
LEMMA InvRecovers == VersionInv => RecoversAll
<1> SUFFICES ASSUME VersionInv, step = "ready"
             PROVE  version = Len(history) /\ core = Held(SubSeq(history, min, version), min)
  BY DEF RecoversAll
<1> QED BY DEF VersionInv, MemoryFollows, Told

\* The first version the files tell of is that of some dump, or of the file.
LEMMA OldestIs ==
  ASSUME VersionInv, step = "ready", stale = {}
  PROVE  /\ Oldest \in 1 .. min
         /\ \A v \in Nat : Oldest <= v /\ v < min =>
              \E d \in dumps : d.min <= v
<1>1. min \in 1 .. Told + 1 /\ Told \in Nat /\ Edge = min
  BY Types DEF VersionInv, MemoryFollows, Edge
<1>0. CountedVersions = dumps
  BY DEF CountedVersions
<1>2. CASE dumps = {}
  BY <1>1, <1>2 DEF Oldest
<1>3. CASE dumps # {}
  <2> DEFINE M == {d.min : d \in dumps}
  <2>1. \A d \in dumps : d.min \in 1 .. min
    <3>1. ASSUME NEW d \in dumps PROVE d.min \in 1 .. min
      <4>1. d.min \in 1 .. Told + 1 /\ d.min <= min
        BY <1>0, <1>1 DEF VersionInv, DumpsFollow, Sound
      <4> QED BY <1>1, <4>1
    <3> QED BY <3>1
  <2>2. M \subseteq Nat /\ M # {}
    BY <1>1, <1>3, <2>1
  <2> HIDE DEF M
  <2>3. PICK m \in M : \A n \in M : m <= n
    BY <2>2, LeastNumber
  <2> USE DEF M
  <2>4. PICK d \in dumps : d.min = m
    OBVIOUS
  <2>5. \A e \in dumps : d.min <= e.min
    BY <2>3, <2>4
  <2>6. (CHOOSE x \in dumps : \A e \in dumps : x.min <= e.min) \in dumps
    BY <2>5
  <2>7. Oldest = (CHOOSE x \in dumps : \A e \in dumps : x.min <= e.min).min
    BY <1>3 DEF Oldest
  <2> QED BY <1>1, <2>1, <2>6, <2>7
<1> QED BY <1>2, <1>3

\* A dump that a version leads to.
LEMMA HasCover ==
  ASSUME VersionInv, step = "ready", stale = {}, NEW w \in Nat, NEW d \in dumps, d.min <= w
  PROVE  \E e \in dumps : Covers(e, w)
<1> DEFINE M == {e.min : e \in {x \in dumps : x.min <= w}}
<1>1. \A e \in dumps : e.min \in Nat
  BY DEF VersionInv, VersionTypeOK
<1>2. M \subseteq Nat /\ M # {} /\ \A m \in M : m <= w
  BY <1>1
<1> HIDE DEF M
<1>3. PICK m \in M : \A n \in M : n <= m
  BY <1>2, GreatestNumber
<1> USE DEF M
<1>4. PICK e \in dumps : e.min <= w /\ e.min = m
  OBVIOUS
<1>5. \A x \in dumps : x.min <= w => x.min \in M
  OBVIOUS
<1> HIDE DEF M
<1>6. \A x \in dumps : x.min <= w => x.min <= e.min
  BY <1>3, <1>4, <1>5
<1> QED BY <1>4, <1>6 DEF Covers, CountedVersions

LEMMA InvLearns == VersionInv /\ stale = {} => LearnsOfAll
<1> SUFFICES ASSUME VersionInv, stale = {}, step = "ready", NEW v \in Oldest - 1 .. version
             PROVE {k \in Key : \/ k \in DOMAIN core /\ core[k] > v
                                \/ \E d \in dumps : k \in DOMAIN d.held /\ d.held[k] > v}
                   = {history[w] : w \in v + 1 .. version}
  BY DEF LearnsOfAll
<1>0. CountedVersions = dumps
  BY DEF CountedVersions
<1>1. /\ version = Told /\ Told \in Nat /\ min \in 1 .. Told + 1 /\ Edge = min /\ Edge \in Nat
      /\ HoldsTrue(core, history, min) /\ history \in Seq(Key) /\ Told = Len(history)
  BY Types DEF VersionInv, MemoryFollows, Edge, Told
<1>2. Oldest \in 1 .. min /\ \A w \in Nat : Oldest <= w /\ w < min => \E d \in dumps : d.min <= w
  BY OldestIs
<1>3. v \in Nat /\ v + 1 >= Oldest /\ v + 1 >= 1
  BY <1>1, <1>2
<1>4. ASSUME NEW k \in Key, k \in DOMAIN core, core[k] > v
      PROVE  \E w \in v + 1 .. version : history[w] = k
  <2>1. core[k] \in min .. Told /\ history[core[k]] = k
    BY <1>1, <1>4 DEF HoldsTrue
  <2>2. core[k] \in v + 1 .. version
    BY <1>1, <1>3, <1>4, <2>1
  <2> QED BY <2>1, <2>2
<1>5. ASSUME NEW k \in Key, NEW d \in dumps, k \in DOMAIN d.held, d.held[k] > v
      PROVE  \E w \in v + 1 .. version : history[w] = k
  <2>1. d.held[k] \in d.min .. Told /\ history[d.held[k]] = k /\ d.min \in 1 .. Told + 1
    BY <1>0, <1>1, <1>5 DEF VersionInv, DumpsFollow, Sound
  <2>2. d.held[k] \in v + 1 .. version
    BY <1>1, <1>3, <1>5, <2>1
  <2> QED BY <2>1, <2>2
<1>6. ASSUME NEW w \in v + 1 .. version
      PROVE  /\ history[w] \in Key
             /\ \/ history[w] \in DOMAIN core /\ core[history[w]] > v
                \/ \E d \in dumps : history[w] \in DOMAIN d.held /\ d.held[history[w]] > v
  <2>1. w \in 1 .. Told /\ w > v /\ w \in Nat /\ Oldest <= w
    BY <1>1, <1>2, <1>3
  <2>2. history[w] \in Key
    BY <1>1, <2>1
  <2>3. CASE w >= min
    <3>1. w \in min .. Len(history)
      BY <1>1, <2>1, <2>3
    <3>2. /\ history[w] \in DOMAIN core /\ core[history[w]] >= w
          /\ core[history[w]] \in min .. Len(history)
      BY <1>1, <3>1 DEF HoldsTrue
    <3>3. core[history[w]] > v
      BY <1>1, <1>3, <2>1, <3>2
    <3> QED BY <2>2, <3>2, <3>3
  <2>4. CASE w < min
    <3>1. PICK x \in dumps : x.min <= w
      BY <1>2, <2>1, <2>4
    <3>2. PICK d \in dumps : Covers(d, w)
      BY <2>1, <3>1, HasCover
    <3>3. w \in 1 .. Edge - 1
      BY <1>1, <2>1, <2>4
    <3>4. Tells(d, w)
      BY <1>0, <3>2, <3>3 DEF VersionInv, DumpsFollow
    <3>5. /\ history[w] \in DOMAIN d.held /\ d.held[history[w]] >= w
          /\ d.held[history[w]] \in d.min .. Told /\ d.min \in 1 .. Told + 1
      BY <1>0, <3>4 DEF Tells, VersionInv, DumpsFollow, Sound
    <3>6. d.held[history[w]] > v
      BY <1>1, <1>3, <2>1, <3>5
    <3> QED BY <2>2, <3>5, <3>6
  <2> QED BY <1>1, <2>1, <2>3, <2>4
<1> QED BY <1>4, <1>5, <1>6

LEMMA InvFinds == VersionInv /\ stale = {} => DumpIsFound
<1> SUFFICES ASSUME VersionInv, stale = {}, step = "ready", NEW v \in Oldest .. min - 1
             PROVE  \E d \in dumps : /\ d.min = FindLess(v)
                                     /\ history[v] \in DOMAIN d.held /\ d.held[history[v]] >= v
  BY DEF DumpIsFound
<1>0. CountedVersions = dumps
  BY DEF CountedVersions
<1>1. /\ min \in 1 .. Told + 1 /\ Told \in Nat /\ Edge = min /\ dumpIndex \subseteq Nat
      /\ \A d \in dumps : d.min \in Nat
  BY Types DEF VersionInv, VersionTypeOK, MemoryFollows, Edge
<1>2. Oldest \in 1 .. min /\ \A w \in Nat : Oldest <= w /\ w < min => \E d \in dumps : d.min <= w
  BY OldestIs
<1>3. v \in Nat /\ v >= 1 /\ v < min /\ Oldest <= v
  BY <1>1, <1>2
<1>4. PICK x \in dumps : x.min <= v
  BY <1>2, <1>3
<1>5. PICK d \in dumps : Covers(d, v)
  BY <1>3, <1>4, HasCover
<1>6. d.min \in dumpIndex /\ d.min <= v /\ d.min \in Nat
  BY <1>0, <1>1, <1>5 DEF VersionInv, IndexFollows, Covers
<1>7. ASSUME NEW m \in dumpIndex, m <= v PROVE m <= d.min
  <2>1. (\E e \in dumps : e.min = m) \/ \A e \in dumps : m <= e.min
    BY <1>0 DEF VersionInv, IndexFollows
  <2> QED BY <1>0, <1>5, <1>7, <2>1 DEF Covers
<1>8. FindLess(v) = d.min
  <2> DEFINE below == {m \in dumpIndex : m <= v}
  <2>1. d.min \in below /\ \A n \in below : n <= d.min
    BY <1>6, <1>7
  <2>2. \A m \in below : m \in Nat
    BY <1>1
  <2> HIDE DEF below
  <2>3. \A m \in below : (\A n \in below : n <= m) => m = d.min
    BY <1>6, <2>1, <2>2
  <2>4. (CHOOSE m \in below : \A n \in below : n <= m) = d.min
    BY <2>1, <2>3
  <2> QED BY <2>4 DEF FindLess, below
<1>9. Tells(d, v)
  <2>1. v \in 1 .. Edge - 1
    BY <1>1, <1>3
  <2> QED BY <1>0, <1>5, <2>1 DEF VersionInv, DumpsFollow
<1> QED BY <1>8, <1>9 DEF Tells

----------------------------------------------------------------------------
(* The theorems.                                                           *)
LEMMA VersionInvHolds == VersionSpec => []VersionInv
<1>1. VersionInit => VersionInv
  BY InvStarts
<1>2. VersionInv /\ [VersionNext]_versionVars => VersionInv'
  BY InvKept
<1> QED BY <1>1, <1>2, PTL DEF VersionSpec

\* Whatever step of a write or a rotation the process stops at, M.init finds every version
\* that was given out and the newest of each key since the last dump; only where it stops
\* between emptying the file and writing its header, those before are lost and it counts
\* from 1 again (M.init, M.revert, M.add in leveldb/cluster/version.lua, and Version.add,
\* deseri and last in ldbtool.cc).
THEOREM StartFindsAll == VersionSpec => []RecoversAll
<1> QED BY VersionInvHolds, InvRecovers, PTL

\* From the dumps that are kept and the version file a node that is not too far behind
\* learns of every key written since its version and of no other, and the dump that
\* find_less leads a version to tells of the key of that version; after a loss of the
\* header again once the dumps of before are written over or gone (gen_file, create_ins,
\* del_dump_files in version.lua, find_less in ldbtool.cc).
THEOREM LaggardsCatchUp == VersionSpec => []CatchUp
<1>1. VersionInv => CatchUp
  BY InvLearns, InvFinds DEF CatchUp
<1> QED BY <1>1, VersionInvHolds, PTL

----------------------------------------------------------------------------
(***************************************************************************)
(* The circular array, for any entries, initial capacity and length: its   *)
(* two ends agree with its count, what it gives to be sent is in the log,  *)
(* and it is a sequence.                                                   *)
(***************************************************************************)
LEMMA ModSmall ==
  ASSUME NEW n \in Nat \ {0}, NEW x \in 0 .. n - 1 PROVE x % n = x
  OBVIOUS

LEMMA ModWrap ==
  ASSUME NEW n \in Nat \ {0}, NEW x \in n .. 2 * n - 1 PROVE x % n = x - n
  OBVIOUS

LEMMA ModBack ==
  ASSUME NEW n \in Nat \ {0}, NEW x \in Int, -n <= x, x < 0 PROVE x % n = x + n
  OBVIOUS

\* The place of the k-th entry after place f of an array of n.
Pos(f, k, n) == (f + k) % n

LEMMA Place ==
  ASSUME NEW n \in Nat \ {0}, NEW f \in 0 .. n - 1, NEW k \in 0 .. n
  PROVE  /\ Pos(f, k, n) \in 0 .. n - 1
         /\ Pos(f, k, n) = IF f + k < n THEN f + k ELSE f + k - n
<1> USE DEF Pos
<1>1. CASE f + k < n
  <2>1. f + k \in 0 .. n - 1
    BY <1>1
  <2> QED BY <1>1, <2>1, ModSmall
<1>2. CASE ~(f + k < n)
  <2>1. f + k \in n .. 2 * n - 1
    BY <1>2
  <2> QED BY <1>2, <2>1, ModWrap
<1> QED BY <1>1, <1>2

\* The c entries from place f on.
Ring4(s, n, f, c) == [k \in 1 .. c |-> s[Pos(f, (k - 1), n)]]

LEMMA RingIsSequence ==
  ASSUME NEW n \in Nat \ {0}, NEW f \in 0 .. n - 1, NEW c \in 0 .. n,
         NEW s \in [0 .. n - 1 -> Entry \cup {Blank}],
         \A k \in 0 .. c - 1 : s[Pos(f, k, n)] # Blank
  PROVE  /\ Ring4(s, n, f, c) \in Seq(Entry) /\ Len(Ring4(s, n, f, c)) = c
         /\ \A k \in 1 .. c : Ring4(s, n, f, c)[k] = s[Pos(f, (k - 1), n)]
<1>1. ASSUME NEW k \in 1 .. c PROVE s[Pos(f, (k - 1), n)] \in Entry
  <2>1. k - 1 \in 0 .. c - 1 /\ k - 1 \in 0 .. n
    BY <1>1
  <2>2. Pos(f, (k - 1), n) \in 0 .. n - 1
    BY <2>1, Place
  <2> QED BY <2>1, <2>2
<1>2. Ring4(s, n, f, c) \in [1 .. c -> Entry] /\ c \in Nat
  BY <1>1 DEF Ring4
<1>3. Ring4(s, n, f, c) \in Seq(Entry)
  BY <1>2, SeqDef
<1> QED BY <1>2, <1>3, LenProperties DEF Ring4

LEMMA EntriesRing == Entries = Ring4(slots, size, front, count)
  BY DEF Entries, At, Ring4, Pos

RingInv == TypeOK /\ Ring

LEMMA EntriesAre ==
  RingInv => /\ Entries \in Seq(Entry) /\ Len(Entries) = count
             /\ \A k \in 1 .. count : Entries[k] = slots[Pos(front, (k - 1), size)]
<1>1. SUFFICES ASSUME RingInv PROVE /\ Entries \in Seq(Entry) /\ Len(Entries) = count
             /\ \A k \in 1 .. count : Entries[k] = slots[Pos(front, (k - 1), size)]
  OBVIOUS
<1>2. TypeOK /\ Ring
  BY <1>1 DEF RingInv
<1>3. \A k \in 0 .. count - 1 : slots[Pos(front, k, size)] # Blank
  BY <1>2 DEF Ring, At, Pos
<1> QED BY <1>2, <1>3, RingIsSequence, EntriesRing DEF TypeOK
----------------------------------------------------------------------------
\* The c entries from f on lie in s, and u is s with e written after them, at t.
Writes(u, s, n, f, c, t, e) ==
  /\ n \in Nat \ {0} /\ f \in 0 .. n - 1 /\ c \in 0 .. n - 1 /\ e \in Entry
  /\ s \in [0 .. n - 1 -> Entry \cup {Blank}] /\ u \in [0 .. n - 1 -> Entry \cup {Blank}]
  /\ \A k \in 0 .. c - 1 : s[Pos(f, k, n)] # Blank
  /\ t = Pos(f, c, n) /\ u[t] = e
  /\ \A x \in 0 .. n - 1 : x # t => u[x] = s[x]

Written(u, s, n, f, c, t, e) ==
  /\ t \in 0 .. n - 1
  /\ Pos(t, 1, n) = Pos(f, c + 1, n) /\ Pos(t, 1, n) \in 0 .. n - 1
  /\ \A k \in 0 .. c : u[Pos(f, k, n)] # Blank
  /\ Ring4(u, n, f, c) = Ring4(s, n, f, c)
  /\ Ring4(u, n, f, c + 1) = Append(Ring4(s, n, f, c), e)

LEMMA WrittenAfter ==
  ASSUME NEW n, NEW f, NEW c, NEW s, NEW e, NEW t, NEW u, Writes(u, s, n, f, c, t, e)
  PROVE  Written(u, s, n, f, c, t, e)
<1> USE DEF Writes
<1>1. t \in 0 .. n - 1 /\ t = IF f + c < n THEN f + c ELSE f + c - n
  <2>1. c \in 0 .. n
    OBVIOUS
  <2> QED BY <2>1, Place
<1>2. Pos(t, 1, n) = Pos(f, c + 1, n) /\ Pos(t, 1, n) \in 0 .. n - 1
  <2>1. /\ Pos(t, 1, n) = IF t + 1 < n THEN t + 1 ELSE t + 1 - n
        /\ Pos(t, 1, n) \in 0 .. n - 1
    <3>1. 1 \in 0 .. n
      OBVIOUS
    <3> QED BY <1>1, <3>1, Place
  <2>2. Pos(f, c + 1, n) = IF f + (c + 1) < n THEN f + (c + 1) ELSE f + (c + 1) - n
    <3>1. c + 1 \in 0 .. n
      OBVIOUS
    <3> QED BY <3>1, Place
  <2> QED BY <1>1, <2>1, <2>2
<1>4. ASSUME NEW k \in 0 .. c - 1
      PROVE  u[Pos(f, k, n)] = s[Pos(f, k, n)]
  <2>1. /\ Pos(f, k, n) \in 0 .. n - 1
        /\ Pos(f, k, n) = IF f + k < n THEN f + k ELSE f + k - n
    <3>1. k \in 0 .. n
      OBVIOUS
    <3> QED BY <3>1, Place
  <2>2. Pos(f, k, n) # t
    BY <1>1, <2>1
  <2> QED BY <2>1, <2>2
<1>5. ASSUME NEW k \in 0 .. c PROVE u[Pos(f, k, n)] # Blank
  <2>1. CASE k \in 0 .. c - 1
    BY <1>4, <2>1
  <2>2. CASE k = c
    BY <2>2, BlankAssumption
  <2> QED BY <2>1, <2>2
<1>6. /\ Ring4(s, n, f, c) \in Seq(Entry) /\ Len(Ring4(s, n, f, c)) = c
      /\ \A k \in 1 .. c : Ring4(s, n, f, c)[k] = s[Pos(f, (k - 1), n)]
  <2>1. c \in 0 .. n
    OBVIOUS
  <2> QED BY <2>1, RingIsSequence
<1>7. ASSUME NEW d \in {c, c + 1}
      PROVE  /\ Ring4(u, n, f, d) \in Seq(Entry) /\ Len(Ring4(u, n, f, d)) = d
             /\ \A k \in 1 .. d : Ring4(u, n, f, d)[k] = u[Pos(f, (k - 1), n)]
  <2>1. d \in 0 .. n /\ \A k \in 0 .. d - 1 : k \in 0 .. c
    OBVIOUS
  <2>2. \A k \in 0 .. d - 1 : u[Pos(f, k, n)] # Blank
    BY <1>5, <2>1
  <2> QED BY <2>1, <2>2, RingIsSequence
<1>8. Ring4(u, n, f, c) = Ring4(s, n, f, c)
  <2>1. \A k \in 1 .. c : k - 1 \in 0 .. c - 1
    OBVIOUS
  <2>2. \A k \in 1 .. c : Ring4(u, n, f, c)[k] = Ring4(s, n, f, c)[k]
    BY <1>4, <1>6, <1>7, <2>1
  <2> QED BY <1>6, <1>7, <2>2, SeqEqual
<1>9. Ring4(u, n, f, c + 1) = Append(Ring4(s, n, f, c), e)
  <2> DEFINE x == Append(Ring4(s, n, f, c), e)
             y == Ring4(u, n, f, c + 1)
  <2>1. /\ x \in Seq(Entry) /\ Len(x) = c + 1 /\ x[c + 1] = e
        /\ \A k \in 1 .. c : x[k] = Ring4(s, n, f, c)[k]
    <3> PICK r : r = Ring4(s, n, f, c)
      OBVIOUS
    <3>1. r \in Seq(Entry) /\ Len(r) = c
      BY <1>6
    <3>2. /\ Append(r, e) \in Seq(Entry) /\ Len(Append(r, e)) = c + 1 /\ Append(r, e)[c + 1] = e
          /\ \A k \in 1 .. c : Append(r, e)[k] = r[k]
      BY <3>1, AppendProperties
    <3> QED BY <3>2
  <2>2. /\ y \in Seq(Entry) /\ Len(y) = c + 1
        /\ \A k \in 1 .. c + 1 : y[k] = u[Pos(f, (k - 1), n)]
    BY <1>7
  <2> HIDE DEF x, y
  <2>3. ASSUME NEW k \in 1 .. c + 1 PROVE y[k] = x[k]
    <3>1. CASE k = c + 1
      <4>1. k - 1 = c
        BY <3>1
      <4> QED BY <2>1, <2>2, <3>1, <4>1
    <3>2. CASE k \in 1 .. c
      <4>1. k - 1 \in 0 .. c - 1
        BY <3>2
      <4> QED BY <1>4, <1>6, <2>1, <2>2, <3>2, <4>1
    <3> QED BY <3>1, <3>2
  <2>4. y = x
    BY <2>1, <2>2, <2>3, SeqEqual
  <2> QED BY <2>4 DEF x, y
<1> QED BY <1>1, <1>2, <1>5, <1>8, <1>9, Zenon DEF Written

RingFacts ==
  /\ size \in Nat \ {0} /\ count \in 0 .. size /\ front \in 0 .. size - 1
  /\ back \in 0 .. size - 1 /\ base \in Nat /\ back = Pos(front, count, size)
  /\ slots \in [0 .. size - 1 -> Entry \cup {Blank}]
  /\ \A k \in 0 .. count - 1 : slots[Pos(front, k, size)] # Blank

LEMMA RingInvFacts == RingInv <=> RingFacts
  BY DEF RingInv, RingFacts, TypeOK, Ring, At, Pos

\* __ensurecapacity: the array of twice the size holds the same entries from its
\* start on.
LEMMA UnrolledHolds ==
  ASSUME RingFacts, count >= size
  PROVE  /\ Unrolled \in [0 .. 2 * size - 1 -> Entry \cup {Blank}]
         /\ count \in 0 .. 2 * size - 1 /\ count = Pos(0, count, 2 * size)
         /\ \A k \in 0 .. count - 1 : Unrolled[Pos(0, k, 2 * size)] # Blank
         /\ Ring4(Unrolled, 2 * size, 0, count) = Entries
<1>1. /\ size \in Nat \ {0} /\ count = size /\ front \in 0 .. size - 1
      /\ 2 * size \in Nat \ {0} /\ 0 \in 0 .. 2 * size - 1
      /\ slots \in [0 .. size - 1 -> Entry \cup {Blank}]
  BY DEF RingFacts
<1>2. ASSUME NEW k \in 0 .. count PROVE Pos(0, k, 2 * size) = k
  <2>1. k \in 0 .. 2 * size - 1 /\ 0 + k = k
    BY <1>1
  <2> QED BY <1>1, <2>1, ModSmall DEF Pos
<1>3. ASSUME NEW k \in 0 .. count - 1
      PROVE  /\ Pos(front, k, size) \in 0 .. size - 1
             /\ Unrolled[k] = slots[Pos(front, k, size)] /\ Unrolled[k] \in Entry
  <2>1. k \in 0 .. size /\ k \in 0 .. 2 * size - 1 /\ k < count
    BY <1>1
  <2>2. Pos(front, k, size) \in 0 .. size - 1
    BY <1>1, <2>1, Place
  <2>3. Unrolled[k] = slots[Pos(front, k, size)]
    BY <2>1 DEF Unrolled, At, Pos
  <2>4. slots[Pos(front, k, size)] # Blank
    BY DEF RingFacts
  <2> QED BY <1>1, <2>2, <2>3, <2>4
<1>4. Unrolled \in [0 .. 2 * size - 1 -> Entry \cup {Blank}]
  <2>1. ASSUME NEW k \in 0 .. 2 * size - 1
        PROVE  (IF k < count THEN At(k) ELSE Blank) \in Entry \cup {Blank}
    <3>1. CASE k < count
      <4>1. k \in 0 .. count - 1
        BY <1>1, <3>1
      <4>2. At(k) = slots[Pos(front, k, size)]
        BY DEF At, Pos
      <4> QED BY <1>3, <3>1, <4>1, <4>2
    <3> QED BY <3>1
  <2> QED BY <2>1 DEF Unrolled
<1>5. ASSUME NEW k \in 0 .. count - 1 PROVE Unrolled[Pos(0, k, 2 * size)] # Blank
  <2>1. k \in 0 .. count
    BY <1>1
  <2> QED BY <1>2, <1>3, <2>1, BlankAssumption
<1>6. Ring4(Unrolled, 2 * size, 0, count) = Entries
  <2>1. ASSUME NEW k \in 1 .. count
        PROVE  Unrolled[(0 + (k - 1)) % (2 * size)] = At(k - 1)
    <3>1. k - 1 \in 0 .. count - 1 /\ k - 1 \in 0 .. count
      BY <1>1
    <3>2. Unrolled[Pos(0, k - 1, 2 * size)] = slots[Pos(front, k - 1, size)]
      BY <1>2, <1>3, <3>1
    <3> QED BY <3>2 DEF Pos, At
  <2> QED BY <2>1, Zenon DEF Ring4, Entries, Pos
<1>7. count \in 0 .. count /\ count \in 0 .. 2 * size - 1
  BY <1>1
<1> QED BY <1>2, <1>4, <1>5, <1>6, <1>7

\* log_append_entry puts the entry at the end, or, when log_offer refuses it, leaves
\* the log as it is.
LEMMA OfferEffect ==
  ASSUME RingFacts, NEW e \in Entry, NEW refused \in BOOLEAN, Offer(e, refused)
  PROVE  /\ RingFacts' /\ base' = base
         /\ Entries' = IF refused THEN Entries ELSE Append(Entries, e)
<1>1. PICK n, f, h, t :
        /\ n = size' /\ f = front'
        /\ h = IF count >= size THEN Unrolled ELSE slots
        /\ t = IF count >= size THEN count ELSE back
  OBVIOUS
<1>2. /\ n \in Nat \ {0} /\ f \in 0 .. n - 1 /\ count \in 0 .. n - 1
      /\ h \in [0 .. n - 1 -> Entry \cup {Blank}]
      /\ \A k \in 0 .. count - 1 : h[Pos(f, k, n)] # Blank
      /\ t = Pos(f, count, n) /\ Ring4(h, n, f, count) = Entries
  <2>1. CASE count >= size
    <3>1. n = 2 * size /\ f = 0 /\ h = Unrolled /\ t = count /\ size \in Nat \ {0}
      BY <1>1, <2>1 DEF Offer, RingFacts
    <3>2. 2 * size \in Nat \ {0} /\ 0 \in 0 .. 2 * size - 1
      BY <3>1
    <3>3. /\ Unrolled \in [0 .. 2 * size - 1 -> Entry \cup {Blank}]
          /\ count \in 0 .. 2 * size - 1 /\ count = Pos(0, count, 2 * size)
          /\ \A k \in 0 .. count - 1 : Unrolled[Pos(0, k, 2 * size)] # Blank
          /\ Ring4(Unrolled, 2 * size, 0, count) = Entries
      BY <2>1, UnrolledHolds
    <3> QED BY <3>1, <3>2, <3>3, Zenon
  <2>2. CASE ~(count >= size)
    <3>1. n = size /\ f = front /\ h = slots /\ t = back
      BY <1>1, <2>2 DEF Offer
    <3>2. Ring4(slots, size, front, count) = Entries
      BY DEF Entries, At, Ring4, Pos
    <3>3. count \in 0 .. size - 1
      BY <2>2 DEF RingFacts
    <3> QED BY <3>1, <3>2, <3>3, Zenon DEF RingFacts
  <2> QED BY <2>1, <2>2
<1>3. PICK u : u = slots'
  OBVIOUS
<1>4. t \in 0 .. n - 1
  <2>1. count \in 0 .. n
    BY <1>2
  <2> QED BY <1>2, <2>1, Place
<1>5. /\ u = [h EXCEPT ![t] = e] /\ base' = base
      /\ refused => back' = t /\ count' = count
      /\ ~refused => back' = Pos(t, 1, n) /\ count' = count + 1
  BY <1>1, <1>3 DEF Offer, Pos
<1>6. /\ u \in [0 .. n - 1 -> Entry \cup {Blank}] /\ u[t] = e
      /\ \A x \in 0 .. n - 1 : x # t => u[x] = h[x]
  BY <1>2, <1>4, <1>5
<1>7. /\ Pos(t, 1, n) = Pos(f, count + 1, n) /\ Pos(t, 1, n) \in 0 .. n - 1
      /\ \A k \in 0 .. count : u[Pos(f, k, n)] # Blank
      /\ Ring4(u, n, f, count) = Ring4(h, n, f, count)
      /\ Ring4(u, n, f, count + 1) = Append(Ring4(h, n, f, count), e)
  <2>1. PICK c : c = count
    OBVIOUS
  <2>2. Writes(u, h, n, f, c, t, e)
    BY <1>2, <1>6, <2>1, Zenon DEF Writes
  <2>3. Written(u, h, n, f, c, t, e)
    BY <2>2, WrittenAfter, Zenon
  <2> QED BY <2>1, <2>3, Zenon DEF Written
<1>8. Entries' = Ring4(u, n, f, count')
  BY <1>1, <1>3 DEF Entries, At, Ring4, Pos
<1>9. count \in Nat /\ base \in Nat
  BY DEF RingFacts
<1>10. CASE refused
  <2>1. /\ n \in Nat \ {0} /\ count' \in 0 .. n /\ back' \in 0 .. n - 1 /\ base' \in Nat
        /\ \A k \in 0 .. count' - 1 : k \in 0 .. count
    BY <1>2, <1>4, <1>5, <1>9, <1>10
  <2>2. RingFacts'
    BY <1>1, <1>2, <1>3, <1>5, <1>6, <1>7, <1>10, <2>1 DEF RingFacts
  <2> QED BY <1>2, <1>5, <1>7, <1>8, <1>10, <2>2
<1>11. CASE ~refused
  <2>1. /\ n \in Nat \ {0} /\ count' \in 0 .. n /\ back' \in 0 .. n - 1 /\ base' \in Nat
        /\ \A k \in 0 .. count' - 1 : k \in 0 .. count
    BY <1>2, <1>5, <1>7, <1>9, <1>11
  <2>2. RingFacts'
    BY <1>1, <1>2, <1>3, <1>5, <1>6, <1>7, <1>11, <2>1 DEF RingFacts
  <2> QED BY <1>2, <1>5, <1>7, <1>8, <1>11, <2>2
<1> QED BY <1>10, <1>11

\* log_delete moves the end back by as many entries as it takes off.
LEMMA EndMovesBack ==
  ASSUME NEW n \in Nat \ {0}, NEW f \in 0 .. n - 1, NEW c \in 0 .. n, NEW d \in 0 .. c
  PROVE  (Pos(f, c, n) - d) % n = Pos(f, c - d, n)
<1>1. /\ Pos(f, c, n) \in 0 .. n - 1
      /\ Pos(f, c, n) = IF f + c < n THEN f + c ELSE f + c - n
  BY Place
<1>2. Pos(f, c - d, n) = IF f + (c - d) < n THEN f + (c - d) ELSE f + (c - d) - n
  <2>1. c - d \in 0 .. n
    OBVIOUS
  <2> QED BY <2>1, Place
<1> DEFINE x == Pos(f, c, n) - d
<1>3. x \in Int /\ -n <= x /\ x < n
  BY <1>1
<1>4. CASE x < 0
  <2>1. x % n = x + n
    BY <1>3, <1>4, ModBack
  <2> QED BY <1>1, <1>2, <1>4, <2>1
<1>5. CASE ~(x < 0)
  <2>1. x \in 0 .. n - 1
    BY <1>3, <1>5
  <2>2. x % n = x
    BY <2>1, ModSmall
  <2> QED BY <1>1, <1>2, <1>5, <2>2
<1> QED BY <1>4, <1>5

\* log_delete takes entries off the end and touches no other.
LEMMA DeleteEffect ==
  ASSUME RingFacts, NEW ix \in 1 .. MaxIdx, NEW d \in 0 .. count, Delete(ix, d)
  PROVE  /\ RingFacts' /\ base' = base
         /\ Entries' = SubSeq(Entries, 1, count - d)
<1>1. PICK c : c = count'
  OBVIOUS
<1>2. /\ c = count - d /\ count \in 0 .. size /\ c \in 0 .. count /\ c \in 0 .. size
      /\ size \in Nat \ {0} /\ front \in 0 .. size - 1
      /\ slots \in [0 .. size - 1 -> Entry \cup {Blank}]
  BY <1>1 DEF Delete, RingFacts
<1>3. /\ size' = size /\ front' = front /\ base' = base /\ slots' = slots
      /\ count' = c /\ back' = (back - d) % size
  BY <1>1 DEF Delete
<1>4. /\ back' = Pos(front, c, size) /\ back' \in 0 .. size - 1
  <2>1. (Pos(front, count, size) - d) % size = Pos(front, count - d, size)
    BY <1>2, EndMovesBack
  <2>2. back = Pos(front, count, size)
    BY DEF RingFacts
  <2>3. back' = Pos(front, c, size)
    BY <1>2, <1>3, <2>1, <2>2
  <2> QED BY <1>2, <2>3, Place
<1>5. \A k \in 0 .. c - 1 : slots[Pos(front, k, size)] # Blank
  <2>1. \A k \in 0 .. c - 1 : k \in 0 .. count - 1
    BY <1>2
  <2> QED BY <2>1 DEF RingFacts
<1>6. RingFacts'
  BY <1>2, <1>3, <1>4, <1>5 DEF RingFacts
<1>7. Entries' = SubSeq(Entries, 1, c)
  <2>1. Entries' = Ring4(slots, size, front, c)
    BY <1>3 DEF Entries, At, Ring4, Pos
  <2>2. /\ Ring4(slots, size, front, c) \in Seq(Entry) /\ Len(Ring4(slots, size, front, c)) = c
        /\ \A k \in 1 .. c : Ring4(slots, size, front, c)[k] = slots[Pos(front, (k - 1), size)]
    BY <1>2, <1>5, RingIsSequence
  <2>3. /\ Entries \in Seq(Entry) /\ Len(Entries) = count
        /\ \A k \in 1 .. count : Entries[k] = slots[Pos(front, (k - 1), size)]
    BY EntriesAre, RingInvFacts
  <2> PICK r, w : r = Entries /\ w = Ring4(slots, size, front, c)
    OBVIOUS
  <2>4. /\ SubSeq(r, 1, c) \in Seq(Entry) /\ Len(SubSeq(r, 1, c)) = c
        /\ \A k \in 1 .. c : SubSeq(r, 1, c)[k] = r[k]
    <3>1. c \in Nat /\ c \in Int /\ 1 \in Int /\ \A k \in 1 .. c : k \in 1 .. Len(r)
      BY <1>2, <2>3
    <3>2. \A k \in 1 .. c : r[k] \in Entry
      BY <2>3, <3>1, ElementOfSeq
    <3>3. /\ SubSeq(r, 1, c) \in Seq(Entry)
          /\ Len(SubSeq(r, 1, c)) = IF 1 <= c THEN c - 1 + 1 ELSE 0
          /\ \A k \in 1 .. c - 1 + 1 : SubSeq(r, 1, c)[k] = r[1 + k - 1]
      BY <3>1, <3>2, SubSeqProperties
    <3>4. c - 1 + 1 = c /\ \A k \in 1 .. c : 1 + k - 1 = k
      BY <3>1
    <3>5. (IF 1 <= c THEN c - 1 + 1 ELSE 0) = c
      BY <3>1
    <3> QED BY <3>3, <3>4, <3>5
  <2>5. \A k \in 1 .. c : w[k] = SubSeq(r, 1, c)[k]
    <3>1. \A k \in 1 .. c : k \in 1 .. count
      BY <1>2
    <3>2. \A k \in 1 .. c : r[k] = slots[Pos(front, (k - 1), size)]
      BY <2>3, <3>1, Zenon
    <3> QED BY <2>2, <2>4, <3>2, Zenon
  <2>6. w = SubSeq(r, 1, c)
    BY <2>2, <2>4, <2>5, SeqEqual
  <2> QED BY <2>1, <2>6
<1> QED BY <1>2, <1>3, <1>6, <1>7

\* One step along the array, then k more, are k + 1 steps.
LEMMA StepThenMore ==
  ASSUME NEW n \in Nat \ {0}, NEW f \in 0 .. n - 1, NEW k \in 0 .. n - 1
  PROVE  Pos(Pos(f, 1, n), k, n) = Pos(f, k + 1, n)
<1>1. 1 \in 0 .. n /\ k \in 0 .. n /\ k + 1 \in 0 .. n
  OBVIOUS
<1> PICK g : g = Pos(f, 1, n)
  OBVIOUS
<1>2. g \in 0 .. n - 1 /\ g = IF f + 1 < n THEN f + 1 ELSE f + 1 - n
  BY <1>1, Place
<1>3. Pos(g, k, n) = IF g + k < n THEN g + k ELSE g + k - n
  BY <1>1, <1>2, Place
<1>4. Pos(f, k + 1, n) = IF f + (k + 1) < n THEN f + (k + 1) ELSE f + (k + 1) - n
  BY <1>1, Place
<1> QED BY <1>2, <1>3, <1>4

\* log_poll takes the first entry away.
LEMMA PollEffect ==
  ASSUME RingFacts, Poll
  PROVE  /\ RingFacts' /\ base' = base + 1
         /\ Entries # <<>> /\ Entries' = Tail(Entries)
<1>1. PICK c, g : c = count' /\ g = front'
  OBVIOUS
<1>2. /\ c = count - 1 /\ count \in 0 .. size /\ count > 0 /\ c \in 0 .. size - 1
      /\ size \in Nat \ {0} /\ front \in 0 .. size - 1 /\ base \in Nat
      /\ slots \in [0 .. size - 1 -> Entry \cup {Blank}]
  BY <1>1 DEF Poll, RingFacts
<1>3. /\ size' = size /\ front' = g /\ base' = base + 1 /\ slots' = slots
      /\ count' = c /\ back' = back /\ g = Pos(front, 1, size)
  BY <1>1 DEF Poll, Pos
<1>4. g \in 0 .. size - 1
  <2>1. 1 \in 0 .. size
    BY <1>2
  <2> QED BY <1>2, <1>3, <2>1, Place
<1>5. \A k \in 0 .. c : Pos(g, k, size) = Pos(front, k + 1, size)
  <2>1. \A k \in 0 .. c : k \in 0 .. size - 1
    BY <1>2
  <2> QED BY <1>2, <1>3, <2>1, StepThenMore
<1>6. back = Pos(g, c, size) /\ back \in 0 .. size - 1
  <2>1. c \in 0 .. c /\ c + 1 = count
    BY <1>2
  <2>2. Pos(g, c, size) = Pos(front, c + 1, size)
    BY <1>5, <2>1
  <2> QED BY <2>1, <2>2 DEF RingFacts
<1>7. \A k \in 0 .. c - 1 : slots[Pos(g, k, size)] # Blank
  <2>1. \A k \in 0 .. c - 1 : k \in 0 .. c /\ k + 1 \in 0 .. count - 1
    BY <1>2
  <2> QED BY <1>5, <2>1 DEF RingFacts
<1>8. RingFacts'
  <2>1. c \in 0 .. size /\ base + 1 \in Nat
    BY <1>2
  <2> QED BY <1>2, <1>3, <1>4, <1>6, <1>7, <2>1 DEF RingFacts
<1>9. Entries # <<>> /\ Entries' = Tail(Entries)
  <2>1. Entries' = Ring4(slots, size, g, c)
    BY <1>3 DEF Entries, At, Ring4, Pos
  <2>2. /\ Ring4(slots, size, g, c) \in Seq(Entry) /\ Len(Ring4(slots, size, g, c)) = c
        /\ \A k \in 1 .. c : Ring4(slots, size, g, c)[k] = slots[Pos(g, (k - 1), size)]
    <3>1. c \in 0 .. size
      BY <1>2
    <3> QED BY <1>2, <1>4, <1>7, <3>1, RingIsSequence
  <2>3. /\ Entries \in Seq(Entry) /\ Len(Entries) = count
        /\ \A k \in 1 .. count : Entries[k] = slots[Pos(front, (k - 1), size)]
    BY EntriesAre, RingInvFacts
  <2> PICK r, w : r = Entries /\ w = Ring4(slots, size, g, c)
    OBVIOUS
  <2>4. r \in Seq(Entry) /\ Len(r) = count /\ r # <<>>
    BY <1>2, <2>3
  <2>5. /\ Tail(r) \in Seq(Entry) /\ Len(Tail(r)) = c
        /\ \A k \in 1 .. c : Tail(r)[k] = r[k + 1]
    BY <1>2, <2>4, HeadTailProperties
  <2>6. ASSUME NEW k \in 1 .. c PROVE w[k] = Tail(r)[k]
    <3>1. k - 1 \in 0 .. c /\ k + 1 \in 1 .. count /\ k - 1 + 1 = k /\ k + 1 - 1 = k
      BY <1>2
    <3>2. r[k + 1] = slots[Pos(front, k, size)]
      BY <2>3, <3>1
    <3>3. w[k] = slots[Pos(front, k, size)]
      <4>1. Pos(g, k - 1, size) = Pos(front, k - 1 + 1, size)
        BY <1>5, <3>1
      <4> QED BY <2>2, <3>1, <4>1
    <3> QED BY <2>5, <3>2, <3>3
  <2>7. w = Tail(r)
    BY <2>2, <2>5, <2>6, SeqEqual
  <2> QED BY <2>1, <2>4, <2>7
<1> QED BY <1>3, <1>8, <1>9

\* log_load_from_snapshot leaves nothing but the index.
LEMMA LoadEffect ==
  ASSUME RingFacts, NEW ix \in 1 .. MaxIdx, LoadFromSnapshot(ix)
  PROVE  /\ RingFacts' /\ base' \in Nat /\ base' >= base + count /\ Entries' = <<>>
<1>1. /\ size' = size /\ slots' = slots /\ count' = 0 /\ front' = 0 /\ back' = 0
      /\ base' = ix /\ ix >= base + count
  BY DEF LoadFromSnapshot, CurrentIdx
<1>2. /\ 0 \in 0 .. size /\ 0 \in 0 .. size - 1 /\ ix \in Nat /\ 0 + 0 = 0
      /\ size \in Nat \ {0}
  BY MaxIdxAssumption DEF RingFacts
<1>3. Pos(0, 0, size) = 0
  BY <1>2, ModSmall DEF Pos
<1>4. RingFacts'
  BY <1>1, <1>2, <1>3 DEF RingFacts
<1>5. Entries' = <<>>
  <2>1. Entries' = Ring4(slots, size, 0, 0)
    BY <1>1 DEF Entries, At, Ring4, Pos
  <2>2. Ring4(slots, size, 0, 0) \in Seq(Entry) /\ Len(Ring4(slots, size, 0, 0)) = 0
    <3>1. \A k \in 0 .. 0 - 1 : slots[Pos(0, k, size)] # Blank
      OBVIOUS
    <3>2. slots \in [0 .. size - 1 -> Entry \cup {Blank}]
      BY DEF RingFacts
    <3> QED BY <1>2, <3>1, <3>2, RingIsSequence
  <2> QED BY <2>1, <2>2, EmptySeq
<1> QED BY <1>1, <1>2, <1>4, <1>5

----------------------------------------------------------------------------
LEMMA InitRing == Init => RingFacts /\ base = 0 /\ Entries = <<>>
<1> SUFFICES ASSUME Init PROVE RingFacts /\ base = 0 /\ Entries = <<>>
  OBVIOUS
<1>1. /\ size \in Nat \ {0} /\ count = 0 /\ front = 0 /\ back = 0 /\ base = 0
      /\ slots \in [0 .. size - 1 -> Entry \cup {Blank}]
  BY CapacityAssumption DEF Init
<1>2. 0 \in 0 .. size /\ 0 \in 0 .. size - 1 /\ 0 + 0 = 0
  BY <1>1
<1>3. Pos(0, 0, size) = 0
  BY <1>1, <1>2, ModSmall DEF Pos
<1>4. RingFacts
  BY <1>1, <1>2, <1>3 DEF RingFacts
<1>5. Entries \in Seq(Entry) /\ Len(Entries) = 0
  BY <1>1, <1>4, RingInvFacts, EntriesAre
<1> QED BY <1>1, <1>4, <1>5, EmptySeq

\* Every function of raft_log.c is a step of the sequence, or leaves it alone.
LEMMA NextRing ==
  ASSUME RingInv, [Next]_vars
  PROVE  RingInv' /\ [Sequence!Next]_<<base, Entries>>
<1> USE RingInvFacts
<1>0. RingFacts' => RingInv'
  BY DEF RingInv, RingFacts, TypeOK, Ring, At, Pos
<1>1. ASSUME NEW e \in Entry, NEW refused \in BOOLEAN, Offer(e, refused)
      PROVE  RingInv' /\ [Sequence!Next]_<<base, Entries>>
  BY <1>0, <1>1, OfferEffect DEF Sequence!Next, Sequence!Offer
<1>2. ASSUME NEW ix \in 1 .. MaxIdx, NEW d \in 0 .. count, Delete(ix, d)
      PROVE  RingInv' /\ [Sequence!Next]_<<base, Entries>>
  <2>1. RingInv' /\ base' = base /\ Entries' = SubSeq(Entries, 1, count - d)
    BY <1>0, <1>2, DeleteEffect
  <2>2. count - d \in 0 .. Len(Entries)
    BY EntriesAre DEF RingFacts
  <2> QED BY <2>1, <2>2 DEF Sequence!Next, Sequence!Pop
<1>3. CASE Poll
  BY <1>0, <1>3, PollEffect DEF Sequence!Next, Sequence!Poll
<1>4. ASSUME NEW ix \in 1 .. MaxIdx, LoadFromSnapshot(ix)
      PROVE  RingInv' /\ [Sequence!Next]_<<base, Entries>>
  <2>1. RingInv' /\ base' \in Nat /\ base' >= base + count /\ Entries' = <<>>
    BY <1>0, <1>4, LoadEffect
  <2>2. Len(Entries) = count
    BY EntriesAre
  <2> QED BY <2>1, <2>2 DEF Sequence!Next, Sequence!Load
<1>5. CASE UNCHANGED vars
  BY <1>5 DEF vars, RingInv, TypeOK, Ring, At, Entries
<1> QED BY <1>1, <1>2, <1>3, <1>4, <1>5 DEF Next

\* The c entries from f on, read from the j-th until the end or the edge of the array.
Piece(n, f, c, j, i, b, m) ==
  /\ n \in Nat \ {0} /\ f \in 0 .. n - 1 /\ c \in 0 .. n /\ j \in 0 .. c - 1
  /\ i = Pos(f, j, n) /\ b = Pos(f, c, n)
  /\ m = IF i < b THEN b - i ELSE n - i

LiesThere(n, f, c, j, i, m) ==
  /\ m \in 1 .. c - j /\ (f = 0 => m = c - j)
  /\ \A k \in 1 .. m : i + k - 1 \in 0 .. n - 1 /\ Pos(f, j + k - 1, n) = i + k - 1

LEMMA OnePiece ==
  ASSUME NEW n, NEW f, NEW c, NEW j, NEW i, NEW b, NEW m, Piece(n, f, c, j, i, b, m)
  PROVE  LiesThere(n, f, c, j, i, m)
<1> USE DEF Piece
<1>1. i \in 0 .. n - 1 /\ i = IF f + j < n THEN f + j ELSE f + j - n
  <2>1. j \in 0 .. n
    OBVIOUS
  <2> QED BY <2>1, Place
<1>2. b \in 0 .. n - 1 /\ b = IF f + c < n THEN f + c ELSE f + c - n
  BY Place
<1>3. m \in 1 .. c - j /\ m \in 1 .. n - i
  <2>1. CASE f + c < n
    <3>1. b = f + c /\ i = f + j
      BY <1>1, <1>2, <2>1
    <3> QED BY <1>1, <1>2, <3>1
  <2>2. CASE ~(f + c < n) /\ f + j < n
    <3>1. b = f + c - n /\ i = f + j /\ ~(i < b)
      BY <1>1, <1>2, <2>2
    <3> QED BY <1>1, <1>2, <2>2, <3>1
  <2>3. CASE ~(f + c < n) /\ ~(f + j < n)
    <3>1. b = f + c - n /\ i = f + j - n /\ i < b
      BY <1>1, <1>2, <2>3
    <3> QED BY <1>1, <1>2, <3>1
  <2> QED BY <2>1, <2>2, <2>3
<1>4. f = 0 => m = c - j
  <2>1. CASE c < n
    BY <1>1, <1>2, <2>1
  <2>2. CASE c = n
    BY <1>1, <1>2, <2>2
  <2> QED BY <2>1, <2>2
<1>5. ASSUME NEW k \in 1 .. m
      PROVE  i + k - 1 \in 0 .. n - 1 /\ Pos(f, j + k - 1, n) = i + k - 1
  <2> PICK l : l = j + k - 1
    OBVIOUS
  <2>1. l \in 0 .. n /\ i + k - 1 \in 0 .. n - 1
    BY <1>1, <1>3
  <2>2. Pos(f, l, n) = IF f + l < n THEN f + l ELSE f + l - n
    BY <2>1, Place
  <2> QED BY <1>1, <1>3, <2>1, <2>2
<1> QED BY <1>3, <1>4, <1>5, Zenon DEF LiesThere

\* What log_get_from_idx gives for the entry after the first j.
LEMMA ReadsOnePiece ==
  ASSUME RingFacts, NEW j \in 0 .. count - 1
  PROVE  LET got == GetFromIdx(base + 1 + j)
             rest == SubSeq(Entries, j + 1, count)
         IN  /\ Len(got) \in 1 .. Len(rest)
             /\ got = SubSeq(rest, 1, Len(got))
             /\ front = 0 => got = rest
<1>0. PICK n, f, c, i, b, m, s :
      /\ n = size /\ f = front /\ c = count /\ i = Pos(front, j, size) /\ b = back
      /\ m = IF i < b THEN b - i ELSE n - i
      /\ s = slots
  OBVIOUS
<1>1. /\ n \in Nat \ {0} /\ f \in 0 .. n - 1 /\ c \in 0 .. n /\ j \in 0 .. c - 1
      /\ base \in Nat /\ i = Pos(f, j, n) /\ b = Pos(f, c, n)
      /\ s \in [0 .. n - 1 -> Entry \cup {Blank}]
      /\ \A k \in 0 .. c - 1 : s[Pos(f, k, n)] # Blank
  BY <1>0 DEF RingFacts
<1>2. /\ m \in 1 .. c - j /\ (f = 0 => m = c - j)
      /\ \A k \in 1 .. m : i + k - 1 \in 0 .. n - 1 /\ Pos(f, j + k - 1, n) = i + k - 1
  <2>1. m = IF i < b THEN b - i ELSE n - i
    BY <1>0
  <2>2. Piece(n, f, c, j, i, b, m)
    BY <1>1, <2>1, Zenon DEF Piece
  <2>3. LiesThere(n, f, c, j, i, m)
    BY <2>2, OnePiece, Zenon
  <2> QED BY <2>3, Zenon DEF LiesThere
<1>9. PICK got, r, rest :
      got = GetFromIdx(base + 1 + j) /\ r = Entries /\ rest = SubSeq(Entries, j + 1, count)
  OBVIOUS
<1>3. got = [k \in 1 .. m |-> s[i + k - 1]]
  <2>1. front + (base + 1 + j) - 1 - base = front + j
    BY <1>0, <1>1
  <2>2. ~(base + 1 + j > CurrentIdx) /\ ~(base + 1 + j <= base)
    BY <1>0, <1>1 DEF CurrentIdx
  <2>3. (front + (base + 1 + j) - 1 - base) % size = i
    BY <1>0, <2>1 DEF Pos
  <2> QED BY <1>0, <1>9, <2>2, <2>3 DEF GetFromIdx
<1>4. /\ r \in Seq(Entry) /\ Len(r) = c
      /\ \A k \in 1 .. c : r[k] = s[Pos(f, (k - 1), n)]
  BY <1>0, <1>9, EntriesAre, RingInvFacts
<1>5. /\ rest \in Seq(Entry) /\ Len(rest) = c - j
      /\ \A k \in 1 .. c - j : rest[k] = s[Pos(f, j + k - 1, n)]
  <2>1. /\ j + 1 \in Int /\ c \in Int /\ j + 1 <= c /\ c - (j + 1) + 1 = c - j
        /\ \A k \in j + 1 .. c : k \in 1 .. Len(r)
    BY <1>1, <1>4
  <2>2. \A k \in j + 1 .. c : r[k] \in Entry
    BY <1>4, <2>1, ElementOfSeq
  <2>3. /\ SubSeq(r, j + 1, c) \in Seq(Entry)
        /\ Len(SubSeq(r, j + 1, c)) = IF j + 1 <= c THEN c - (j + 1) + 1 ELSE 0
        /\ \A k \in 1 .. c - (j + 1) + 1 : SubSeq(r, j + 1, c)[k] = r[j + 1 + k - 1]
    BY <2>1, <2>2, SubSeqProperties
  <2>4. rest = SubSeq(r, j + 1, c)
    BY <1>0, <1>9
  <2>5. \A k \in 1 .. c - j : j + 1 + k - 1 \in 1 .. c /\ j + 1 + k - 1 - 1 = j + k - 1
    BY <1>1
  <2>6. \A k \in 1 .. c - j : r[j + 1 + k - 1] = s[Pos(f, j + k - 1, n)]
    BY <1>4, <2>5
  <2>7. rest \in Seq(Entry) /\ Len(rest) = c - j
    BY <2>1, <2>3, <2>4
  <2> QED BY <2>1, <2>3, <2>4, <2>6, <2>7
<1>6. /\ got \in Seq(Entry) /\ Len(got) = m
      /\ \A k \in 1 .. m : got[k] = rest[k]
  <2>1. \A k \in 1 .. m : k \in 1 .. c - j
    BY <1>1, <1>2
  <2>2. ASSUME NEW k \in 1 .. m PROVE s[i + k - 1] = rest[k] /\ rest[k] \in Entry
    BY <1>2, <1>5, <2>1, ElementOfSeq
  <2>3. m \in Nat /\ got \in [1 .. m -> Entry]
    BY <1>1, <1>2, <1>3, <2>2
  <2>4. got \in Seq(Entry) /\ Len(got) = m
    BY <2>3, SeqDef, LenProperties
  <2> QED BY <1>3, <2>2, <2>4
<1>7. got = SubSeq(rest, 1, m)
  <2>1. /\ m \in Int /\ 1 \in Int /\ 1 <= m /\ m - 1 + 1 = m
        /\ \A k \in 1 .. m : k \in 1 .. Len(rest) /\ 1 + k - 1 = k
    BY <1>1, <1>2, <1>5
  <2>2. \A k \in 1 .. m : rest[k] \in Entry
    BY <1>5, <2>1, ElementOfSeq
  <2>3. /\ SubSeq(rest, 1, m) \in Seq(Entry)
        /\ Len(SubSeq(rest, 1, m)) = IF 1 <= m THEN m - 1 + 1 ELSE 0
        /\ \A k \in 1 .. m - 1 + 1 : SubSeq(rest, 1, m)[k] = rest[1 + k - 1]
    BY <2>1, <2>2, SubSeqProperties
  <2>4. /\ SubSeq(rest, 1, m) \in Seq(Entry) /\ Len(SubSeq(rest, 1, m)) = m
        /\ \A k \in 1 .. m : SubSeq(rest, 1, m)[k] = got[k]
    BY <1>6, <2>1, <2>3
  <2> QED BY <1>6, <2>4, SeqEqual
<1>8. f = 0 => got = rest
  BY <1>2, <1>5, <1>6, SeqEqual
<1> QED BY <1>0, <1>9, <1>2, <1>5, <1>6, <1>7, <1>8

LEMMA RingReads == RingInv => ReadsAreEntries
<1> SUFFICES ASSUME RingInv, NEW ix \in 1 .. MaxIdx
             PROVE  LET got == GetFromIdx(ix)
                        rest == SubSeq(Entries, ix - base, count)
                    IN  IF ix \in base + 1 .. CurrentIdx
                        THEN /\ Len(got) \in 1 .. Len(rest)
                             /\ got = SubSeq(rest, 1, Len(got))
                             /\ front = 0 => got = rest
                        ELSE got = <<>>
  BY DEF ReadsAreEntries
<1>1. RingFacts /\ base \in Nat /\ count \in Nat /\ ix \in Int
  <2>1. RingFacts
    BY RingInvFacts
  <2> QED BY <2>1, MaxIdxAssumption DEF RingFacts
<1>2. CASE ix \in base + 1 .. CurrentIdx
  <2> PICK j : j = ix - base - 1
    OBVIOUS
  <2>1. j \in 0 .. count - 1 /\ ix = base + 1 + j /\ ix - base = j + 1
    BY <1>1, <1>2 DEF CurrentIdx
  <2>2. LET got == GetFromIdx(base + 1 + j)
            rest == SubSeq(Entries, j + 1, count)
        IN  /\ Len(got) \in 1 .. Len(rest)
            /\ got = SubSeq(rest, 1, Len(got))
            /\ front = 0 => got = rest
    BY <1>1, <2>1, ReadsOnePiece
  <2> QED BY <1>2, <2>1, <2>2
<1>3. CASE ~(ix \in base + 1 .. CurrentIdx)
  <2>1. ix > CurrentIdx \/ ix <= base
    BY <1>1, <1>3 DEF CurrentIdx
  <2> QED BY <1>3, <2>1 DEF GetFromIdx
<1> QED BY <1>2, <1>3

----------------------------------------------------------------------------
\* __ensurecapacity, log_delete, log_poll and log_load_from_snapshot keep the two
\* ends of the array and its count together, and count nothing that was not written.
THEOREM EndsAgree == Spec => []Ring
<1>1. Init => RingInv
  BY InitRing, RingInvFacts
<1>2. RingInv /\ [Next]_vars => RingInv'
  BY NextRing
<1>3. RingInv => Ring
  BY DEF RingInv
<1> QED BY <1>1, <1>2, <1>3, PTL DEF Spec

\* log_get_from_idx gives live entries only, in order, at least one when there is one,
\* and all of them as long as the array starts at its first slot.
THEOREM ReadsGiveEntries == Spec => []ReadsAreEntries
<1>1. Init => RingInv
  BY InitRing, RingInvFacts
<1>2. RingInv /\ [Next]_vars => RingInv'
  BY NextRing
<1> QED BY <1>1, <1>2, RingReads, PTL DEF Spec

\* What raft_server.c sees of raft_log.c is a sequence after a base index: every call
\* of the array is one step of EntryLog or none.
THEOREM ArrayIsASequence == Spec => ImplementsEntryLog
<1>1. Init => RingInv /\ Sequence!Init
  BY InitRing, RingInvFacts DEF Sequence!Init
<1>2. RingInv /\ [Next]_vars => RingInv' /\ [Sequence!Next]_<<base, Entries>>
  BY NextRing
<1> QED BY <1>1, <1>2, PTL DEF Spec, ImplementsEntryLog, Sequence!Spec
----------------------------------------------------------------------------
(***************************************************************************)
(* The proxies of the db service, for any clients, groups and keys, and    *)
(* however many writes a client sends before it waits.                     *)
(***************************************************************************)
Call == {Idle} \cup [step : {"group", "read", "answer"}, at : Host, key : DbKey, write : BOOLEAN]
Mail == [from : Client, n : Nat, key : DbKey, write : BOOLEAN]
Letters == [Host -> [Child -> Seq(Mail)]]
Stores == [Host -> [DbKey -> Seq(Client \X Nat)]]

ProxyTypes ==
  /\ call \in [Client -> Call] /\ asks \in [Client -> Nat]
  /\ asked \in [Client -> [DbKey -> SUBSET Nat]]
  /\ mail \in Letters /\ store \in Stores /\ IDX \in [Host -> 2 .. Addrs]

\* A client has at most one read on its way, and waits for it; writes are on their way to
\* the first child of the master alone.
OneRead ==
  \A s, t \in Host, i, j \in Child :
    \A p \in DOMAIN mail[s][i], q \in DOMAIN mail[t][j] :
      /\ ~mail[s][i][p].write => call[mail[s][i][p].from].step = "read"
      /\ ~mail[s][i][p].write /\ ~mail[t][j][q].write /\ mail[s][i][p].from = mail[t][j][q].from
           => s = t /\ i = j /\ p = q
FirstChild ==
  \A s \in Host, i \in Child : \A p \in DOMAIN mail[s][i] :
    mail[s][i][p].write => i = 1 /\ s = MasterOf(mail[s][i][p].key)

ProxyInv ==
  /\ ProxyTypes /\ OneRead /\ FirstChild
  /\ \A c \in Client : call[c].step \in {"read", "answer"} => ~call[c].write
  /\ \A c \in Client, k \in DbKey : \A n \in asked[c][k] : n <= asks[c]
  /\ WritesInOrder

\* Slot::find_group of ldbtool.cc finds a group, and the group has a master.
LEMMA MasterIs == ASSUME NEW k PROVE MasterOf(k) \in Host
<1> DEFINE val == SlotOf[k]
           from == {x \in DOMAIN SlotGroup : val <= x}
           S == IF from = {} THEN DOMAIN SlotGroup ELSE from
           first == CHOOSE x \in S : \A y \in S : x <= y
<1>1. S \subseteq Nat /\ S # {} /\ S \subseteq DOMAIN SlotGroup
  BY SlotsAssumption
<1>2. first \in S
  <2> HIDE DEF S
  <2>1. \E x \in S : \A y \in S : x <= y
    BY <1>1, LeastNumber
  <2> QED BY <2>1
<1>3. SlotGroup[first] \in DOMAIN Master
  BY <1>1, <1>2, SlotsAssumption
<1>4. FindGroup(val) = SlotGroup[first]
  BY DEF FindGroup
<1> HIDE DEF first
<1> QED BY <1>3, <1>4 DEF MasterOf, Host

LEMMA TailOf ==
  ASSUME NEW S, NEW q \in Seq(S), q # <<>>
  PROVE  /\ Tail(q) \in Seq(S) /\ Head(q) = q[1] /\ q[1] \in S /\ 1 \in DOMAIN q
         /\ \A p \in DOMAIN Tail(q) : p + 1 \in DOMAIN q /\ Tail(q)[p] = q[p + 1] /\ p \in Nat /\ p > 0
         /\ \A p \in DOMAIN q : p # 1 => p - 1 \in DOMAIN Tail(q) /\ Tail(q)[p - 1] = q[p]
<1>1. Len(q) \in Nat \ {0}
  OBVIOUS
<1>2. /\ Tail(q) \in Seq(S) /\ Len(Tail(q)) = Len(q) - 1 /\ Head(q) = q[1]
      /\ \A p \in 1 .. Len(Tail(q)) : Tail(q)[p] = q[p + 1]
  BY HeadTailProperties
<1> QED BY <1>1, <1>2

LEMMA AppendOf ==
  ASSUME NEW S, NEW q \in Seq(S), NEW x \in S
  PROVE  /\ Append(q, x) \in Seq(S)
         /\ DOMAIN Append(q, x) = DOMAIN q \cup {Len(q) + 1}
         /\ Append(q, x)[Len(q) + 1] = x
         /\ \A p \in DOMAIN q : Append(q, x)[p] = q[p] /\ p < Len(q) + 1
OBVIOUS

LEMMA MasterStays == \A k : MasterOf(k)' = MasterOf(k)
BY DEF MasterOf, FindGroup

LEMMA MailIs ==
  ASSUME ProxyTypes, NEW s \in Host, NEW i \in Child
  PROVE  /\ mail[s][i] \in Seq(Mail)
         /\ \A p \in DOMAIN mail[s][i] :
              /\ mail[s][i][p] \in Mail /\ mail[s][i][p].from \in Client /\ mail[s][i][p].n \in Nat
              /\ mail[s][i][p].key \in DbKey /\ mail[s][i][p].write \in BOOLEAN /\ p \in Nat /\ p > 0
<1>1. mail[s][i] \in Seq(Mail)
  BY DEF ProxyTypes, Letters
<1>2. ASSUME NEW p \in DOMAIN mail[s][i] PROVE mail[s][i][p] \in Mail /\ p \in Nat /\ p > 0
  <2> DEFINE q == mail[s][i]
  <2>1. q \in Seq(Mail) /\ p \in DOMAIN q
    BY <1>1
  <2> HIDE DEF q
  <2>2. q[p] \in Mail /\ p \in Nat /\ p > 0
    BY <2>1
  <2> QED BY <2>2 DEF q
<1> QED BY <1>1, <1>2 DEF Mail

LEMMA OrderIs ==
  /\ WritesInOrder <=>
       \A c \in Client, k \in DbKey :
         /\ Ordered(store[MasterOf(k)][k], mail[MasterOf(k)][1], Untold(c, k), asked[c][k], c, k)
         /\ \A s \in Host \ {MasterOf(k)} : store[s][k] = <<>>
  /\ WritesInOrder' <=>
       \A c \in Client, k \in DbKey :
         /\ Ordered(store'[MasterOf(k)][k], mail'[MasterOf(k)][1], Untold(c, k)', asked'[c][k], c, k)
         /\ \A s \in Host \ {MasterOf(k)} : store'[s][k] = <<>>
BY MasterStays DEF WritesInOrder, DbKey, Host, Ordered, Done, Sent

LEMMA ProxyStarts == ProxyInit => ProxyInv
<1> SUFFICES ASSUME ProxyInit PROVE ProxyInv
  OBVIOUS
<1>1. ProxyTypes
  BY SlotsAssumption DEF ProxyInit, ProxyTypes, Call, Letters, Stores
<1>2. OneRead /\ FirstChild
  BY DEF ProxyInit, OneRead, FirstChild
<1>3. \A c \in Client : call[c].step = "idle"
  BY DEF ProxyInit, Idle
<1>4. \A c \in Client, k \in DbKey : asked[c][k] = {}
  BY DEF ProxyInit
<1>5. 1 \in Child
  BY SlotsAssumption DEF Child
<1>6. ASSUME NEW c \in Client, NEW k \in DbKey
      PROVE  /\ Ordered(store[MasterOf(k)][k], mail[MasterOf(k)][1], Untold(c, k), asked[c][k], c, k)
             /\ \A s \in Host : store[s][k] = <<>>
  <2>1. /\ store[MasterOf(k)][k] = <<>> /\ mail[MasterOf(k)][1] = <<>> /\ Untold(c, k) = {}
        /\ \A s \in Host : store[s][k] = <<>>
    BY <1>3, <1>5, MasterIs DEF ProxyInit, Untold
  <2> QED BY <1>4, <2>1 DEF Ordered, Done, Sent
<1>7. WritesInOrder
  BY <1>6, OrderIs
<1> QED BY <1>1, <1>2, <1>3, <1>4, <1>7 DEF ProxyInv

LEMMA AskKeeps ==
  ASSUME ProxyInv, NEW c \in Client, NEW s \in Host, NEW k \in DbKey, NEW write \in BOOLEAN,
         Ask(c, s, k, write)
  PROVE  ProxyInv'
<1> DEFINE rec == [step |-> "group", at |-> s, key |-> k, write |-> write]
           now == IF write THEN asked[c][k] \cup {asks[c] + 1} ELSE asked[c][k]
<1>1. /\ call[c] = Idle /\ call' = [call EXCEPT ![c] = rec]
      /\ asks' = [asks EXCEPT ![c] = asks[c] + 1]
      /\ asked' = [asked EXCEPT ![c][k] = now]
      /\ mail' = mail /\ IDX' = IDX /\ store' = store
  BY DEF Ask
<1>2. call[c].step = "idle" /\ rec \in Call /\ rec.step = "group" /\ rec.key = k /\ rec.write = write
  BY <1>1 DEF Idle, Call
<1> HIDE DEF rec
<1>3. ProxyTypes
  BY DEF ProxyInv
<1>4. /\ call' \in [Client -> Call] /\ call'[c] = rec /\ \A d \in Client \ {c} : call'[d] = call[d]
  BY <1>1, <1>2, <1>3 DEF ProxyTypes
<1>5. /\ asks' \in [Client -> Nat] /\ asks'[c] = asks[c] + 1 /\ asks[c] \in Nat
      /\ \A d \in Client \ {c} : asks'[d] = asks[d]
  BY <1>1, <1>3 DEF ProxyTypes
<1>6. now \in SUBSET Nat
  BY <1>3, <1>5 DEF ProxyTypes
<1> HIDE DEF now
<1>7. /\ asked' \in [Client -> [DbKey -> SUBSET Nat]] /\ asked'[c][k] = now
      /\ \A d \in Client, l \in DbKey : <<d, l>> # <<c, k>> => asked'[d][l] = asked[d][l]
  BY <1>1, <1>3, <1>6 DEF ProxyTypes
<1>8. ProxyTypes'
  BY <1>1, <1>3, <1>4, <1>5, <1>7 DEF ProxyTypes
<1>9. OneRead'
  <2> SUFFICES ASSUME NEW r \in Host, NEW i \in Child, NEW p \in DOMAIN mail[r][i], ~mail[r][i][p].write
               PROVE  call'[mail[r][i][p].from].step = "read"
    BY <1>1 DEF ProxyInv, OneRead
  <2>1. call[mail[r][i][p].from].step = "read"
    BY DEF ProxyInv, OneRead
  <2>2. mail[r][i][p].from \in Client
    BY <1>3, MailIs
  <2> QED BY <1>2, <1>4, <2>1, <2>2
<1>10. FirstChild'
  BY <1>1, MasterStays DEF ProxyInv, FirstChild
<1>11. \A d \in Client : call'[d].step \in {"read", "answer"} => ~call'[d].write
  BY <1>2, <1>4 DEF ProxyInv
<1>12. \A d \in Client, l \in DbKey : \A n \in asked[d][l] : n \in Nat /\ n <= asks[d]
  BY <1>3 DEF ProxyInv, ProxyTypes
<1>13. \A d \in Client, l \in DbKey : \A n \in asked'[d][l] : n <= asks'[d]
  BY <1>5, <1>7, <1>12 DEF now
<1>14. WritesInOrder'
  <2> SUFFICES ASSUME NEW d \in Client, NEW l \in DbKey
               PROVE  /\ Ordered(store[MasterOf(l)][l], mail[MasterOf(l)][1], Untold(d, l)', asked'[d][l], d, l)
                      /\ \A r \in Host \ {MasterOf(l)} : store[r][l] = <<>>
    BY <1>1, OrderIs
  <2> DEFINE st == store[MasterOf(l)][l]
             ml == mail[MasterOf(l)][1]
  <2>1. /\ Ordered(st, ml, Untold(d, l), asked[d][l], d, l)
        /\ \A r \in Host \ {MasterOf(l)} : store[r][l] = <<>>
    BY OrderIs DEF ProxyInv
  <2> HIDE DEF st, ml
  <2>2. CASE d # c \/ ~write \/ l # k
    <3>1. Untold(d, l)' = Untold(d, l)
      BY <1>2, <1>4, <1>5, <2>2 DEF Untold
    <3>2. asked'[d][l] = asked[d][l]
      BY <1>7, <2>2 DEF now
    <3> QED BY <2>1, <3>1, <3>2 DEF st, ml
  <2>3. CASE d = c /\ write /\ l = k
    <3>1. Untold(d, l) = {} /\ Untold(d, l)' = {asks[c] + 1}
      BY <1>2, <1>4, <1>5, <2>3 DEF Untold
    <3>2. asked'[d][l] = asked[d][l] \cup {asks[c] + 1}
      BY <1>7, <2>3 DEF now
    <3>3. \A n \in asked[d][l] : n < asks[c] + 1
      BY <1>5, <1>12, <2>3
    <3>4. Ordered(st, ml, {asks[c] + 1}, asked[d][l] \cup {asks[c] + 1}, d, l)
      BY <2>1, <3>1, <3>3 DEF Ordered
    <3> QED BY <2>1, <3>1, <3>2, <3>4 DEF st, ml
  <2> QED BY <2>2, <2>3
<1> QED BY <1>8, <1>9, <1>10, <1>11, <1>13, <1>14 DEF ProxyInv

\* A record of a call, at another step or another server.
LEMMA CallIs ==
  ASSUME NEW r \in Call, r.step # "idle"
  PROVE  r.at \in Host /\ r.key \in DbKey /\ r.write \in BOOLEAN
BY DEF Call, Idle

LEMMA CallSteps ==
  ASSUME NEW r \in Call, r.step # "idle", NEW x \in {"group", "read", "answer"},
         NEW q, q = [r EXCEPT !.step = x]
  PROVE  q \in Call /\ q.step = x /\ q.key = r.key /\ q.write = r.write
<1>1. r \in [step : {"group", "read", "answer"}, at : Host, key : DbKey, write : BOOLEAN]
  BY DEF Call, Idle
<1> QED BY <1>1 DEF Call

LEMMA CallMoves ==
  ASSUME NEW r \in Call, r.step # "idle", NEW s \in Host, NEW q, q = [r EXCEPT !.at = s]
  PROVE  q \in Call /\ q.step = r.step /\ q.key = r.key /\ q.write = r.write
<1>1. r \in [step : {"group", "read", "answer"}, at : Host, key : DbKey, write : BOOLEAN]
  BY DEF Call, Idle
<1> QED BY <1>1 DEF Call

LEMMA PutIs ==
  ASSUME NEW A, NEW B, NEW S, NEW f \in [A -> [B -> S]], NEW m \in A, NEW i \in B, NEW v \in S,
         NEW g, g = [f EXCEPT ![m][i] = v]
  PROVE  /\ g \in [A -> [B -> S]] /\ g[m][i] = v
         /\ \A s \in A, j \in B : <<s, j>> # <<m, i>> => g[s][j] = f[s][j]
OBVIOUS

LEMMA SentMore ==
  ASSUME NEW st, NEW ml \in Seq(Mail), NEW un, NEW all, NEW c, NEW k, NEW x \in Mail,
         Ordered(st, ml, un, all, c, k)
  PROVE  IF x.write /\ x.from = c /\ x.key = k
         THEN un = {x.n} => Ordered(st, Append(ml, x), {}, all, c, k)
         ELSE Ordered(st, Append(ml, x), un, all, c, k)
<1> DEFINE new == Append(ml, x)
           top == Len(ml) + 1
<1>1. /\ new \in Seq(Mail) /\ DOMAIN new = DOMAIN ml \cup {top} /\ new[top] = x /\ top \notin DOMAIN ml
      /\ \A p \in DOMAIN ml : new[p] = ml[p] /\ p < top /\ ~(top < p)
  OBVIOUS
<1>2. ~(top < top)
  OBVIOUS
<1> HIDE DEF new, top
<1>3. CASE x.write /\ x.from = c /\ x.key = k
  <2> SUFFICES ASSUME un = {x.n} PROVE Ordered(st, new, {}, all, c, k)
    BY <1>3 DEF new
  <2>1. Sent(new, c, k) = Sent(ml, c, k) \cup {top}
    BY <1>1, <1>3 DEF Sent
  <2>2. {new[i].n : i \in Sent(new, c, k)} = {ml[i].n : i \in Sent(ml, c, k)} \cup {x.n}
    BY <1>1, <2>1 DEF Sent
  <2>3. \A i, j \in Sent(new, c, k) : i < j => new[i].n < new[j].n
    <3>1. \A i \in Sent(ml, c, k) : ml[i].n < x.n
      BY DEF Ordered
    <3>2. \A i, j \in Sent(ml, c, k) : i < j => ml[i].n < ml[j].n
      BY DEF Ordered
    <3>3. \A i \in Sent(ml, c, k) : i \in DOMAIN ml
      BY DEF Sent
    <3> QED BY <1>1, <1>2, <2>1, <3>1, <3>2, <3>3
  <2> QED BY <2>2, <2>3 DEF Ordered
<1>4. CASE ~(x.write /\ x.from = c /\ x.key = k)
  <2>1. Sent(new, c, k) = Sent(ml, c, k) /\ \A i \in Sent(ml, c, k) : new[i] = ml[i]
    BY <1>1, <1>4 DEF Sent
  <2>2. {new[i].n : i \in Sent(new, c, k)} = {ml[i].n : i \in Sent(ml, c, k)}
    BY <2>1
  <2>3. \A i, j \in Sent(new, c, k) : i < j => new[i].n < new[j].n
    BY <2>1 DEF Ordered
  <2> QED BY <1>4, <2>2, <2>3 DEF Ordered, new
<1> QED BY <1>3, <1>4

\* The first message is taken.
LEMMA SentLess ==
  ASSUME NEW st, NEW ml \in Seq(Mail), ml # <<>>, NEW un, NEW all, NEW c, NEW k,
         NEW old \in Seq(Client \X Nat), st = old, c \in Client,
         Ordered(st, ml, un, all, c, k)
  PROVE  IF ml[1].write /\ ml[1].from = c /\ ml[1].key = k
         THEN Ordered(Append(st, <<c, ml[1].n>>), Tail(ml), un, all, c, k)
         ELSE Ordered(st, Tail(ml), un, all, c, k)
<1> DEFINE new == Tail(ml)
           x == ml[1]
           hit == x.write /\ x.from = c /\ x.key = k
<1>1. /\ x \in Mail /\ 1 \in DOMAIN ml
      /\ \A p \in DOMAIN new : p + 1 \in DOMAIN ml /\ new[p] = ml[p + 1] /\ p \in Nat /\ p > 0
      /\ \A p \in DOMAIN ml : p # 1 => p - 1 \in DOMAIN new /\ new[p - 1] = ml[p]
      /\ \A p \in DOMAIN ml : p \in Nat /\ p > 0
  BY TailOf
<1> HIDE DEF new
<1>2. \A p \in Sent(new, c, k) : p + 1 \in Sent(ml, c, k) /\ new[p] = ml[p + 1] /\ p \in Nat /\ p > 0
  BY <1>1 DEF Sent
<1>3. \A p \in Sent(ml, c, k) : p # 1 => p - 1 \in Sent(new, c, k) /\ new[p - 1] = ml[p]
  BY <1>1 DEF Sent
<1>4. \A i, j \in Sent(new, c, k) : i < j => new[i].n < new[j].n
  <2>1. \A i, j \in Sent(ml, c, k) : i < j => ml[i].n < ml[j].n
    BY DEF Ordered
  <2>2. ASSUME NEW i \in Sent(new, c, k), NEW j \in Sent(new, c, k), i < j
        PROVE  new[i].n < new[j].n
    <3>1. i + 1 < j + 1
      BY <1>2, <2>2
    <3> QED BY <1>2, <2>1, <3>1
  <2> QED BY <2>2
<1>5. {new[i].n : i \in Sent(new, c, k)} = {ml[i].n : i \in Sent(ml, c, k) \ {1}}
  <2>1. \A p \in Sent(new, c, k) : p + 1 \in Sent(ml, c, k) \ {1} /\ new[p] = ml[p + 1]
    BY <1>2
  <2>2. \A p \in Sent(ml, c, k) \ {1} : p - 1 \in Sent(new, c, k) /\ new[p - 1] = ml[p]
    BY <1>3
  <2> QED BY <2>1, <2>2
<1>6. 1 \in Sent(ml, c, k) <=> hit
  BY <1>1 DEF Sent
<1>7. CASE hit
  <2> DEFINE more == Append(st, <<c, x.n>>)
             top == Len(st) + 1
             later == {ml[i].n : i \in Sent(ml, c, k) \ {1}}
  <2>1. x.n \in Nat
    BY <1>1 DEF Mail
  <2>2. /\ DOMAIN more = DOMAIN st \cup {top} /\ more[top] = <<c, x.n>> /\ top \notin DOMAIN st /\ ~(top < top)
        /\ \A p \in DOMAIN st : more[p] = st[p] /\ p < top /\ ~(top < p)
    BY <2>1, AppendOf
  <2> HIDE DEF more, top, x
  <2>3. more[top][1] = c /\ more[top][2] = x.n
    BY <2>2
  <2>4. /\ Done(more, c) = Done(st, c) \cup {top}
        /\ \A i \in Done(st, c) : more[i] = st[i] /\ i \in DOMAIN st
    BY <2>2, <2>3 DEF Done
  <2>5. {more[i][2] : i \in Done(more, c)} = {st[i][2] : i \in Done(st, c)} \cup {x.n}
    BY <2>3, <2>4
  <2>6. {ml[i].n : i \in Sent(ml, c, k)} = later \cup {x.n}
    BY <1>6, <1>7 DEF x
  <2>7. \A n \in later : x.n < n
    <3>1. \A j \in Sent(ml, c, k) \ {1} : 1 < j
      BY <1>1 DEF Sent
    <3> QED BY <1>6, <1>7, <3>1 DEF Ordered, x
  <2>8. \A i, j \in Done(more, c) : i < j => more[i][2] < more[j][2]
    <3>1. \A i \in Done(st, c) : st[i][2] < x.n
      BY <2>6 DEF Ordered
    <3>2. \A i, j \in Done(st, c) : i < j => st[i][2] < st[j][2]
      BY DEF Ordered
    <3> QED BY <2>2, <2>3, <2>4, <3>1, <3>2
  <2>9. {new[i].n : i \in Sent(new, c, k)} = later
    BY <1>5
  <2> HIDE DEF later
  <2>10. Ordered(more, new, un, all, c, k)
    BY <1>4, <2>5, <2>6, <2>7, <2>8, <2>9 DEF Ordered
  <2> QED BY <1>7, <2>10 DEF more, new, x
<1>8. CASE ~hit
  <2>1. {new[i].n : i \in Sent(new, c, k)} = {ml[i].n : i \in Sent(ml, c, k)}
    BY <1>5, <1>6, <1>8
  <2>2. Ordered(st, new, un, all, c, k)
    BY <1>4, <2>1 DEF Ordered
  <2> QED BY <1>8, <2>2 DEF new
<1> QED BY <1>7, <1>8

\* A write of another client is done.
LEMMA DoneBeside ==
  ASSUME NEW st \in Seq(Client \X Nat), NEW ml, NEW un, NEW all, NEW c, NEW k,
         NEW d \in Client, d # c, NEW n \in Nat, Ordered(st, ml, un, all, c, k)
  PROVE  Ordered(Append(st, <<d, n>>), ml, un, all, c, k)
<1> DEFINE more == Append(st, <<d, n>>)
           top == Len(st) + 1
<1>1. /\ DOMAIN more = DOMAIN st \cup {top} /\ more[top] = <<d, n>>
      /\ \A p \in DOMAIN st : more[p] = st[p]
  BY AppendOf
<1> HIDE DEF more, top
<1>2. more[top][1] # c
  BY <1>1
<1>3. Done(more, c) = Done(st, c) /\ \A i \in Done(st, c) : more[i] = st[i]
  BY <1>1, <1>2 DEF Done
<1>4. {more[i][2] : i \in Done(more, c)} = {st[i][2] : i \in Done(st, c)}
  BY <1>3
<1>5. \A i, j \in Done(more, c) : i < j => more[i][2] < more[j][2]
  BY <1>3 DEF Ordered
<1>6. Ordered(more, ml, un, all, c, k)
  BY <1>4, <1>5 DEF Ordered
<1> QED BY <1>6 DEF more

\* What is written of a call, and what the first child is sent, changes for one client and
\* one server.
LEMMA ForwardKeeps ==
  ASSUME ProxyInv, NEW c \in Client, call[c].step = "group",
         call' = [call EXCEPT ![c].at = MasterOf(call[c].key)],
         UNCHANGED <<mail, asks, asked, IDX, store>>
  PROVE  ProxyInv'
<1> DEFINE rec == [call[c] EXCEPT !.at = MasterOf(call[c].key)]
<1>1. ProxyTypes /\ call[c] \in Call
  BY DEF ProxyInv, ProxyTypes
<1>2. call' = [call EXCEPT ![c] = rec]
  OBVIOUS
<1> DEFINE m == MasterOf(call[c].key)
<1>3. rec \in Call /\ rec.step = call[c].step /\ rec.key = call[c].key /\ rec.write = call[c].write
  <2>1. m \in Host /\ rec = [call[c] EXCEPT !.at = m] /\ call[c].step # "idle"
    BY MasterIs
  <2> HIDE DEF m, rec
  <2> QED BY <1>1, <2>1, CallMoves
<1> HIDE DEF rec
<1>4. /\ call' \in [Client -> Call]
      /\ \A d \in Client : /\ call'[d].step = call[d].step /\ (d # c => call'[d] = call[d])
                           /\ d = c => call'[d].key = call[d].key /\ call'[d].write = call[d].write
  BY <1>1, <1>2, <1>3 DEF ProxyTypes
<1>5. ProxyTypes'
  BY <1>1, <1>4 DEF ProxyTypes
<1>6. OneRead'
  <2> SUFFICES ASSUME NEW r \in Host, NEW i \in Child, NEW p \in DOMAIN mail[r][i], ~mail[r][i][p].write
               PROVE  call'[mail[r][i][p].from].step = "read"
    BY DEF ProxyInv, OneRead
  <2>1. call[mail[r][i][p].from].step = "read"
    BY DEF ProxyInv, OneRead
  <2>2. mail[r][i][p].from \in Client
    BY <1>1, MailIs
  <2> QED BY <1>4, <2>1, <2>2
<1>7. FirstChild'
  BY MasterStays DEF ProxyInv, FirstChild
<1>8. \A d \in Client, k \in DbKey : Untold(d, k)' = Untold(d, k)
  BY <1>4 DEF Untold
<1>9. WritesInOrder'
  BY <1>8, OrderIs DEF ProxyInv
<1>10. \A d \in Client : call'[d].step \in {"read", "answer"} => ~call'[d].write
  BY <1>4 DEF ProxyInv
<1> QED BY <1>5, <1>6, <1>7, <1>9, <1>10 DEF ProxyInv

\* One more message for a child.
OneMore(m, i, x) ==
  /\ mail' \in Letters /\ mail'[m][i] = Append(mail[m][i], x)
  /\ \A s \in Host, j \in Child : <<s, j>> # <<m, i>> => mail'[s][j] = mail[s][j]
  /\ \A s \in Host, j \in Child : \A p \in DOMAIN mail'[s][j] :
       IF p \in DOMAIN mail[s][j] THEN mail'[s][j][p] = mail[s][j][p]
       ELSE s = m /\ j = i /\ p = Len(mail[m][i]) + 1 /\ mail'[s][j][p] = x

LEMMA Posted ==
  ASSUME ProxyTypes, NEW m \in Host, NEW i \in Child, NEW x \in Mail, NEW box,
         mail' = [mail EXCEPT ![m][i] = box], box = Append(mail[m][i], x)
  PROVE  OneMore(m, i, x)
<1> DEFINE ml == mail[m][i]
           new == Append(ml, x)
<1>1. ml \in Seq(Mail)
  BY MailIs
<1> HIDE DEF ml
<1>2. /\ new \in Seq(Mail) /\ DOMAIN new = DOMAIN ml \cup {Len(ml) + 1} /\ new[Len(ml) + 1] = x
      /\ \A p \in DOMAIN ml : new[p] = ml[p]
  BY <1>1, AppendOf
<1>3. mail' = [mail EXCEPT ![m][i] = box] /\ box = new /\ mail \in [Host -> [Child -> Seq(Mail)]]
  BY DEF ml, ProxyTypes, Letters
<1> HIDE DEF new
<1>4. /\ mail' \in Letters /\ mail'[m][i] = new
      /\ \A s \in Host, j \in Child : <<s, j>> # <<m, i>> => mail'[s][j] = mail[s][j]
  <2>1. new \in Seq(Mail)
    BY <1>2
  <2> QED BY <1>3, <2>1, PutIs DEF Letters
<1>5. ASSUME NEW s \in Host, NEW j \in Child, NEW p \in DOMAIN mail'[s][j]
      PROVE  IF p \in DOMAIN mail[s][j] THEN mail'[s][j][p] = mail[s][j][p]
             ELSE s = m /\ j = i /\ p = Len(mail[m][i]) + 1 /\ mail'[s][j][p] = x
  <2>1. CASE s = m /\ j = i
    BY <1>2, <1>4, <1>5, <2>1 DEF ml
  <2>2. CASE ~(s = m /\ j = i)
    <3>1. mail'[s][j] = mail[s][j]
      BY <1>4, <2>2
    <3> QED BY <1>5, <3>1
  <2> QED BY <2>1, <2>2
<1> QED BY <1>4, <1>5 DEF new, ml, OneMore

LEMMA SendWriteKeeps ==
  ASSUME ProxyInv, NEW c \in Client, GroupTold(c), call[c].at = MasterOf(call[c].key), call[c].write
  PROVE  ProxyInv'
<1> DEFINE x == [from |-> c, n |-> asks[c], key |-> call[c].key, write |-> call[c].write]
           m == MasterOf(call[c].key)
           box == Append(mail[m][1], x)
<1>4. /\ mail' = [mail EXCEPT ![m][1] = box] /\ call[c].step = "group"
      /\ call' = [call EXCEPT ![c] = Idle] /\ UNCHANGED <<asks, asked, IDX, store>>
  BY DEF GroupTold, ToChild
<1> HIDE DEF box
<1>1. ProxyTypes /\ call[c] \in Call /\ m \in Host /\ 1 \in Child
  BY MasterIs, SlotsAssumption DEF ProxyInv, ProxyTypes, Child
<1>2. call[c].key \in DbKey /\ call[c].write \in BOOLEAN
  BY <1>1, <1>4, CallIs
<1>3. x \in Mail /\ x.from = c /\ x.n = asks[c] /\ x.key = call[c].key /\ x.write
  BY <1>1, <1>2 DEF Mail, ProxyTypes
<1>0. box = Append(mail[m][1], x) /\ m = MasterOf(call[c].key)
  BY DEF box
<1> HIDE DEF x, m
<1>5. /\ mail' \in Letters /\ mail'[m][1] = Append(mail[m][1], x)
      /\ \A s \in Host, j \in Child : <<s, j>> # <<m, 1>> => mail'[s][j] = mail[s][j]
      /\ \A s \in Host, j \in Child : \A p \in DOMAIN mail'[s][j] :
              IF p \in DOMAIN mail[s][j] THEN mail'[s][j][p] = mail[s][j][p]
              ELSE s = m /\ j = 1 /\ p = Len(mail[m][1]) + 1 /\ mail'[s][j][p] = x
  <2>1. OneMore(m, 1, x)
    BY <1>1, <1>3, <1>4, <1>0, Posted
  <2> QED BY <2>1 DEF OneMore
<1>6. /\ call' \in [Client -> Call] /\ call'[c].step = "idle"
      /\ \A d \in Client \ {c} : call'[d] = call[d]
  BY <1>1, <1>4 DEF ProxyTypes, Call, Idle
<1>7. ProxyTypes'
  BY <1>1, <1>4, <1>5, <1>6 DEF ProxyTypes
<1>8. \A s \in Host, j \in Child : \A p \in DOMAIN mail'[s][j] :
        ~mail'[s][j][p].write => /\ p \in DOMAIN mail[s][j] /\ mail'[s][j][p] = mail[s][j][p]
                                 /\ mail[s][j][p].from \in Client \ {c}
                                 /\ call[mail[s][j][p].from].step = "read"
  <2> SUFFICES ASSUME NEW s \in Host, NEW j \in Child, NEW p \in DOMAIN mail'[s][j], ~mail'[s][j][p].write
               PROVE  /\ p \in DOMAIN mail[s][j] /\ mail'[s][j][p] = mail[s][j][p]
                      /\ mail[s][j][p].from \in Client \ {c}
                      /\ call[mail[s][j][p].from].step = "read"
    OBVIOUS
  <2>1. p \in DOMAIN mail[s][j] /\ mail'[s][j][p] = mail[s][j][p]
    BY <1>3, <1>5
  <2>2. call[mail[s][j][p].from].step = "read"
    BY <2>1 DEF ProxyInv, OneRead
  <2>3. mail[s][j][p].from \in Client
    BY <1>1, <2>1, MailIs
  <2> QED BY <1>4, <2>1, <2>2, <2>3
<1>9. OneRead'
  BY <1>6, <1>8 DEF ProxyInv, OneRead
<1>10. FirstChild'
  BY <1>3, <1>5, <1>0, MasterStays DEF ProxyInv, FirstChild
<1>11. WritesInOrder'
  <2> SUFFICES ASSUME NEW d \in Client, NEW k \in DbKey
               PROVE  Ordered(store[MasterOf(k)][k], mail'[MasterOf(k)][1], Untold(d, k)', asked[d][k], d, k)
    BY <1>4, OrderIs DEF ProxyInv
  <2> DEFINE st == store[MasterOf(k)][k]
             ml == mail[MasterOf(k)][1]
             un == Untold(d, k)
             all == asked[d][k]
  <2>1. Ordered(st, ml, un, all, d, k) /\ ml \in Seq(Mail)
    BY <1>1, OrderIs, MailIs, MasterIs DEF ProxyInv
  <2>2. mail'[MasterOf(k)][1] = IF MasterOf(k) = m THEN Append(ml, x) ELSE ml
    <3>1. CASE MasterOf(k) = m
      BY <1>5, <3>1
    <3>2. CASE MasterOf(k) # m
      <4>1. MasterOf(k) \in Host /\ <<MasterOf(k), 1>> # <<m, 1>>
        BY <3>2, MasterIs
      <4> QED BY <1>1, <1>5, <3>2, <4>1
    <3> QED BY <3>1, <3>2
  <2>3. CASE d = c /\ k = call[c].key
    <3>1. un = {x.n} /\ Untold(d, k)' = {}
      BY <1>3, <1>4, <1>6, <2>3 DEF Untold
    <3> HIDE DEF st, ml, un, all
    <3>2. Ordered(st, Append(ml, x), {}, all, d, k)
      BY <1>3, <2>1, <2>3, <3>1, SentMore
    <3> QED BY <1>0, <2>2, <2>3, <3>1, <3>2 DEF st, all
  <2>4. CASE ~(d = c /\ k = call[c].key)
    <3>1. Untold(d, k)' = un
      BY <1>4, <1>6, <2>4 DEF Untold
    <3> HIDE DEF st, ml, un, all
    <3>2. Ordered(st, Append(ml, x), un, all, d, k)
      BY <1>3, <2>1, <2>4, SentMore
    <3> QED BY <2>1, <2>2, <3>1, <3>2 DEF st, all
  <2> QED BY <2>3, <2>4
<1>12. \A d \in Client : call'[d].step \in {"read", "answer"} => ~call'[d].write
  BY <1>6 DEF ProxyInv
<1> QED BY <1>4, <1>7, <1>9, <1>10, <1>11, <1>12 DEF ProxyInv

LEMMA SendReadKeeps ==
  ASSUME ProxyInv, NEW c \in Client, GroupTold(c), call[c].at = MasterOf(call[c].key), ~call[c].write
  PROVE  ProxyInv'
<1> DEFINE x == [from |-> c, n |-> asks[c], key |-> call[c].key, write |-> call[c].write]
           rec == [call[c] EXCEPT !.step = "read"]
           m == MasterOf(call[c].key)
           i == IDX[m]
           box == Append(mail[m][i], x)
<1>4. /\ mail' = [mail EXCEPT ![m][i] = box] /\ call[c].step = "group"
      /\ call' = [call EXCEPT ![c] = rec] /\ UNCHANGED <<asks, asked, IDX, store>>
  BY DEF GroupTold, ToChild
<1> HIDE DEF box
<1>1. ProxyTypes /\ call[c] \in Call /\ m \in Host /\ 1 \in Child /\ i \in Child /\ i # 1
  BY MasterIs, SlotsAssumption DEF ProxyInv, ProxyTypes, Child
<1>2. /\ call[c].key \in DbKey /\ call[c].write \in BOOLEAN /\ call[c].at \in Host
      /\ rec \in Call /\ rec.step = "read" /\ rec.write = call[c].write
  BY <1>1, <1>4, CallIs, CallSteps
<1>3. x \in Mail /\ x.from = c /\ ~x.write
  BY <1>1, <1>2 DEF Mail, ProxyTypes
<1>0. box = Append(mail[m][i], x) /\ m = MasterOf(call[c].key)
  BY DEF box
<1> HIDE DEF x, rec, i, m
<1>5. /\ mail' \in Letters /\ mail'[m][i] = Append(mail[m][i], x)
      /\ \A s \in Host, j \in Child : <<s, j>> # <<m, i>> => mail'[s][j] = mail[s][j]
      /\ \A s \in Host, j \in Child : \A p \in DOMAIN mail'[s][j] :
              IF p \in DOMAIN mail[s][j] THEN mail'[s][j][p] = mail[s][j][p]
              ELSE s = m /\ j = i /\ p = Len(mail[m][i]) + 1 /\ mail'[s][j][p] = x
  <2>1. OneMore(m, i, x)
    BY <1>0, <1>1, <1>3, <1>4, Posted
  <2> QED BY <2>1 DEF OneMore
<1>6. /\ call' \in [Client -> Call] /\ call'[c] = rec
      /\ \A d \in Client \ {c} : call'[d] = call[d]
  BY <1>1, <1>2, <1>4 DEF ProxyTypes
<1>7. ProxyTypes'
  BY <1>1, <1>4, <1>5, <1>6 DEF ProxyTypes
<1>8. \A s \in Host, j \in Child : \A p \in DOMAIN mail'[s][j] :
        ~mail'[s][j][p].write =>
          IF mail'[s][j][p].from = c
          THEN s = m /\ j = i /\ p = Len(mail[m][i]) + 1
          ELSE /\ p \in DOMAIN mail[s][j] /\ mail'[s][j][p] = mail[s][j][p]
               /\ mail[s][j][p].from \in Client \ {c}
               /\ call[mail[s][j][p].from].step = "read"
  <2> SUFFICES ASSUME NEW s \in Host, NEW j \in Child, NEW p \in DOMAIN mail'[s][j], ~mail'[s][j][p].write
               PROVE  IF mail'[s][j][p].from = c
                      THEN s = m /\ j = i /\ p = Len(mail[m][i]) + 1
                      ELSE /\ p \in DOMAIN mail[s][j] /\ mail'[s][j][p] = mail[s][j][p]
                           /\ mail[s][j][p].from \in Client \ {c}
                           /\ call[mail[s][j][p].from].step = "read"
    OBVIOUS
  <2>1. CASE p \in DOMAIN mail[s][j]
    <3>1. mail'[s][j][p] = mail[s][j][p]
      BY <1>5, <2>1
    <3>2. call[mail[s][j][p].from].step = "read"
      BY <2>1, <3>1 DEF ProxyInv, OneRead
    <3>3. mail[s][j][p].from \in Client
      BY <1>1, <2>1, MailIs
    <3> QED BY <1>4, <2>1, <3>1, <3>2, <3>3
  <2>2. CASE p \notin DOMAIN mail[s][j]
    BY <1>3, <1>5, <2>2
  <2> QED BY <2>1, <2>2
<1>9. OneRead'
  <2> SUFFICES ASSUME NEW s \in Host, NEW t \in Host, NEW j \in Child, NEW l \in Child,
                      NEW p \in DOMAIN mail'[s][j], NEW q \in DOMAIN mail'[t][l], ~mail'[s][j][p].write
               PROVE  /\ call'[mail'[s][j][p].from].step = "read"
                      /\ ~mail'[t][l][q].write /\ mail'[s][j][p].from = mail'[t][l][q].from
                           => s = t /\ j = l /\ p = q
    BY DEF OneRead
  <2>1. CASE mail'[s][j][p].from = c
    BY <1>2, <1>6, <1>8, <2>1
  <2>2. CASE mail'[s][j][p].from # c
    <3>1. /\ p \in DOMAIN mail[s][j] /\ mail'[s][j][p] = mail[s][j][p]
          /\ mail[s][j][p].from \in Client \ {c} /\ call[mail[s][j][p].from].step = "read"
      BY <1>8, <2>2
    <3>2. ASSUME ~mail'[t][l][q].write, mail'[s][j][p].from = mail'[t][l][q].from
          PROVE  s = t /\ j = l /\ p = q
      <4>1. q \in DOMAIN mail[t][l] /\ mail'[t][l][q] = mail[t][l][q]
        BY <1>8, <2>2, <3>2
      <4> QED BY <3>1, <3>2, <4>1 DEF ProxyInv, OneRead
    <3> QED BY <1>6, <3>1, <3>2
  <2> QED BY <2>1, <2>2
<1>10. FirstChild'
  BY <1>3, <1>5, MasterStays DEF ProxyInv, FirstChild
<1>11. \A d \in Client, k \in DbKey : Untold(d, k)' = Untold(d, k)
  BY <1>2, <1>4, <1>6 DEF Untold
<1>12. \A s \in Host : mail'[s][1] = mail[s][1]
  BY <1>1, <1>5
<1>13. WritesInOrder'
  BY <1>4, <1>11, <1>12, OrderIs, MasterIs DEF ProxyInv
<1>14. \A d \in Client : call'[d].step \in {"read", "answer"} => ~call'[d].write
  BY <1>2, <1>6 DEF ProxyInv
<1> QED BY <1>4, <1>7, <1>9, <1>10, <1>13, <1>14 DEF ProxyInv

\* Each message that is left was there, one place further back if it was in the same box.
LEMMA Taken ==
  ASSUME ProxyTypes, NEW s \in Host, NEW i \in Child, NEW box,
         mail[s][i] # <<>>, mail' = [mail EXCEPT ![s][i] = box], box = Tail(mail[s][i])
  PROVE  /\ mail' \in Letters /\ mail'[s][i] = Tail(mail[s][i])
         /\ \A t \in Host, j \in Child : <<t, j>> # <<s, i>> => mail'[t][j] = mail[t][j]
         /\ \A t \in Host, j \in Child : \A p \in DOMAIN mail'[t][j] :
              LET q == IF t = s /\ j = i THEN p + 1 ELSE p
              IN  q \in DOMAIN mail[t][j] /\ mail'[t][j][p] = mail[t][j][q] /\ p \in Nat /\ p > 0
<1> DEFINE ml == mail[s][i]
<1>1. ml \in Seq(Mail) /\ ml # <<>> /\ box = Tail(ml)
  BY MailIs
<1> HIDE DEF ml
<1>2. /\ box \in Seq(Mail)
      /\ \A p \in DOMAIN box : p + 1 \in DOMAIN ml /\ box[p] = ml[p + 1] /\ p \in Nat /\ p > 0
  <2>1. /\ Tail(ml) \in Seq(Mail)
        /\ \A p \in DOMAIN Tail(ml) : p + 1 \in DOMAIN ml /\ Tail(ml)[p] = ml[p + 1] /\ p \in Nat /\ p > 0
    BY ONLY <1>1, TailOf
  <2> QED BY ONLY <1>1, <2>1
<1>3. mail \in [Host -> [Child -> Seq(Mail)]]
  BY DEF ProxyTypes, Letters
<1>4. /\ mail' \in Letters /\ mail'[s][i] = box
      /\ \A t \in Host, j \in Child : <<t, j>> # <<s, i>> => mail'[t][j] = mail[t][j]
  BY <1>2, <1>3, PutIs DEF Letters
<1>5. ASSUME NEW t \in Host, NEW j \in Child, NEW p \in DOMAIN mail'[t][j]
      PROVE  LET q == IF t = s /\ j = i THEN p + 1 ELSE p
             IN  q \in DOMAIN mail[t][j] /\ mail'[t][j][p] = mail[t][j][q] /\ p \in Nat /\ p > 0
  <2>1. CASE t = s /\ j = i
    BY <1>2, <1>4, <1>5, <2>1 DEF ml
  <2>2. CASE ~(t = s /\ j = i)
    <3>1. mail'[t][j] = mail[t][j]
      BY <1>4, <2>2
    <3> QED BY <1>5, <2>2, <3>1, MailIs
  <2> QED BY <2>1, <2>2
<1> QED BY <1>1, <1>4, <1>5 DEF ml

\* cmds.ope of db.lua: the first message is taken, and a write is done.
LEMMA WorkIs ==
  ASSUME ProxyInv, NEW s \in Host, NEW i \in Child, Work(s, i), NEW x, x = mail[s][i][1]
  PROVE  /\ x \in Mail /\ x.from \in Client /\ x.key \in DbKey /\ x.n \in Nat /\ x.write \in BOOLEAN
         /\ mail[s][i] \in Seq(Mail) /\ mail[s][i] # <<>> /\ 1 \in DOMAIN mail[s][i]
         /\ mail' \in Letters /\ mail'[s][i] = Tail(mail[s][i])
         /\ \A t \in Host, j \in Child : <<t, j>> # <<s, i>> => mail'[t][j] = mail[t][j]
         /\ \A t \in Host, j \in Child : \A p \in DOMAIN mail'[t][j] :
              LET q == IF t = s /\ j = i THEN p + 1 ELSE p
              IN  q \in DOMAIN mail[t][j] /\ mail'[t][j][p] = mail[t][j][q] /\ p \in Nat /\ p > 0
         /\ store' \in Stores
         /\ store'[s][x.key] = IF x.write THEN Append(store[s][x.key], <<x.from, x.n>>) ELSE store[s][x.key]
         /\ \A t \in Host, k \in DbKey : <<t, k>> # <<s, x.key>> => store'[t][k] = store[t][k]
         /\ call' = [call EXCEPT ![x.from] = IF x.write THEN @ ELSE [@ EXCEPT !.step = "answer"]]
         /\ UNCHANGED <<asks, asked, IDX>>
<1> DEFINE box == Tail(mail[s][i])
           done == IF x.write THEN Append(store[s][x.key], <<x.from, x.n>>) ELSE store[s][x.key]
<1>1. ProxyTypes
  BY DEF ProxyInv
<1>2. mail[s][i] # <<>> /\ mail[s][i] \in Seq(Mail)
  BY <1>1, MailIs DEF Work
<1>3. Head(mail[s][i]) = x /\ 1 \in DOMAIN mail[s][i]
  BY <1>2, TailOf
<1>4. x \in Mail /\ x.from \in Client /\ x.key \in DbKey /\ x.n \in Nat /\ x.write \in BOOLEAN
  BY <1>1, <1>3, MailIs
<1>5. /\ mail' = [mail EXCEPT ![s][i] = box] /\ store' = [store EXCEPT ![s][x.key] = done]
      /\ call' = [call EXCEPT ![x.from] = IF x.write THEN @ ELSE [@ EXCEPT !.step = "answer"]]
      /\ UNCHANGED <<asks, asked, IDX>>
  BY <1>3 DEF Work
<1>6. done \in Seq(Client \X Nat) /\ store \in [Host -> [DbKey -> Seq(Client \X Nat)]]
  <2>1. store[s][x.key] \in Seq(Client \X Nat)
    BY <1>1, <1>4 DEF ProxyTypes, Stores
  <2> QED BY <1>1, <1>4, <2>1, AppendOf DEF ProxyTypes, Stores
<1> HIDE DEF done
<1>7. /\ store' \in Stores /\ store'[s][x.key] = done
      /\ \A t \in Host, k \in DbKey : <<t, k>> # <<s, x.key>> => store'[t][k] = store[t][k]
  BY <1>4, <1>5, <1>6, PutIs DEF Stores
<1>8. box = Tail(mail[s][i])
  OBVIOUS
<1> HIDE DEF box
<1>9. /\ mail' \in Letters /\ mail'[s][i] = Tail(mail[s][i])
      /\ \A t \in Host, j \in Child : <<t, j>> # <<s, i>> => mail'[t][j] = mail[t][j]
      /\ \A t \in Host, j \in Child : \A p \in DOMAIN mail'[t][j] :
              LET q == IF t = s /\ j = i THEN p + 1 ELSE p
              IN  q \in DOMAIN mail[t][j] /\ mail'[t][j][p] = mail[t][j][q] /\ p \in Nat /\ p > 0
  BY <1>1, <1>2, <1>5, <1>8, Taken
<1> QED BY <1>2, <1>3, <1>4, <1>5, <1>7, <1>9 DEF done

LEMMA WorkKeeps ==
  ASSUME ProxyInv, NEW s \in Host, NEW i \in Child, Work(s, i)
  PROVE  ProxyInv'
<1>1. PICK x : x = mail[s][i][1]
  OBVIOUS
<1> DEFINE rec == IF x.write THEN call[x.from] ELSE [call[x.from] EXCEPT !.step = "answer"]
<1>2. /\ x \in Mail /\ x.from \in Client /\ x.key \in DbKey /\ x.n \in Nat /\ x.write \in BOOLEAN
      /\ mail[s][i] \in Seq(Mail) /\ mail[s][i] # <<>> /\ 1 \in DOMAIN mail[s][i]
      /\ mail' \in Letters /\ mail'[s][i] = Tail(mail[s][i])
      /\ \A t \in Host, j \in Child : <<t, j>> # <<s, i>> => mail'[t][j] = mail[t][j]
      /\ \A t \in Host, j \in Child : \A p \in DOMAIN mail'[t][j] :
           LET q == IF t = s /\ j = i THEN p + 1 ELSE p
           IN  q \in DOMAIN mail[t][j] /\ mail'[t][j][p] = mail[t][j][q] /\ p \in Nat /\ p > 0
      /\ store' \in Stores
      /\ store'[s][x.key] = IF x.write THEN Append(store[s][x.key], <<x.from, x.n>>) ELSE store[s][x.key]
      /\ \A t \in Host, k \in DbKey : <<t, k>> # <<s, x.key>> => store'[t][k] = store[t][k]
      /\ call' = [call EXCEPT ![x.from] = IF x.write THEN @ ELSE [@ EXCEPT !.step = "answer"]]
      /\ UNCHANGED <<asks, asked, IDX>>
  BY <1>1, WorkIs
<1>3. call' = [call EXCEPT ![x.from] = rec]
  BY <1>2
<1>4. ProxyTypes
  BY DEF ProxyInv
<1>5. ~x.write => call[x.from].step = "read" /\ ~call[x.from].write
  BY <1>1, <1>2 DEF ProxyInv, OneRead
<1>6. /\ rec \in Call
      /\ x.write => rec = call[x.from]
      /\ ~x.write => rec.step = "answer" /\ ~rec.write
  <2>1. call[x.from] \in Call
    BY <1>2, <1>4 DEF ProxyTypes
  <2>2. CASE x.write
    BY <2>1, <2>2
  <2>3. CASE ~x.write
    BY <1>5, <2>1, <2>3, CallSteps
  <2> QED BY <2>2, <2>3
<1> HIDE DEF rec
<1>8. /\ call' \in [Client -> Call] /\ call'[x.from] = rec
      /\ \A d \in Client \ {x.from} : call'[d] = call[d]
  BY <1>2, <1>3, <1>4, <1>6 DEF ProxyTypes
<1>9. ProxyTypes'
  BY <1>2, <1>4, <1>8 DEF ProxyTypes
<1>10. OneRead'
  <2> SUFFICES ASSUME NEW r \in Host, NEW t \in Host, NEW j \in Child, NEW l \in Child,
                      NEW p \in DOMAIN mail'[r][j], NEW q \in DOMAIN mail'[t][l], ~mail'[r][j][p].write
               PROVE  /\ call'[mail'[r][j][p].from].step = "read"
                      /\ ~mail'[t][l][q].write /\ mail'[r][j][p].from = mail'[t][l][q].from
                           => r = t /\ j = l /\ p = q
    BY DEF OneRead
  <2>1. PICK p0 : p0 = IF r = s /\ j = i THEN p + 1 ELSE p
    OBVIOUS
  <2>2. PICK q0 : q0 = IF t = s /\ l = i THEN q + 1 ELSE q
    OBVIOUS
  <2>3. p0 \in DOMAIN mail[r][j] /\ mail'[r][j][p] = mail[r][j][p0] /\ p \in Nat /\ p > 0
    BY <1>2, <2>1
  <2>4. q0 \in DOMAIN mail[t][l] /\ mail'[t][l][q] = mail[t][l][q0] /\ q \in Nat /\ q > 0
    BY <1>2, <2>2
  <2>5. call[mail[r][j][p0].from].step = "read" /\ ~mail[r][j][p0].write
    BY <2>3 DEF ProxyInv, OneRead
  <2>6. ASSUME ~mail'[t][l][q].write, mail'[r][j][p].from = mail'[t][l][q].from
        PROVE  r = t /\ j = l /\ p = q
    <3>1. r = t /\ j = l /\ p0 = q0
      BY <2>3, <2>4, <2>5, <2>6 DEF ProxyInv, OneRead
    <3> QED BY <2>1, <2>2, <2>3, <2>4, <3>1
  <2>7. call'[mail[r][j][p0].from].step = "read"
    <3>1. mail[r][j][p0].from \in Client
      BY <1>4, <2>3, MailIs
    <3>2. CASE mail[r][j][p0].from # x.from
      BY <1>8, <2>5, <3>1, <3>2
    <3>3. CASE mail[r][j][p0].from = x.from
      <4>1. CASE x.write
        BY <1>6, <1>8, <2>5, <3>3, <4>1
      <4>2. CASE ~x.write
        <5>1. r = s /\ j = i /\ p0 = 1
          BY <1>1, <1>2, <2>3, <2>5, <3>3, <4>2 DEF ProxyInv, OneRead
        <5>2. p0 = p + 1
          BY <2>1, <5>1
        <5> QED BY <2>3, <5>1, <5>2
      <4> QED BY <4>1, <4>2
    <3> QED BY <3>2, <3>3
  <2> QED BY <2>3, <2>6, <2>7
<1>11. FirstChild'
  BY <1>2, MasterStays DEF ProxyInv, FirstChild
<1>12. \A d \in Client : call'[d].step \in {"read", "answer"} => ~call'[d].write
  BY <1>2, <1>6, <1>8 DEF ProxyInv
<1>13. \A d \in Client, k \in DbKey : Untold(d, k)' = Untold(d, k)
  BY <1>2, <1>5, <1>6, <1>8 DEF Untold
<1>14. WritesInOrder'
  <2> SUFFICES ASSUME NEW d \in Client, NEW k \in DbKey
               PROVE  /\ Ordered(store'[MasterOf(k)][k], mail'[MasterOf(k)][1], Untold(d, k), asked[d][k], d, k)
                      /\ \A r \in Host \ {MasterOf(k)} : store'[r][k] = <<>>
    BY <1>2, <1>13, OrderIs
  <2> DEFINE m == MasterOf(k)
             st == store[m][k]
             ml == mail[m][1]
             un == Untold(d, k)
             all == asked[d][k]
  <2>1. m \in Host /\ 1 \in Child
    BY MasterIs, SlotsAssumption DEF Child
  <2>2. Ordered(st, ml, un, all, d, k) /\ \A r \in Host \ {m} : store[r][k] = <<>>
    BY OrderIs DEF ProxyInv
  <2>3. st \in Seq(Client \X Nat) /\ ml \in Seq(Mail)
    BY <1>4, <2>1, MailIs DEF ProxyTypes, Stores
  <2>4. x.write => i = 1 /\ s = MasterOf(x.key)
    <3>1. 1 \in DOMAIN mail[s][i] /\ FirstChild
      BY <1>2 DEF ProxyInv
    <3> QED BY <1>1, <3>1 DEF FirstChild
  <2>5. \A r \in Host \ {m} : store'[r][k] = <<>>
    <3> SUFFICES ASSUME NEW r \in Host \ {m} PROVE store'[r][k] = store[r][k]
      BY <2>2
    <3>1. CASE <<r, k>> # <<s, x.key>>
      BY <1>2, <3>1
    <3>2. CASE r = s /\ k = x.key
      BY <1>2, <2>4, <3>2
    <3> QED BY <3>1, <3>2
  <2>6. CASE <<m, 1>> # <<s, i>>
    <3>1. mail'[m][1] = ml
      BY <1>2, <2>1, <2>6
    <3>2. store'[m][k] = st
      <4>1. CASE <<m, k>> # <<s, x.key>>
        BY <1>2, <2>1, <4>1
      <4>2. CASE m = s /\ k = x.key
        BY <1>2, <2>4, <2>6, <4>2
      <4> QED BY <4>1, <4>2
    <3> QED BY <2>2, <2>5, <3>1, <3>2
  <2>7. CASE m = s /\ i = 1
    <3>1. mail'[m][1] = Tail(ml) /\ ml # <<>> /\ ml[1] = x
      BY <1>1, <1>2, <2>7
    <3>2. store'[m][k] = IF k = x.key /\ x.write THEN Append(st, <<x.from, x.n>>) ELSE st
      BY <1>2, <2>1, <2>7
    <3> HIDE DEF m, st, ml, un, all
    <3>3. IF x.write /\ x.from = d /\ x.key = k
          THEN Ordered(Append(st, <<d, x.n>>), Tail(ml), un, all, d, k)
          ELSE Ordered(st, Tail(ml), un, all, d, k)
      BY <2>2, <2>3, <3>1, SentLess
    <3>4. CASE x.write /\ x.key = k /\ x.from # d
      <4>1. Ordered(Append(st, <<x.from, x.n>>), Tail(ml), un, all, d, k)
        BY <1>2, <2>3, <3>3, <3>4, DoneBeside
      <4> QED BY <2>5, <3>1, <3>2, <3>4, <4>1 DEF m, un, all
    <3>5. CASE x.write /\ x.key = k /\ x.from = d
      BY <2>5, <3>1, <3>2, <3>3, <3>5 DEF m, un, all
    <3>6. CASE ~(x.write /\ x.key = k)
      BY <2>5, <3>1, <3>2, <3>3, <3>6 DEF m, un, all
    <3> QED BY <3>4, <3>5, <3>6
  <2> QED BY <2>6, <2>7
<1> QED BY <1>2, <1>9, <1>10, <1>11, <1>12, <1>14 DEF ProxyInv

\* The first rises, and starts again at the second child.
LEMMA AnswerKeeps ==
  ASSUME ProxyInv, NEW c \in Client, Answer(c)
  PROVE  ProxyInv'
<1>1. /\ call[c].step = "answer" /\ call' = [call EXCEPT ![c] = Idle]
      /\ IDX' = [IDX EXCEPT ![call[c].at] = IF @ + 1 > Addrs THEN 2 ELSE @ + 1]
      /\ UNCHANGED <<asks, asked, mail, store>>
  BY DEF Answer
<1>2. ProxyTypes
  BY DEF ProxyInv
<1>3. /\ call' \in [Client -> Call] /\ call'[c].step = "idle"
      /\ \A d \in Client \ {c} : call'[d] = call[d]
  BY <1>1, <1>2 DEF ProxyTypes, Call, Idle
<1>4. IDX' \in [Host -> 2 .. Addrs]
  <2> DEFINE v == IDX[call[c].at]
             next == IF v + 1 > Addrs THEN 2 ELSE v + 1
  <2>1. call[c].at \in Host
    BY <1>1, <1>2, CallIs DEF ProxyTypes
  <2>2. v \in 2 .. Addrs
    BY <1>2, <2>1 DEF ProxyTypes
  <2>3. next \in 2 .. Addrs
    BY <2>2, SlotsAssumption
  <2>4. IDX' = [IDX EXCEPT ![call[c].at] = next] /\ IDX \in [Host -> 2 .. Addrs]
    BY <1>1, <1>2 DEF ProxyTypes
  <2> HIDE DEF next
  <2> QED BY <2>3, <2>4
<1>5. ProxyTypes'
  BY <1>1, <1>2, <1>3, <1>4 DEF ProxyTypes
<1>6. OneRead'
  <2> SUFFICES ASSUME NEW r \in Host, NEW i \in Child, NEW p \in DOMAIN mail[r][i], ~mail[r][i][p].write
               PROVE  call'[mail[r][i][p].from].step = "read"
    BY <1>1 DEF ProxyInv, OneRead
  <2>1. call[mail[r][i][p].from].step = "read"
    BY DEF ProxyInv, OneRead
  <2>2. mail[r][i][p].from \in Client
    BY <1>2, MailIs
  <2> QED BY <1>1, <1>3, <2>1, <2>2
<1>7. FirstChild'
  BY <1>1, MasterStays DEF ProxyInv, FirstChild
<1>8. \A d \in Client, k \in DbKey : Untold(d, k)' = Untold(d, k)
  BY <1>1, <1>3 DEF Untold
<1>9. WritesInOrder'
  BY <1>1, <1>8, OrderIs DEF ProxyInv
<1>10. \A d \in Client : call'[d].step \in {"read", "answer"} => ~call'[d].write
  BY <1>3 DEF ProxyInv
<1> QED BY <1>1, <1>5, <1>6, <1>7, <1>9, <1>10 DEF ProxyInv

\* Whatever servers the clients ask and whoever comes between, the writes of a client to a
\* key are done at one server, once each and in the order it asked for them, though it waits
\* for none of them (cmds.ope of mgr.lua and db.lua, M.ope of db.lua).
THEOREM WritesKeepTheirOrder == ProxySpec => []WritesInOrder
<1>1. ProxyInv /\ [ProxyNext]_proxyVars => ProxyInv'
  <2> SUFFICES ASSUME ProxyInv, [ProxyNext]_proxyVars PROVE ProxyInv'
    OBVIOUS
  <2>1. CASE UNCHANGED proxyVars
    <3>1. UNCHANGED <<call, asks, asked, mail, IDX, store>>
      BY <2>1 DEF proxyVars
    <3>2. \A d \in Client, k \in DbKey : Untold(d, k)' = Untold(d, k)
      BY <3>1 DEF Untold
    <3>3. WritesInOrder'
      BY <3>1, <3>2, OrderIs DEF ProxyInv
    <3>4. FirstChild'
      BY <3>1, MasterStays DEF ProxyInv, FirstChild
    <3>5. ProxyTypes' /\ OneRead'
      BY <3>1 DEF ProxyInv, ProxyTypes, OneRead
    <3> QED BY <3>1, <3>3, <3>4, <3>5 DEF ProxyInv
  <2>2. ASSUME NEW c \in Client, GroupTold(c) PROVE ProxyInv'
    <3>1. CASE MasterOf(call[c].key) # call[c].at
      BY <2>2, <3>1, ForwardKeeps DEF GroupTold
    <3>2. CASE MasterOf(call[c].key) = call[c].at
      BY <2>2, <3>2, SendWriteKeeps, SendReadKeeps
    <3> QED BY <3>1, <3>2
  <2>3. CASE \E c \in Client : \/ GroupTold(c) \/ Answer(c)
                               \/ \E s \in Host, k \in DbKey, write \in BOOLEAN : Ask(c, s, k, write)
    BY <2>2, <2>3, AnswerKeeps, AskKeeps
  <2>4. CASE \E s \in Host, i \in Child : Work(s, i)
    BY <2>4, WorkKeeps
  <2> QED BY <2>1, <2>3, <2>4 DEF ProxyNext
<1>2. ProxyInv => WritesInOrder
  BY DEF ProxyInv
<1> QED BY <1>1, <1>2, ProxyStarts, PTL DEF ProxySpec

----------------------------------------------------------------------------
(***************************************************************************)
(* The table of nodes of a Raft server, for any nodes and any log: it is   *)
(* what the log says, whatever is appended, taken back and applied.        *)
(***************************************************************************)
\* The entries about a node among the first k, and the last of them.
About(lg, j, n) == lg[j].type \in Config /\ lg[j].node = n
Mine(lg, k, n) == {j \in 1 .. k : About(lg, j, n)}
IsLast(lg, k, n, m) == m \in Mine(lg, k, n) /\ \A j \in Mine(lg, k, n) : j <= m

\* What a node is after its last entry, and after the first k entries.
Becomes(type) ==
  CASE type = "ADD_NODE" -> "voter"
    [] type = "REMOVE_NODE" -> "absent"
    [] type = "DEMOTE_NODE" -> "demoted"
    [] OTHER -> "nonvoter"
At0(n) == IF n \in Founders THEN "voter" ELSE "absent"
StandsAt(lg, k, n) == Standing(SubSeq(lg, 1, k), n)

\* Whether a node was last made a voter by one of the first k entries.
MadeVoter(lg, k, n) ==
  StandsAt(lg, k, n) = "voter" /\ \E j \in 1 .. k : lg[j] = [type |-> "ADD_NODE", node |-> n]

LEMMA EntryIs ==
  ASSUME NEW e \in LogEntry
  PROVE  /\ e = [type |-> e.type, node |-> e.node]
         /\ e.type \in Config => e.node \in Node
         /\ e.type \in Config \cup {"NORMAL"}
<1>1. CASE e \in [type : Config, node : Node]
  BY <1>1
<1>2. CASE e \in [type : {"NORMAL"}, node : {Self}]
  BY <1>2 DEF Config, Voting
<1> QED BY <1>1, <1>2 DEF LogEntry

LEMMA FirstEntries ==
  ASSUME NEW lg \in Seq(LogEntry), NEW k \in 0 .. Len(lg)
  PROVE  /\ SubSeq(lg, 1, k) \in Seq(LogEntry) /\ Len(SubSeq(lg, 1, k)) = k
         /\ DOMAIN SubSeq(lg, 1, k) = 1 .. k
         /\ \A j \in 1 .. k : SubSeq(lg, 1, k)[j] = lg[j] /\ j \in DOMAIN lg /\ lg[j] \in LogEntry
<1>1. Len(lg) \in Nat /\ k \in Nat /\ k <= Len(lg) /\ DOMAIN lg = 1 .. Len(lg)
  OBVIOUS
<1>2. \A j \in 1 .. k : j \in DOMAIN lg /\ lg[j] \in LogEntry
  BY <1>1
<1>3. /\ SubSeq(lg, 1, k) \in Seq(LogEntry)
      /\ Len(SubSeq(lg, 1, k)) = IF 1 <= k THEN k - 1 + 1 ELSE 0
      /\ \A j \in 1 .. k - 1 + 1 : SubSeq(lg, 1, k)[j] = lg[1 + j - 1]
  BY <1>1, <1>2, SubSeqProperties
<1>4. (IF 1 <= k THEN k - 1 + 1 ELSE 0) = k /\ k - 1 + 1 = k /\ \A j \in 1 .. k : 1 + j - 1 = j
  BY <1>1
<1>5. DOMAIN SubSeq(lg, 1, k) = 1 .. Len(SubSeq(lg, 1, k))
  BY <1>3
<1> QED BY <1>2, <1>3, <1>4, <1>5

LEMMA OneLast ==
  ASSUME NEW lg, NEW k, k \in Nat, NEW n, NEW m, IsLast(lg, k, n, m), NEW i, IsLast(lg, k, n, i)
  PROVE  i = m
<1>1. m \in Nat /\ i \in Nat /\ m <= i /\ i <= m
  BY DEF IsLast, Mine
<1> QED BY <1>1

LEMMA HasLast ==
  ASSUME NEW lg, NEW k \in Nat, NEW n, Mine(lg, k, n) # {}
  PROVE  \E m \in 1 .. k : IsLast(lg, k, n, m)
<1>1. Mine(lg, k, n) \subseteq Nat /\ \A m \in Mine(lg, k, n) : m <= k
  BY DEF Mine
<1>2. \E m \in Mine(lg, k, n) : \A j \in Mine(lg, k, n) : j <= m
  BY <1>1, GreatestNumber
<1> QED BY <1>2 DEF IsLast, Mine

\* Standing looks at the last entry about the node.
LEMMA StandingLast ==
  ASSUME NEW lg \in Seq(LogEntry), NEW k \in 0 .. Len(lg), NEW n, NEW m, IsLast(lg, k, n, m)
  PROVE  StandsAt(lg, k, n) = Becomes(lg[m].type)
<1> DEFINE sub == SubSeq(lg, 1, k)
           mine == {j \in DOMAIN sub : sub[j].type \in Config /\ sub[j].node = n}
           last == CHOOSE j \in mine : \A i \in mine : i <= j
<1>1. DOMAIN sub = 1 .. k /\ \A j \in 1 .. k : sub[j] = lg[j]
  BY FirstEntries
<1>2. mine = Mine(lg, k, n)
  BY <1>1 DEF Mine, About
<1>3. m \in mine /\ \A i \in mine : i <= m
  BY <1>2 DEF IsLast
<1>4. last \in mine /\ \A i \in mine : i <= last
  BY <1>3
<1>5. IsLast(lg, k, n, last)
  BY <1>2, <1>4 DEF IsLast
<1> HIDE DEF last
<1>6. last = m
  BY <1>5, OneLast
<1>7. sub[last] = lg[m] /\ mine # {}
  BY <1>1, <1>3, <1>6
<1>8. Standing(sub, n) = CASE sub[last].type = "ADD_NODE" -> "voter"
                           [] sub[last].type = "REMOVE_NODE" -> "absent"
                           [] sub[last].type = "DEMOTE_NODE" -> "demoted"
                           [] OTHER -> "nonvoter"
  BY <1>7 DEF Standing, last
<1> QED BY <1>7, <1>8 DEF StandsAt, Becomes

LEMMA StandingFirst ==
  ASSUME NEW lg \in Seq(LogEntry), NEW k \in 0 .. Len(lg), NEW n, Mine(lg, k, n) = {}
  PROVE  StandsAt(lg, k, n) = At0(n)
<1> DEFINE sub == SubSeq(lg, 1, k)
           mine == {j \in DOMAIN sub : sub[j].type \in Config /\ sub[j].node = n}
<1>1. DOMAIN sub = 1 .. k /\ \A j \in 1 .. k : sub[j] = lg[j]
  BY FirstEntries
<1>2. mine = {}
  BY <1>1 DEF Mine, About
<1>3. Standing(sub, n) = IF n \in Founders THEN "voter" ELSE "absent"
  BY <1>2 DEF Standing
<1> QED BY <1>3 DEF StandsAt, At0

\* One entry more changes the node that it is about, and no other.
LEMMA StandingStep ==
  ASSUME NEW lg \in Seq(LogEntry), NEW k \in 1 .. Len(lg), NEW n
  PROVE  /\ About(lg, k, n) => StandsAt(lg, k, n) = Becomes(lg[k].type)
         /\ ~About(lg, k, n) => StandsAt(lg, k, n) = StandsAt(lg, k - 1, n)
<1>1. k - 1 \in 0 .. Len(lg) /\ k \in 0 .. Len(lg) /\ k \in Nat /\ k - 1 \in Nat
  OBVIOUS
<1>2. ASSUME About(lg, k, n) PROVE IsLast(lg, k, n, k)
  BY <1>1, <1>2 DEF IsLast, Mine
<1>3. ASSUME ~About(lg, k, n) PROVE StandsAt(lg, k, n) = StandsAt(lg, k - 1, n)
  <2>1. Mine(lg, k, n) = Mine(lg, k - 1, n)
    <3>1. \A j \in 1 .. k : j = k \/ j \in 1 .. k - 1
      BY <1>1
    <3>2. \A j \in 1 .. k - 1 : j \in 1 .. k
      BY <1>1
    <3> QED BY <1>3, <3>1, <3>2 DEF Mine
  <2>2. CASE Mine(lg, k, n) = {}
    BY <1>1, <2>1, <2>2, StandingFirst
  <2>3. CASE Mine(lg, k, n) # {}
    <3>1. PICK m : IsLast(lg, k, n, m)
      BY <1>1, <2>3, HasLast
    <3>2. IsLast(lg, k - 1, n, m)
      BY <2>1, <3>1 DEF IsLast
    <3>3. StandsAt(lg, k, n) = Becomes(lg[m].type) /\ StandsAt(lg, k - 1, n) = Becomes(lg[m].type)
      BY <1>1, <3>1, <3>2, StandingLast
    <3> QED BY <3>3
  <2> QED BY <2>2, <2>3
<1> QED BY <1>1, <1>2, <1>3, StandingLast

LEMMA VoterStep ==
  ASSUME NEW lg \in Seq(LogEntry), NEW k \in 1 .. Len(lg), NEW n \in Node
  PROVE  /\ About(lg, k, n) => (MadeVoter(lg, k, n) <=> lg[k].type = "ADD_NODE")
         /\ ~About(lg, k, n) => (MadeVoter(lg, k, n) <=> MadeVoter(lg, k - 1, n))
<1>1. k \in Nat /\ k \in 1 .. k /\ (\A j \in 1 .. k : j = k \/ j \in 1 .. k - 1) /\ (\A j \in 1 .. k - 1 : j \in 1 .. k)
  OBVIOUS
<1>2. lg[k] \in LogEntry
  OBVIOUS
<1>3. ASSUME About(lg, k, n) PROVE MadeVoter(lg, k, n) <=> lg[k].type = "ADD_NODE"
  <2>1. StandsAt(lg, k, n) = Becomes(lg[k].type)
    BY <1>3, StandingStep
  <2>2. StandsAt(lg, k, n) = "voter" <=> lg[k].type = "ADD_NODE"
    BY <2>1 DEF Becomes
  <2>3. lg[k] = [type |-> lg[k].type, node |-> n]
    BY <1>2, <1>3, EntryIs DEF About
  <2> QED BY <1>1, <2>2, <2>3 DEF MadeVoter
<1>4. ASSUME ~About(lg, k, n) PROVE MadeVoter(lg, k, n) <=> MadeVoter(lg, k - 1, n)
  <2>1. StandsAt(lg, k, n) = StandsAt(lg, k - 1, n)
    BY <1>4, StandingStep
  <2>2. lg[k] # [type |-> "ADD_NODE", node |-> n]
    BY <1>4 DEF About, Config, Voting
  <2> QED BY <1>1, <2>1, <2>2 DEF MadeVoter
<1> QED BY <1>3, <1>4

\* What a log says up to k depends on its first k entries.
LEMMA SameStart ==
  ASSUME NEW lg \in Seq(LogEntry), NEW lh \in Seq(LogEntry), NEW L \in Nat, L <= Len(lg), L <= Len(lh),
         \A j \in 1 .. L : lg[j] = lh[j], NEW k \in 0 .. L, NEW n
  PROVE  StandsAt(lg, k, n) = StandsAt(lh, k, n) /\ (MadeVoter(lg, k, n) <=> MadeVoter(lh, k, n))
<1>1. k \in 0 .. Len(lg) /\ k \in 0 .. Len(lh) /\ k \in Nat /\ \A j \in 1 .. k : j \in 1 .. L
  OBVIOUS
<1>2. Mine(lg, k, n) = Mine(lh, k, n)
  BY <1>1 DEF Mine, About
<1>3. CASE Mine(lg, k, n) = {}
  BY <1>1, <1>2, <1>3, StandingFirst DEF MadeVoter
<1>4. CASE Mine(lg, k, n) # {}
  <2>1. PICK m \in 1 .. k : IsLast(lg, k, n, m)
    BY <1>1, <1>4, HasLast
  <2>2. IsLast(lh, k, n, m) /\ lg[m] = lh[m]
    BY <1>1, <1>2, <2>1 DEF IsLast
  <2>3. StandsAt(lg, k, n) = StandsAt(lh, k, n)
    BY <1>1, <2>1, <2>2, StandingLast
  <2> QED BY <1>1, <2>3 DEF MadeVoter
<1> QED BY <1>3, <1>4

\* Whether the removal of a node is in the log and not applied yet.
Leaving(lg, L, a, n) == \E j \in a + 1 .. L : About(lg, j, n) /\ lg[j].type = "REMOVE_NODE"

\* The first L entries that are about nodes outside X come in turn.
Disciplined(lg, L, a, X) ==
  /\ \A k \in 1 .. L :
       LET stands == StandsAt(lg, k - 1, lg[k].node)
       IN  lg[k].node \notin X =>
             /\ lg[k].type = "ADD_NONVOTING_NODE" => stands = "absent"
             /\ lg[k].type = "ADD_NODE" => stands # "voter"
             /\ lg[k].type = "DEMOTE_NODE" => stands = "voter"
             /\ lg[k].type = "REMOVE_NODE" => stands \in {"nonvoter", "demoted"}
  /\ \A k \in a + 1 .. L : \A j \in k + 1 .. L :
       lg[k].type = "REMOVE_NODE" /\ lg[k].node \notin X => ~About(lg, j, lg[k].node)

\* A table is what the first L entries say, of which a are applied: a node stays in it until
\* its removal is applied, and its flags tell how it stands.
NodeFits(table, lg, L, a, n) ==
  /\ n \in DOMAIN table <=> (StandsAt(lg, L, n) # "absent" \/ Leaving(lg, L, a, n))
  /\ n \in DOMAIN table =>
       /\ table[n] \in Flags
       /\ table[n].active <=> StandsAt(lg, L, n) # "absent"
       /\ table[n].voting <=> StandsAt(lg, L, n) = "voter"
       /\ table[n].votingCommitted <=> MadeVoter(lg, a, n)
Fits(table, lg, L, a, X) ==
  /\ Self \in DOMAIN table /\ DOMAIN table \subseteq Node
  /\ \A n \in Node \ X : NodeFits(table, lg, L, a, n)

LEMMA LeavingIsAbsent ==
  ASSUME NEW lg \in Seq(LogEntry), NEW L \in 0 .. Len(lg), NEW a \in 0 .. L, NEW X,
         Disciplined(lg, L, a, X), NEW n, n \notin X, Leaving(lg, L, a, n)
  PROVE  StandsAt(lg, L, n) = "absent"
<1>1. PICK k \in a + 1 .. L : About(lg, k, n) /\ lg[k].type = "REMOVE_NODE"
  BY DEF Leaving
<1>2. k \in 1 .. L /\ \A j \in 1 .. L : j <= k \/ j \in k + 1 .. L
  OBVIOUS
<1>3. \A j \in k + 1 .. L : ~About(lg, j, n)
  BY <1>1 DEF Disciplined, About
<1>4. IsLast(lg, L, n, k)
  BY <1>1, <1>2, <1>3 DEF IsLast, Mine
<1>5. StandsAt(lg, L, n) = Becomes(lg[k].type)
  BY <1>4, StandingLast
<1> QED BY <1>1, <1>5 DEF Becomes

LEMMA UnappliedIsThere ==
  ASSUME NEW lg \in Seq(LogEntry), NEW L \in 0 .. Len(lg), NEW a \in 0 .. L, NEW n,
         NEW j \in a + 1 .. L, About(lg, j, n)
  PROVE  StandsAt(lg, L, n) # "absent" \/ Leaving(lg, L, a, n)
<1>1. j \in Mine(lg, L, n) /\ L \in Nat
  BY DEF Mine
<1>2. PICK m \in 1 .. L : IsLast(lg, L, n, m)
  BY <1>1, HasLast
<1>3. j <= m /\ About(lg, m, n)
  BY <1>1, <1>2 DEF IsLast, Mine
<1>4. m \in a + 1 .. L
  BY <1>3
<1>5. StandsAt(lg, L, n) = Becomes(lg[m].type)
  BY <1>2, StandingLast
<1>6. CASE lg[m].type = "REMOVE_NODE"
  BY <1>3, <1>4, <1>6 DEF Leaving
<1>7. CASE lg[m].type # "REMOVE_NODE"
  BY <1>5, <1>7 DEF Becomes
<1> QED BY <1>6, <1>7

\* Who is not in the table is gone for good: nothing confirmed is left of it.
LEMMA GoneIsNoVoter ==
  ASSUME NEW lg \in Seq(LogEntry), NEW L \in 0 .. Len(lg), NEW a \in 0 .. L, NEW n,
         StandsAt(lg, L, n) = "absent", ~Leaving(lg, L, a, n)
  PROVE  ~MadeVoter(lg, a, n)
<1>1. L \in Nat /\ a \in Nat /\ a \in 0 .. Len(lg)
  OBVIOUS
<1>2. \A j \in a + 1 .. L : ~About(lg, j, n)
  BY UnappliedIsThere
<1>3. Mine(lg, L, n) = Mine(lg, a, n)
  BY <1>1, <1>2 DEF Mine
<1>4. StandsAt(lg, a, n) = "absent"
  <2>1. CASE Mine(lg, L, n) = {}
    BY <1>1, <1>3, <2>1, StandingFirst
  <2>2. CASE Mine(lg, L, n) # {}
    <3>1. PICK m \in 1 .. L : IsLast(lg, L, n, m)
      BY <1>1, <2>2, HasLast
    <3>2. IsLast(lg, a, n, m)
      BY <1>3, <3>1 DEF IsLast
    <3> QED BY <1>1, <3>1, <3>2, StandingLast
  <2> QED BY <2>1, <2>2
<1> QED BY <1>4 DEF MadeVoter

LEMMA LeavingStep ==
  ASSUME NEW lg \in Seq(LogEntry), NEW L \in 1 .. Len(lg), NEW a \in 0 .. L - 1, NEW n
  PROVE  Leaving(lg, L, a, n) <=>
           (Leaving(lg, L - 1, a, n) \/ (About(lg, L, n) /\ lg[L].type = "REMOVE_NODE"))
<1>1. /\ L \in a + 1 .. L /\ \A j \in a + 1 .. L - 1 : j \in a + 1 .. L
      /\ \A j \in a + 1 .. L : j = L \/ j \in a + 1 .. L - 1
  OBVIOUS
<1> QED BY <1>1 DEF Leaving

\* A flag of one node of a table set or taken away.
Raised(table, n, f) == [table EXCEPT ![n] = [@ EXCEPT ![f] = TRUE]]
Lowered(table, n, f) == [table EXCEPT ![n] = [@ EXCEPT ![f] = FALSE]]

LEMMA RaisedNodes ==
  ASSUME NEW table, NEW n, NEW f
  PROVE  DOMAIN Raised(table, n, f) = DOMAIN table
BY DEF Raised

LEMMA RaisedOthers ==
  ASSUME NEW table, NEW n, NEW f, NEW m \in DOMAIN table, m # n
  PROVE  Raised(table, n, f)[m] = table[m]
BY DEF Raised

LEMMA RaisedIs ==
  ASSUME NEW table, NEW n \in DOMAIN table, table[n] \in Flags, NEW q
  PROVE  /\ q = Raised(table, n, "voting") =>
              /\ q[n] \in Flags /\ q[n].voting = TRUE /\ q[n].active = table[n].active
              /\ q[n].votingCommitted = table[n].votingCommitted
         /\ q = Raised(table, n, "active") =>
              /\ q[n] \in Flags /\ q[n].active = TRUE /\ q[n].voting = table[n].voting
              /\ q[n].votingCommitted = table[n].votingCommitted
         /\ q = Raised(table, n, "votingCommitted") =>
              /\ q[n] \in Flags /\ q[n].votingCommitted = TRUE /\ q[n].voting = table[n].voting
              /\ q[n].active = table[n].active
         /\ q = Raised(table, n, "additionCommitted") =>
              /\ q[n] \in Flags /\ q[n].votingCommitted = table[n].votingCommitted
              /\ q[n].voting = table[n].voting /\ q[n].active = table[n].active
<1>1. \A f : q = Raised(table, n, f) => q[n] = [table[n] EXCEPT ![f] = TRUE]
  BY DEF Raised
<1> QED BY <1>1 DEF Flags

LEMMA LoweredNodes ==
  ASSUME NEW table, NEW n, NEW f
  PROVE  DOMAIN Lowered(table, n, f) = DOMAIN table
BY DEF Lowered

LEMMA LoweredOthers ==
  ASSUME NEW table, NEW n, NEW f, NEW m \in DOMAIN table, m # n
  PROVE  Lowered(table, n, f)[m] = table[m]
BY DEF Lowered

LEMMA LoweredIs ==
  ASSUME NEW table, NEW n \in DOMAIN table, table[n] \in Flags, NEW q
  PROVE  /\ q = Lowered(table, n, "voting") =>
              /\ q[n] \in Flags /\ q[n].voting = FALSE /\ q[n].active = table[n].active
              /\ q[n].votingCommitted = table[n].votingCommitted
         /\ q = Lowered(table, n, "active") =>
              /\ q[n] \in Flags /\ q[n].active = FALSE /\ q[n].voting = table[n].voting
              /\ q[n].votingCommitted = table[n].votingCommitted
         /\ q = Lowered(table, n, "votingCommitted") =>
              /\ q[n] \in Flags /\ q[n].votingCommitted = FALSE /\ q[n].voting = table[n].voting
              /\ q[n].active = table[n].active
         /\ q = Lowered(table, n, "additionCommitted") =>
              /\ q[n] \in Flags /\ q[n].votingCommitted = table[n].votingCommitted
              /\ q[n].voting = table[n].voting /\ q[n].active = table[n].active
<1>1. \A f : q = Lowered(table, n, f) => q[n] = [table[n] EXCEPT ![f] = FALSE]
  BY DEF Lowered
<1> QED BY <1>1 DEF Flags

LEMMA PutNodes ==
  ASSUME NEW table, NEW n, NEW flags
  PROVE  DOMAIN Put(table, n, flags) = DOMAIN table \cup {n}
BY DEF Put

LEMMA PutIsAt ==
  ASSUME NEW table, NEW n, NEW flags
  PROVE  /\ Put(table, n, flags)[n] = flags
         /\ \A m \in DOMAIN table : m # n => Put(table, n, flags)[m] = table[m]
BY DEF Put

LEMMA WithoutNodes ==
  ASSUME NEW table, NEW n
  PROVE  DOMAIN WithoutNode(table, n) = DOMAIN table \ {n}
BY DEF WithoutNode

LEMMA WithoutOthers ==
  ASSUME NEW table, NEW n, NEW m \in DOMAIN table, m # n
  PROVE  WithoutNode(table, n)[m] = table[m]
BY DEF WithoutNode

\* Whatever the table, the functions leave the other nodes alone.
Touched(table, new, n) ==
  /\ DOMAIN new \subseteq DOMAIN table \cup {n} /\ DOMAIN table \ {n} \subseteq DOMAIN new
  /\ \A m \in DOMAIN table : m # n => new[m] = table[m]

LEMMA OfferTouches ==
  ASSUME NEW table, NEW e, NEW n, n = e.node, NEW new, new = Offered(table, e)
  PROVE  Touched(table, new, n) /\ DOMAIN table \subseteq DOMAIN new
<1>1. \/ new = table
      \/ \E flags : new = Put(table, n, flags)
      \/ \E f : new = Raised(table, n, f)
      \/ \E f : new = Lowered(table, n, f)
  BY DEF Offered, Raised, Lowered
<1> QED BY <1>1 DEF Touched, Put, Raised, Lowered

LEMMA PopTouches ==
  ASSUME NEW table, NEW e, NEW n, n = e.node, NEW new, new = Popped(table, e)
  PROVE  /\ Touched(table, new, n) /\ DOMAIN new \subseteq DOMAIN table
         /\ e.type # "ADD_NONVOTING_NODE" => DOMAIN new = DOMAIN table
<1>1. \/ new = table
      \/ e.type = "ADD_NONVOTING_NODE" /\ new = WithoutNode(table, n)
      \/ \E f : new = Raised(table, n, f)
      \/ \E f : new = Lowered(table, n, f)
  BY DEF Popped, Raised, Lowered
<1> QED BY <1>1 DEF Touched, WithoutNode, Raised, Lowered

LEMMA ConfirmTouches ==
  ASSUME NEW table, NEW e, NEW n, n = e.node, NEW new, new = Confirmed(table, e)
  PROVE  /\ Touched(table, new, n) /\ DOMAIN new \subseteq DOMAIN table
         /\ e.type # "REMOVE_NODE" => DOMAIN new = DOMAIN table
BY DEF Touched, Confirmed, WithoutNode

\* What the functions do to the table, by the type of the entry.
LEMMA OfferedIs ==
  ASSUME NEW table, NEW e, e.type \in Config \cup {"NORMAL"}
  PROVE  /\ e.type = "ADD_NONVOTING_NODE" /\ e.node # Self /\ e.node \notin DOMAIN table
              => Offered(table, e) = Put(table, e.node, NewNode(FALSE))
         /\ e.type = "ADD_NODE" /\ e.node \notin DOMAIN table
              => Offered(table, e) = Put(table, e.node, NewNode(TRUE))
         /\ e.type = "ADD_NODE" /\ e.node \in DOMAIN table
              => Offered(table, e) = Raised(table, e.node, "voting")
         /\ e.type = "DEMOTE_NODE" /\ e.node \in DOMAIN table
              => Offered(table, e) = Lowered(table, e.node, "voting")
         /\ e.type = "REMOVE_NODE" /\ e.node \in DOMAIN table
              => Offered(table, e) = Lowered(table, e.node, "active")
         /\ e.type = "NORMAL" => Offered(table, e) = table
BY DEF Offered, Raised, Lowered, Config, Voting

LEMMA PoppedIs ==
  ASSUME NEW table, NEW e, e.type \in Config \cup {"NORMAL"}
  PROVE  /\ e.type = "ADD_NONVOTING_NODE" => Popped(table, e) = WithoutNode(table, e.node)
         /\ e.type = "ADD_NODE" => Popped(table, e) = Lowered(table, e.node, "voting")
         /\ e.type = "DEMOTE_NODE" => Popped(table, e) = Raised(table, e.node, "voting")
         /\ e.type = "REMOVE_NODE" => Popped(table, e) = Raised(table, e.node, "active")
         /\ e.type = "NORMAL" => Popped(table, e) = table
BY DEF Popped, Raised, Lowered, Config, Voting

LEMMA ConfirmedIs ==
  ASSUME NEW table, NEW e, e.type \in Config \cup {"NORMAL"},
         e.type # "NORMAL" => e.node \in DOMAIN table /\ table[e.node] \in Flags
  PROVE  /\ e.type = "ADD_NODE" =>
              Confirmed(table, e) =
                Raised(Raised(table, e.node, "additionCommitted"), e.node, "votingCommitted")
         /\ e.type = "ADD_NONVOTING_NODE" =>
              Confirmed(table, e) = Raised(table, e.node, "additionCommitted")
         /\ e.type = "DEMOTE_NODE" =>
              Confirmed(table, e) = Lowered(table, e.node, "votingCommitted")
         /\ e.type = "REMOVE_NODE" => Confirmed(table, e) = WithoutNode(table, e.node)
         /\ e.type = "NORMAL" => Confirmed(table, e) = table
BY DEF Confirmed, Raised, Lowered, Config, Voting

\* A node that an entry is not about stands as it did.
LEMMA OthersFit ==
  ASSUME NEW table, NEW new, NEW lg, NEW L, NEW a, NEW K, NEW b, NEW n,
         NodeFits(table, lg, L, a, n),
         StandsAt(lg, K, n) = StandsAt(lg, L, n), Leaving(lg, K, b, n) <=> Leaving(lg, L, a, n),
         MadeVoter(lg, b, n) <=> MadeVoter(lg, a, n),
         n \in DOMAIN new <=> n \in DOMAIN table, n \in DOMAIN table => new[n] = table[n]
  PROVE  NodeFits(new, lg, K, b, n)
BY DEF NodeFits

\* An entry that comes in turn after the first L.
Follows(table, lg, L, e) ==
  LET stands == StandsAt(lg, L, e.node)
  IN  /\ e.type = "ADD_NONVOTING_NODE" => stands = "absent" /\ e.node \notin DOMAIN table
      /\ e.type = "ADD_NODE" =>
           stands \in {"nonvoter", "demoted"} \/ (stands = "absent" /\ e.node \notin DOMAIN table)
      /\ e.type = "DEMOTE_NODE" => stands = "voter"
      /\ e.type = "REMOVE_NODE" => stands \in {"nonvoter", "demoted"}

\* More nodes that are astray leave less to be shown.
LEMMA MoreAstray ==
  ASSUME NEW lg, NEW L, NEW a, NEW table, NEW X, NEW Y, X \subseteq Y,
         Disciplined(lg, L, a, X), Fits(table, lg, L, a, X)
  PROVE  Disciplined(lg, L, a, Y) /\ Fits(table, lg, L, a, Y)
<1>1. Disciplined(lg, L, a, Y)
  <2>1. \A k : lg[k].node \notin Y => lg[k].node \notin X
    OBVIOUS
  <2> QED BY <2>1 DEF Disciplined
<1>2. Fits(table, lg, L, a, Y)
  BY DEF Fits
<1> QED BY <1>1, <1>2

\* Appending: raft_offer_log.
LEMMA OfferKeeps ==
  ASSUME NEW lg \in Seq(LogEntry), NEW L \in 0 .. Len(lg), L + 1 <= Len(lg), NEW a \in 0 .. L, NEW table, NEW X,
         Disciplined(lg, L, a, X), Fits(table, lg, L, a, X), NEW e, e = lg[L + 1],
         NEW n, n = e.node, n \notin X => Follows(table, lg, L, e), NEW new, new = Offered(table, e)
  PROVE  Disciplined(lg, L + 1, a, X) /\ Fits(new, lg, L + 1, a, X)
<1>1. /\ L + 1 \in 1 .. Len(lg) /\ a \in 0 .. L + 1 - 1 /\ L + 1 - 1 = L /\ L \in Nat /\ a \in Nat
      /\ L + 1 \in a + 1 .. L + 1
      /\ \A k \in 1 .. L + 1 : k = L + 1 \/ k \in 1 .. L
      /\ \A k \in a + 1 .. L + 1 : k = L + 1 \/ k \in a + 1 .. L
      /\ \A k \in a + 1 .. L : \A j \in k + 1 .. L + 1 : j = L + 1 \/ j \in k + 1 .. L
      /\ \A j \in L + 1 + 1 .. L + 1 : FALSE
  OBVIOUS
<1>2. e \in LogEntry /\ e.type \in Config \cup {"NORMAL"} /\ (e.type \in Config => n \in Node)
  BY <1>1, EntryIs
<1>3. \A m : ~About(lg, L + 1, m) =>
        /\ StandsAt(lg, L + 1, m) = StandsAt(lg, L, m)
        /\ Leaving(lg, L + 1, a, m) <=> Leaving(lg, L, a, m)
  BY <1>1, StandingStep, LeavingStep
<1>4. e.type \in Config => About(lg, L + 1, n) /\ StandsAt(lg, L + 1, n) = Becomes(e.type)
  BY <1>1, StandingStep DEF About
<1>5. e.type \in Config => (Leaving(lg, L + 1, a, n) <=> (Leaving(lg, L, a, n) \/ e.type = "REMOVE_NODE"))
  BY <1>1, <1>4, LeavingStep
<1>6. /\ Touched(table, new, n) /\ DOMAIN table \subseteq DOMAIN new
      /\ Self \in DOMAIN table /\ DOMAIN table \subseteq Node
  BY OfferTouches DEF Fits
<1>7. e.type \in Config /\ n \notin X => ~Leaving(lg, L, a, n)
  <2>1. ASSUME e.type \in Config, n \notin X, Leaving(lg, L, a, n) PROVE FALSE
    <3>1. StandsAt(lg, L, n) = "absent" /\ n \in Node
      BY <1>2, <2>1, LeavingIsAbsent
    <3>2. n \in DOMAIN table
      BY <2>1, <3>1 DEF Fits, NodeFits
    <3> QED BY <2>1, <3>1, <3>2 DEF Follows, Config, Voting
  <2> QED BY <2>1
<1>8. Disciplined(lg, L + 1, a, X)
  <2>1. ASSUME NEW k \in a + 1 .. L, lg[k].type = "REMOVE_NODE", lg[k].node \notin X,
               About(lg, L + 1, lg[k].node)
        PROVE  FALSE
    <3>1. e.type \in Config /\ n = lg[k].node
      BY <2>1 DEF About
    <3>2. About(lg, k, n)
      BY <2>1, <3>1 DEF About, Config
    <3> QED BY <1>7, <2>1, <3>1, <3>2 DEF Leaving
  <2>2. \A k \in a + 1 .. L + 1 : \A j \in k + 1 .. L + 1 :
          lg[k].type = "REMOVE_NODE" /\ lg[k].node \notin X => ~About(lg, j, lg[k].node)
    <3>1. TAKE k \in a + 1 .. L + 1
    <3>2. CASE k = L + 1
      BY <1>1, <3>2
    <3>3. CASE k \in a + 1 .. L
      BY <1>1, <2>1, <3>3 DEF Disciplined
    <3> QED BY <1>1, <3>2, <3>3
  <2>3. \A k \in 1 .. L + 1 :
          LET stands == StandsAt(lg, k - 1, lg[k].node)
          IN  lg[k].node \notin X =>
                /\ lg[k].type = "ADD_NONVOTING_NODE" => stands = "absent"
                /\ lg[k].type = "ADD_NODE" => stands # "voter"
                /\ lg[k].type = "DEMOTE_NODE" => stands = "voter"
                /\ lg[k].type = "REMOVE_NODE" => stands \in {"nonvoter", "demoted"}
    <3>1. TAKE k \in 1 .. L + 1
    <3>2. CASE k = L + 1
      BY <1>1, <3>2 DEF Follows
    <3>3. CASE k \in 1 .. L
      BY <3>3 DEF Disciplined
    <3> QED BY <1>1, <3>2, <3>3
  <2> QED BY <2>2, <2>3 DEF Disciplined
<1>9. \A m : About(lg, L + 1, m) => m = n /\ e.type \in Config
  BY DEF About
<1>10. CASE e.type = "NORMAL"
  <2>1. new = table
    BY <1>2, <1>10, OfferedIs
  <2>2. \A m : ~About(lg, L + 1, m)
    BY <1>9, <1>10 DEF Config, Voting
  <2>3. \A m \in Node \ X : NodeFits(new, lg, L + 1, a, m)
    BY <1>3, <2>1, <2>2, OthersFit DEF Fits
  <2>4. Self \in DOMAIN new /\ DOMAIN new \subseteq Node
    BY <2>1 DEF Fits
  <2> QED BY <1>8, <2>3, <2>4 DEF Fits
<1>12. e.type \in Config => Self \in DOMAIN new /\ DOMAIN new \subseteq Node
  BY <1>2, <1>6 DEF Touched
<1>13. ASSUME e.type \in Config, NEW m \in Node \ X, m # n PROVE NodeFits(new, lg, L + 1, a, m)
  <2>1. ~About(lg, L + 1, m)
    BY <1>9, <1>13
  <2>2. NodeFits(table, lg, L, a, m)
    BY DEF Fits
  <2>3. (m \in DOMAIN new <=> m \in DOMAIN table) /\ (m \in DOMAIN table => new[m] = table[m])
    BY <1>6, <1>13 DEF Touched
  <2>4. m \in Node
    OBVIOUS
  <2> QED BY <1>3, <2>1, <2>2, <2>3, <2>4, OthersFit
<1>14. CASE e.type \in Config /\ n \in X
  BY <1>8, <1>12, <1>13, <1>14 DEF Fits
<1>11. CASE e.type \in Config /\ n \notin X
  <2>1. n \in Node /\ NodeFits(table, lg, L, a, n)
    BY <1>2, <1>11 DEF Fits
  <2>2. /\ e.type = "ADD_NONVOTING_NODE" => n # Self /\ n \notin DOMAIN table /\ ~MadeVoter(lg, a, n)
        /\ e.type = "ADD_NODE" /\ n \notin DOMAIN table => ~MadeVoter(lg, a, n)
    <3>1. e.type = "ADD_NODE" /\ n \notin DOMAIN table => StandsAt(lg, L, n) = "absent"
      BY <1>11, <2>1 DEF Follows, NodeFits
    <3> QED BY <1>6, <1>7, <1>11, <3>1, GoneIsNoVoter DEF Follows
  <2>3. e.type \notin {"ADD_NONVOTING_NODE", "ADD_NODE"} => n \in DOMAIN table /\ table[n] \in Flags
    BY <1>11, <2>1 DEF Follows, NodeFits, Config, Voting
  <2>4. /\ DOMAIN new = DOMAIN table \cup {n} /\ \A m \in DOMAIN table : m # n => new[m] = table[m]
        /\ NodeFits(new, lg, L + 1, a, n)
    <3>1. CASE e.type = "ADD_NONVOTING_NODE"
      <4>0. PICK flags : flags = NewNode(FALSE)
        OBVIOUS
      <4>1. new = Put(table, n, flags)
        BY <1>2, <2>2, <3>1, <4>0, OfferedIs
      <4>2. DOMAIN new = DOMAIN table \cup {n}
        BY ONLY <4>1, PutNodes
      <4>5. new[n] = flags /\ \A m \in DOMAIN table : m # n => new[m] = table[m]
        BY ONLY <4>1, PutIsAt
      <4>3. new[n] \in Flags /\ new[n].active /\ ~new[n].voting /\ ~new[n].votingCommitted
        BY <4>0, <4>5 DEF NewNode, Flags
      <4>4. StandsAt(lg, L + 1, n) = "nonvoter"
        BY <1>4, <1>11, <3>1 DEF Becomes
      <4>6. NodeFits(new, lg, L + 1, a, n)
        <5>1. n \in DOMAIN new
          BY <4>2
        <5>2. ~MadeVoter(lg, a, n)
          BY <2>2, <3>1
        <5> QED BY <4>3, <4>4, <5>1, <5>2 DEF NodeFits
      <4> QED BY <4>2, <4>5, <4>6
    <3>2. CASE e.type = "ADD_NODE" /\ n \in DOMAIN table
      <4>0. n \in DOMAIN table /\ table[n] \in Flags
        BY <2>1, <3>2 DEF NodeFits
      <4>1. new = Raised(table, n, "voting")
        BY <1>2, <3>2, OfferedIs
      <4>2. DOMAIN new = DOMAIN table
        BY ONLY <4>1, RaisedNodes
      <4>5. \A m \in DOMAIN table : m # n => new[m] = table[m]
        BY ONLY <4>1, RaisedOthers
      <4>4. /\ new[n] \in Flags /\ new[n].voting = TRUE
            /\ new[n].active = table[n].active /\ new[n].votingCommitted = table[n].votingCommitted
        BY ONLY <4>0, <4>1, RaisedIs
      <4>3. StandsAt(lg, L + 1, n) = "voter" /\ StandsAt(lg, L, n) \in {"nonvoter", "demoted"}
        BY <1>4, <1>11, <3>2 DEF Becomes, Follows
      <4> QED BY <2>1, <3>2, <4>0, <4>2, <4>3, <4>4, <4>5 DEF NodeFits
    <3>5. CASE e.type = "ADD_NODE" /\ n \notin DOMAIN table
      <4>0. PICK flags : flags = NewNode(TRUE)
        OBVIOUS
      <4>1. new = Put(table, n, flags)
        BY <1>2, <3>5, <4>0, OfferedIs
      <4>2. DOMAIN new = DOMAIN table \cup {n}
        BY ONLY <4>1, PutNodes
      <4>5. new[n] = flags /\ \A m \in DOMAIN table : m # n => new[m] = table[m]
        BY ONLY <4>1, PutIsAt
      <4>3. new[n] \in Flags /\ new[n].active /\ new[n].voting /\ ~new[n].votingCommitted
        BY <4>0, <4>5 DEF NewNode, Flags
      <4>4. StandsAt(lg, L + 1, n) = "voter"
        BY <1>4, <1>11, <3>5 DEF Becomes
      <4>6. NodeFits(new, lg, L + 1, a, n)
        <5>1. n \in DOMAIN new
          BY <4>2
        <5>2. ~MadeVoter(lg, a, n)
          BY <2>2, <3>5
        <5> QED BY <4>3, <4>4, <5>1, <5>2 DEF NodeFits
      <4> QED BY <4>2, <4>5, <4>6
    <3>3. CASE e.type = "DEMOTE_NODE"
      <4>0. n \in DOMAIN table /\ table[n] \in Flags
        BY <2>3, <3>3
      <4>1. new = Lowered(table, n, "voting")
        BY <1>2, <2>3, <3>3, OfferedIs
      <4>2. DOMAIN new = DOMAIN table
        BY ONLY <4>1, LoweredNodes
      <4>5. \A m \in DOMAIN table : m # n => new[m] = table[m]
        BY ONLY <4>1, LoweredOthers
      <4>4. /\ new[n] \in Flags /\ new[n].voting = FALSE
            /\ new[n].active = table[n].active /\ new[n].votingCommitted = table[n].votingCommitted
        BY ONLY <4>0, <4>1, LoweredIs
      <4>3. StandsAt(lg, L + 1, n) = "demoted" /\ StandsAt(lg, L, n) = "voter"
        BY <1>4, <1>11, <3>3 DEF Becomes, Follows
      <4> QED BY <2>1, <2>3, <3>3, <4>2, <4>3, <4>4, <4>5 DEF NodeFits
    <3>4. CASE e.type = "REMOVE_NODE"
      <4>0. n \in DOMAIN table /\ table[n] \in Flags
        BY <2>3, <3>4
      <4>1. new = Lowered(table, n, "active")
        BY <1>2, <2>3, <3>4, OfferedIs
      <4>2. DOMAIN new = DOMAIN table
        BY ONLY <4>1, LoweredNodes
      <4>5. \A m \in DOMAIN table : m # n => new[m] = table[m]
        BY ONLY <4>1, LoweredOthers
      <4>4. /\ new[n] \in Flags /\ new[n].active = FALSE
            /\ new[n].voting = table[n].voting /\ new[n].votingCommitted = table[n].votingCommitted
        BY ONLY <4>0, <4>1, LoweredIs
      <4>3. StandsAt(lg, L + 1, n) = "absent" /\ StandsAt(lg, L, n) \in {"nonvoter", "demoted"} /\ Leaving(lg, L + 1, a, n)
        BY <1>4, <1>5, <1>11, <3>4 DEF Becomes, Follows
      <4> QED BY <2>1, <2>3, <3>4, <4>2, <4>3, <4>4, <4>5 DEF NodeFits
    <3> QED BY <1>11, <3>1, <3>2, <3>3, <3>4, <3>5 DEF Config, Voting
  <2> QED BY <1>8, <1>11, <1>12, <1>13, <2>4 DEF Fits
<1> QED BY <1>2, <1>10, <1>11, <1>14

\* Taking back: raft_pop_log, of the last entry, which is not applied.
LEMMA PopKeeps ==
  ASSUME NEW lg \in Seq(LogEntry), NEW L \in 1 .. Len(lg), NEW a \in 0 .. L - 1, NEW table, NEW X,
         Disciplined(lg, L, a, X), Fits(table, lg, L, a, X), NEW e, e = lg[L], CanPop(table, e),
         NEW n, n = e.node, NEW new, new = Popped(table, e),
         e.type = "ADD_NODE" /\ StandsAt(lg, L - 1, n) = "absent" => n \in X
  PROVE  Disciplined(lg, L - 1, a, X) /\ Fits(new, lg, L - 1, a, X)
<1>1. /\ L - 1 \in 0 .. Len(lg) /\ L \in 0 .. Len(lg) /\ L \in Nat /\ a \in Nat /\ a \in 0 .. L
      /\ L \in a + 1 .. L /\ L \in 1 .. L
      /\ \A k \in 1 .. L - 1 : k \in 1 .. L
      /\ \A k \in a + 1 .. L - 1 : k \in a + 1 .. L /\ L \in k + 1 .. L
      /\ \A k \in a + 1 .. L - 1 : \A j \in k + 1 .. L - 1 : j \in k + 1 .. L
  OBVIOUS
<1>2. e \in LogEntry /\ e.type \in Config \cup {"NORMAL"} /\ (e.type \in Config => n \in Node)
  BY <1>1, EntryIs
<1>3. \A m : ~About(lg, L, m) =>
        /\ StandsAt(lg, L, m) = StandsAt(lg, L - 1, m)
        /\ Leaving(lg, L, a, m) <=> Leaving(lg, L - 1, a, m)
  BY <1>1, StandingStep, LeavingStep
<1>4. e.type \in Config => About(lg, L, n) /\ StandsAt(lg, L, n) = Becomes(e.type)
  BY <1>1, StandingStep DEF About
<1>5. e.type = "REMOVE_NODE" => Leaving(lg, L, a, n)
  BY <1>1, <1>4 DEF Leaving, Config
<1>6a. /\ Touched(table, new, n) /\ DOMAIN new \subseteq DOMAIN table
       /\ e.type # "ADD_NONVOTING_NODE" => DOMAIN new = DOMAIN table
       /\ Self \in DOMAIN table /\ DOMAIN table \subseteq Node
  BY PopTouches DEF Fits
<1>6. e.type \in Config /\ n \notin X => ~Leaving(lg, L - 1, a, n)
  <2>1. ASSUME e.type \in Config, n \notin X, Leaving(lg, L - 1, a, n) PROVE FALSE
    <3>1. PICK k \in a + 1 .. L - 1 : About(lg, k, n) /\ lg[k].type = "REMOVE_NODE"
      BY <2>1 DEF Leaving
    <3>2. About(lg, L, lg[k].node) /\ lg[k].node \notin X
      BY <1>4, <2>1, <3>1 DEF About
    <3> QED BY <1>1, <3>1, <3>2 DEF Disciplined
  <2> QED BY <2>1
<1>7. Disciplined(lg, L - 1, a, X)
  BY <1>1 DEF Disciplined
<1>8. LET stands == StandsAt(lg, L - 1, n)
      IN  n \notin X =>
            /\ e.type = "ADD_NONVOTING_NODE" => stands = "absent"
            /\ e.type = "ADD_NODE" => stands \notin {"voter", "absent"}
            /\ e.type = "DEMOTE_NODE" => stands = "voter"
            /\ e.type = "REMOVE_NODE" => stands \in {"nonvoter", "demoted"}
  BY <1>1 DEF Disciplined
<1>9. \A m : About(lg, L, m) => m = n /\ e.type \in Config
  BY DEF About
<1>10. CASE e.type = "NORMAL"
  <2>1. new = table
    BY <1>2, <1>10, PoppedIs
  <2>2. \A m : ~About(lg, L, m)
    BY <1>9, <1>10 DEF Config, Voting
  <2>3. \A m \in Node \ X : NodeFits(new, lg, L - 1, a, m)
    BY <1>3, <2>1, <2>2, OthersFit DEF Fits
  <2>4. Self \in DOMAIN new /\ DOMAIN new \subseteq Node
    BY <2>1 DEF Fits
  <2> QED BY <1>7, <2>3, <2>4 DEF Fits
<1>12. e.type \in Config => Self \in DOMAIN new /\ DOMAIN new \subseteq Node
  BY <1>6a DEF CanPop, Touched
<1>13. ASSUME e.type \in Config, NEW m \in Node \ X, m # n PROVE NodeFits(new, lg, L - 1, a, m)
  <2>1. ~About(lg, L, m)
    BY <1>9, <1>13
  <2>2. NodeFits(table, lg, L, a, m)
    BY DEF Fits
  <2>3. (m \in DOMAIN new <=> m \in DOMAIN table) /\ (m \in DOMAIN table => new[m] = table[m])
    BY <1>6a, <1>13 DEF Touched
  <2>4. m \in Node
    OBVIOUS
  <2> QED BY <1>3, <2>1, <2>2, <2>3, <2>4, OthersFit
<1>14. CASE e.type \in Config /\ n \in X
  BY <1>7, <1>12, <1>13, <1>14 DEF Fits
<1>11. CASE e.type \in Config /\ n \notin X
  <2>1. n \in Node /\ NodeFits(table, lg, L, a, n)
    BY <1>2, <1>11 DEF Fits
  <2>3. n \in DOMAIN table /\ table[n] \in Flags
    BY <1>1, <1>4, <1>11, <2>1, UnappliedIsThere DEF NodeFits
  <2>4. /\ DOMAIN new \subseteq DOMAIN table /\ DOMAIN table \ {n} \subseteq DOMAIN new
        /\ \A m \in DOMAIN table : m # n => new[m] = table[m]
        /\ NodeFits(new, lg, L - 1, a, n)
    <3>1. CASE e.type = "ADD_NONVOTING_NODE"
      <4>1. new = WithoutNode(table, n)
        BY <1>2, <3>1, PoppedIs
      <4>2. DOMAIN new = DOMAIN table \ {n}
        BY ONLY <4>1, WithoutNodes
      <4>3. \A m \in DOMAIN table : m # n => new[m] = table[m]
        BY ONLY <4>1, WithoutOthers
      <4> QED BY <1>6, <1>8, <1>11, <3>1, <4>2, <4>3 DEF NodeFits
    <3>2. CASE e.type = "ADD_NODE"
      <4>0. n \in DOMAIN table /\ table[n] \in Flags
        BY <2>3, <3>2
      <4>1. new = Lowered(table, n, "voting")
        BY <1>2, <2>3, <3>2, PoppedIs
      <4>2. DOMAIN new = DOMAIN table
        BY ONLY <4>1, LoweredNodes
      <4>5. \A m \in DOMAIN table : m # n => new[m] = table[m]
        BY ONLY <4>1, LoweredOthers
      <4>4. new[n] \in Flags /\ ~new[n].voting /\ new[n].active = table[n].active /\ new[n].votingCommitted = table[n].votingCommitted
        BY ONLY <4>0, <4>1, LoweredIs
      <4>3. StandsAt(lg, L, n) = "voter" /\ StandsAt(lg, L - 1, n) \notin {"voter", "absent"}
        BY <1>4, <1>8, <1>11, <3>2 DEF Becomes, Disciplined, MadeVoter
      <4> QED BY <2>1, <2>3, <3>2, <4>2, <4>3, <4>4, <4>5 DEF NodeFits
    <3>3. CASE e.type = "DEMOTE_NODE"
      <4>0. n \in DOMAIN table /\ table[n] \in Flags
        BY <2>3, <3>3
      <4>1. new = Raised(table, n, "voting")
        BY <1>2, <2>3, <3>3, PoppedIs
      <4>2. DOMAIN new = DOMAIN table
        BY ONLY <4>1, RaisedNodes
      <4>5. \A m \in DOMAIN table : m # n => new[m] = table[m]
        BY ONLY <4>1, RaisedOthers
      <4>4. new[n] \in Flags /\ new[n].voting /\ new[n].active = table[n].active /\ new[n].votingCommitted = table[n].votingCommitted
        BY ONLY <4>0, <4>1, RaisedIs
      <4>3. StandsAt(lg, L, n) = "demoted" /\ StandsAt(lg, L - 1, n) = "voter"
        BY <1>4, <1>8, <1>11, <3>3 DEF Becomes, Disciplined, MadeVoter
      <4> QED BY <2>1, <2>3, <3>3, <4>2, <4>3, <4>4, <4>5 DEF NodeFits
    <3>4. CASE e.type = "REMOVE_NODE"
      <4>0. n \in DOMAIN table /\ table[n] \in Flags
        BY <2>3, <3>4
      <4>1. new = Raised(table, n, "active")
        BY <1>2, <2>3, <3>4, PoppedIs
      <4>2. DOMAIN new = DOMAIN table
        BY ONLY <4>1, RaisedNodes
      <4>5. \A m \in DOMAIN table : m # n => new[m] = table[m]
        BY ONLY <4>1, RaisedOthers
      <4>4. new[n] \in Flags /\ new[n].active /\ new[n].voting = table[n].voting /\ new[n].votingCommitted = table[n].votingCommitted
        BY ONLY <4>0, <4>1, RaisedIs
      <4>3. StandsAt(lg, L, n) = "absent" /\ StandsAt(lg, L - 1, n) \in {"nonvoter", "demoted"}
        BY <1>4, <1>8, <1>11, <3>4 DEF Becomes, Disciplined, MadeVoter
      <4> QED BY <2>1, <2>3, <3>4, <4>2, <4>3, <4>4, <4>5 DEF NodeFits
    <3> QED BY <1>11, <3>1, <3>2, <3>3, <3>4 DEF Config, Voting
  <2> QED BY <1>7, <1>11, <1>12, <1>13, <2>4 DEF Fits
<1> QED BY <1>2, <1>10, <1>11, <1>14

\* Applying: raft_apply_entry, of the first entry that is not applied.
LEMMA ConfirmKeeps ==
  ASSUME NEW lg \in Seq(LogEntry), NEW L \in 1 .. Len(lg), NEW a \in 0 .. L - 1, NEW table, NEW X,
         Disciplined(lg, L, a, X), Fits(table, lg, L, a, X), NEW e, e = lg[a + 1],
         e.type = "REMOVE_NODE" => e.node # Self,
         NEW n, n = e.node, NEW new, new = Confirmed(table, e)
  PROVE  Disciplined(lg, L, a + 1, X) /\ Fits(new, lg, L, a + 1, X)
<1>1. /\ L \in 0 .. Len(lg) /\ L \in Nat /\ a \in Nat /\ a \in 0 .. L /\ a + 1 \in 1 .. Len(lg)
      /\ a + 1 \in a + 1 .. L /\ a + 1 \in 1 .. L /\ a + 1 - 1 = a
      /\ \A k \in a + 1 + 1 .. L : k \in a + 1 .. L
      /\ \A k \in a + 1 .. L : k = a + 1 \/ k \in a + 1 + 1 .. L
  OBVIOUS
<1>2. e \in LogEntry /\ e.type \in Config \cup {"NORMAL"} /\ (e.type \in Config => n \in Node)
  BY <1>1, EntryIs
<1>3. \A m \in Node : ~About(lg, a + 1, m) =>
        /\ MadeVoter(lg, a + 1, m) <=> MadeVoter(lg, a, m)
        /\ Leaving(lg, L, a + 1, m) <=> Leaving(lg, L, a, m)
  <2>1. TAKE m \in Node
  <2>2. HAVE ~About(lg, a + 1, m)
  <2>3. MadeVoter(lg, a + 1, m) <=> MadeVoter(lg, a, m)
    BY <1>1, <2>2, VoterStep
  <2> QED BY <1>1, <2>2, <2>3 DEF Leaving
<1>4. e.type \in Config => About(lg, a + 1, n) /\ (MadeVoter(lg, a + 1, n) <=> e.type = "ADD_NODE")
  BY <1>1, <1>2, VoterStep DEF About
<1>5. e.type \in Config /\ e.type # "REMOVE_NODE" => (Leaving(lg, L, a + 1, n) <=> Leaving(lg, L, a, n))
  BY <1>1 DEF Leaving
<1>6a. /\ Touched(table, new, n) /\ DOMAIN new \subseteq DOMAIN table
       /\ e.type # "REMOVE_NODE" => DOMAIN new = DOMAIN table
       /\ Self \in DOMAIN table /\ DOMAIN table \subseteq Node
  BY ConfirmTouches DEF Fits
<1>6. e.type = "REMOVE_NODE" /\ n \notin X => ~Leaving(lg, L, a + 1, n) /\ StandsAt(lg, L, n) = "absent"
  <2>1. HAVE e.type = "REMOVE_NODE" /\ n \notin X
  <2>2. Leaving(lg, L, a, n)
    BY <1>1, <1>4, <2>1 DEF Leaving, Config
  <2>3. StandsAt(lg, L, n) = "absent"
    BY <1>1, <2>1, <2>2, LeavingIsAbsent
  <2>4. \A j \in a + 1 + 1 .. L : ~About(lg, j, n)
    BY <1>1, <2>1 DEF Disciplined
  <2> QED BY <2>3, <2>4 DEF Leaving
<1>7. Disciplined(lg, L, a + 1, X)
  BY <1>1 DEF Disciplined
<1>8. e.type = "ADD_NONVOTING_NODE" /\ n \notin X => ~MadeVoter(lg, a, n)
  BY <1>1 DEF Disciplined, MadeVoter
<1>9. \A m : About(lg, a + 1, m) => m = n /\ e.type \in Config
  BY DEF About
<1>10. CASE e.type = "NORMAL"
  <2>1. new = table
    BY <1>2, <1>10, ConfirmedIs
  <2>2. \A m : ~About(lg, a + 1, m)
    BY <1>9, <1>10 DEF Config, Voting
  <2>3. \A m \in Node \ X : NodeFits(new, lg, L, a + 1, m)
    BY <1>3, <2>1, <2>2, OthersFit DEF Fits
  <2>4. Self \in DOMAIN new /\ DOMAIN new \subseteq Node
    BY <2>1 DEF Fits
  <2> QED BY <1>7, <2>3, <2>4 DEF Fits
<1>12. e.type \in Config => Self \in DOMAIN new /\ DOMAIN new \subseteq Node
  BY <1>6a DEF Touched
<1>13. ASSUME e.type \in Config, NEW m \in Node \ X, m # n PROVE NodeFits(new, lg, L, a + 1, m)
  <2>1. ~About(lg, a + 1, m)
    BY <1>9, <1>13
  <2>2. NodeFits(table, lg, L, a, m)
    BY DEF Fits
  <2>3. (m \in DOMAIN new <=> m \in DOMAIN table) /\ (m \in DOMAIN table => new[m] = table[m])
    BY <1>6a, <1>13 DEF Touched
  <2>4. m \in Node
    OBVIOUS
  <2> QED BY <1>3, <2>1, <2>2, <2>3, <2>4, OthersFit
<1>14. CASE e.type \in Config /\ n \in X
  BY <1>7, <1>12, <1>13, <1>14 DEF Fits
<1>11. CASE e.type \in Config /\ n \notin X
  <2>1. n \in Node /\ NodeFits(table, lg, L, a, n)
    BY <1>2, <1>11 DEF Fits
  <2>3. n \in DOMAIN table /\ table[n] \in Flags
    BY <1>1, <1>4, <1>11, <2>1, UnappliedIsThere DEF NodeFits
  <2>4. /\ DOMAIN new \subseteq DOMAIN table /\ DOMAIN table \ {n} \subseteq DOMAIN new
        /\ \A m \in DOMAIN table : m # n => new[m] = table[m]
        /\ NodeFits(new, lg, L, a + 1, n)
    <3>1. CASE e.type = "REMOVE_NODE"
      <4>1. new = WithoutNode(table, n)
        BY <1>2, <2>3, <3>1, ConfirmedIs
      <4>2. DOMAIN new = DOMAIN table \ {n}
        BY ONLY <4>1, WithoutNodes
      <4>3. \A m \in DOMAIN table : m # n => new[m] = table[m]
        BY ONLY <4>1, WithoutOthers
      <4> QED BY <1>6, <1>11, <3>1, <4>2, <4>3 DEF NodeFits
    <3>2. CASE e.type = "ADD_NODE"
      <4>0. PICK mid : mid = Raised(table, n, "additionCommitted")
        OBVIOUS
      <4>1. new = Raised(mid, n, "votingCommitted")
        BY <1>2, <2>3, <3>2, <4>0, ConfirmedIs
      <4>2. DOMAIN mid = DOMAIN table
        BY ONLY <4>0, RaisedNodes
      <4>3. DOMAIN new = DOMAIN mid
        BY ONLY <4>1, RaisedNodes
      <4>4. \A m \in DOMAIN table : m # n => mid[m] = table[m]
        BY ONLY <4>0, RaisedOthers
      <4>5. \A m \in DOMAIN mid : m # n => new[m] = mid[m]
        BY ONLY <4>1, RaisedOthers
      <4>6. mid[n] \in Flags /\ mid[n].voting = table[n].voting /\ mid[n].active = table[n].active
        BY ONLY <2>3, <4>0, RaisedIs
      <4>7. n \in DOMAIN mid
        BY <2>3, <4>2
      <4>8. /\ new[n] \in Flags /\ new[n].votingCommitted /\ new[n].voting = mid[n].voting
            /\ new[n].active = mid[n].active
        BY ONLY <4>1, <4>6, <4>7, RaisedIs
      <4>9. MadeVoter(lg, a + 1, n) /\ (Leaving(lg, L, a + 1, n) <=> Leaving(lg, L, a, n))
        BY <1>4, <1>5, <1>11, <3>2
      <4>10. NodeFits(new, lg, L, a + 1, n)
        BY <2>1, <2>3, <4>2, <4>3, <4>6, <4>8, <4>9 DEF NodeFits
      <4> QED BY <4>2, <4>3, <4>4, <4>5, <4>10
    <3>3. CASE e.type = "ADD_NONVOTING_NODE"
      <4>0. n \in DOMAIN table /\ table[n] \in Flags
        BY <2>3, <3>3
      <4>1. new = Raised(table, n, "additionCommitted")
        BY <1>2, <2>3, <3>3, ConfirmedIs
      <4>2. DOMAIN new = DOMAIN table
        BY ONLY <4>1, RaisedNodes
      <4>5. \A m \in DOMAIN table : m # n => new[m] = table[m]
        BY ONLY <4>1, RaisedOthers
      <4>4. new[n] \in Flags /\ new[n].voting = table[n].voting /\ new[n].active = table[n].active /\ new[n].votingCommitted = table[n].votingCommitted
        BY ONLY <4>0, <4>1, RaisedIs
      <4>3. (Leaving(lg, L, a + 1, n) <=> Leaving(lg, L, a, n)) /\ ~MadeVoter(lg, a + 1, n) /\ ~MadeVoter(lg, a, n)
        BY <1>4, <1>5, <1>8, <1>11, <3>3 DEF Becomes, Disciplined, MadeVoter
      <4> QED BY <2>1, <2>3, <3>3, <4>2, <4>3, <4>4, <4>5 DEF NodeFits
    <3>4. CASE e.type = "DEMOTE_NODE"
      <4>0. n \in DOMAIN table /\ table[n] \in Flags
        BY <2>3, <3>4
      <4>1. new = Lowered(table, n, "votingCommitted")
        BY <1>2, <2>3, <3>4, ConfirmedIs
      <4>2. DOMAIN new = DOMAIN table
        BY ONLY <4>1, LoweredNodes
      <4>5. \A m \in DOMAIN table : m # n => new[m] = table[m]
        BY ONLY <4>1, LoweredOthers
      <4>4. new[n] \in Flags /\ ~new[n].votingCommitted /\ new[n].voting = table[n].voting /\ new[n].active = table[n].active
        BY ONLY <4>0, <4>1, LoweredIs
      <4>3. (Leaving(lg, L, a + 1, n) <=> Leaving(lg, L, a, n)) /\ ~MadeVoter(lg, a + 1, n)
        BY <1>4, <1>5, <1>11, <3>4 DEF Becomes, Disciplined, MadeVoter
      <4> QED BY <2>1, <2>3, <3>4, <4>2, <4>3, <4>4, <4>5 DEF NodeFits
    <3> QED BY <1>11, <3>1, <3>2, <3>3, <3>4 DEF Config, Voting
  <2> QED BY <1>7, <1>11, <1>12, <1>13, <2>4 DEF Fits
<1> QED BY <1>2, <1>10, <1>11, <1>14

\* What holds of the first L entries holds of another log that begins with them.
LEMMA SameStartFits ==
  ASSUME NEW lg \in Seq(LogEntry), NEW lh \in Seq(LogEntry), NEW L \in Nat, L <= Len(lg), L <= Len(lh),
         \A j \in 1 .. L : lg[j] = lh[j], NEW a \in 0 .. L, NEW table,
         NEW X, Disciplined(lg, L, a, X), Fits(table, lg, L, a, X)
  PROVE  Disciplined(lh, L, a, X) /\ Fits(table, lh, L, a, X)
<1>1. /\ \A k \in 1 .. L : k - 1 \in 0 .. L
      /\ \A k \in a + 1 .. L : k \in 1 .. L /\ \A j \in k + 1 .. L : j \in 1 .. L
      /\ L \in 0 .. L /\ a \in 0 .. L
  OBVIOUS
<1>2. \A k \in 0 .. L : \A n :
        StandsAt(lg, k, n) = StandsAt(lh, k, n) /\ (MadeVoter(lg, k, n) <=> MadeVoter(lh, k, n))
  BY SameStart
<1>3. \A k \in 1 .. L : \A n : About(lg, k, n) <=> About(lh, k, n)
  BY DEF About
<1>4. \A n : Leaving(lg, L, a, n) <=> Leaving(lh, L, a, n)
  BY <1>1, <1>3 DEF Leaving
<1>5. Fits(table, lh, L, a, X)
  <2>1. ASSUME NEW n \in Node \ X PROVE NodeFits(table, lh, L, a, n)
    <3>1. /\ StandsAt(lh, L, n) = StandsAt(lg, L, n) /\ (MadeVoter(lh, a, n) <=> MadeVoter(lg, a, n))
          /\ Leaving(lh, L, a, n) <=> Leaving(lg, L, a, n)
      BY <1>1, <1>2, <1>4
    <3>2. NodeFits(table, lg, L, a, n)
      BY DEF Fits
    <3> QED BY <3>1, <3>2 DEF NodeFits
  <2> QED BY <2>1 DEF Fits
<1>6. \A k \in 1 .. L : \A n : StandsAt(lg, k - 1, n) = StandsAt(lh, k - 1, n)
  BY <1>1, <1>2
<1>7. Disciplined(lh, L, a, X)
  BY <1>1, <1>3, <1>6 DEF Disciplined
<1> QED BY <1>5, <1>7

\* There is a row of tables that raft_pop_log leaves behind.
Row(T, k) ==
  T = [j \in k .. Len(log) + 1 |-> IF j = Len(log) + 1 THEN nodes ELSE Popped(T[j + 1], log[j])]

LEMMA RowStarts == \E T : Row(T, Len(log) + 1)
<1> DEFINE T == [j \in Len(log) + 1 .. Len(log) + 1 |-> nodes]
<1>1. T = [j \in Len(log) + 1 .. Len(log) + 1 |->
             IF j = Len(log) + 1 THEN nodes ELSE Popped(T[j + 1], log[j])]
  OBVIOUS
<1> QED BY <1>1 DEF Row

LEMMA RowGrows ==
  ASSUME log \in Seq(LogEntry), NEW k \in 1 .. Len(log), NEW T, Row(T, k + 1)
  PROVE  \E U : Row(U, k)
<1> DEFINE L == Len(log) + 1
           U == [j \in k .. L |-> IF j = k THEN Popped(T[k + 1], log[k]) ELSE T[j]]
<1>1. /\ L \in Nat /\ k # L /\ k \in Nat /\ k \in k .. L /\ (\A j \in k .. L : j = k \/ j \in k + 1 .. L)
      /\ k + 1 \in k .. L /\ k + 1 # k /\ \A j \in k + 1 .. L : j # k /\ (j # L => j + 1 \in k .. L /\ j + 1 # k)
  OBVIOUS
<1>2. \A j \in k + 1 .. L : T[j] = IF j = L THEN nodes ELSE Popped(T[j + 1], log[j])
  BY DEF Row
<1> HIDE DEF L
<1>3. \A j \in k .. L : U[j] = IF j = L THEN nodes ELSE Popped(U[j + 1], log[j])
  <2>1. TAKE j \in k .. L
  <2>2. CASE j = k
    BY <1>1, <2>2
  <2>3. CASE j \in k + 1 .. L
    <3>1. U[j] = T[j]
      BY <1>1, <2>3
    <3>2. j # L => U[j + 1] = T[j + 1]
      BY <1>1, <2>3
    <3> QED BY <1>2, <2>3, <3>1, <3>2
  <2> QED BY <1>1, <2>2, <2>3
<1>4. U = [j \in k .. L |-> U[j]]
  OBVIOUS
<1> HIDE DEF U
<1>5. U = [j \in k .. L |-> IF j = L THEN nodes ELSE Popped(U[j + 1], log[j])]
  BY <1>3, <1>4
<1> QED BY <1>5 DEF Row, L

LEMMA RowIsThere ==
  ASSUME log \in Seq(LogEntry), NEW k \in 1 .. Len(log) + 1
  PROVE  Row(TablesFrom(k), k)
<1> DEFINE short == {d \in 0 .. Len(log) : ~ \E T : Row(T, Len(log) + 1 - d)}
<1>1. Len(log) \in Nat
  OBVIOUS
<1>2. ASSUME short # {} PROVE FALSE
  <2>1. short \subseteq Nat
    OBVIOUS
  <2>2. PICK d \in short : \A c \in short : d <= c
    BY <1>2, <2>1, LeastNumber
  <2>3. d # 0
    BY <1>1, RowStarts
  <2>4. d - 1 \notin short /\ d - 1 \in 0 .. Len(log)
    BY <1>1, <2>2, <2>3
  <2>5. PICK T : Row(T, Len(log) + 1 - (d - 1))
    BY <2>4
  <2>6. Len(log) + 1 - (d - 1) = (Len(log) + 1 - d) + 1 /\ Len(log) + 1 - d \in 1 .. Len(log)
    BY <1>1, <2>3
  <2>7. \E U : Row(U, Len(log) + 1 - d)
    BY <2>5, <2>6, RowGrows
  <2> QED BY <2>7
<1>3. Len(log) + 1 - k \in 0 .. Len(log) /\ Len(log) + 1 - (Len(log) + 1 - k) = k
  BY <1>1
<1>4. \E T : Row(T, k)
  BY <1>2, <1>3
<1> HIDE DEF short
<1>5. TablesFrom(k) = CHOOSE T : Row(T, k)
  BY DEF TablesFrom, Row
<1> QED BY <1>4, <1>5

\* Taking back a whole tail of the log.
LEMMA DeletionKeeps ==
  ASSUME log \in Seq(LogEntry), NEW a \in Nat, NEW k \in a + 1 .. Len(log) + 1,
         NEW X, Disciplined(log, Len(log), a, X), Fits(nodes, log, Len(log), a, X),
         Undone(k) \subseteq X, \A j \in k .. Len(log) : CanPop(TablesFrom(k)[j + 1], log[j])
  PROVE  Disciplined(log, k - 1, a, X) /\ Fits(TablesFrom(k)[k], log, k - 1, a, X)
<1>0. PICK T : T = TablesFrom(k)
  OBVIOUS
<1> DEFINE L == Len(log)
           Good(j) == Disciplined(log, j - 1, a, X) /\ Fits(T[j], log, j - 1, a, X)
           bad == {d \in 0 .. L + 1 - k : ~Good(L + 1 - d)}
<1>1. L \in Nat /\ k \in Nat /\ k \in 1 .. L + 1 /\ L + 1 \in k .. L + 1 /\ L + 1 - 1 = L /\ L + 1 - 0 = L + 1
  OBVIOUS
<1>2. \A j \in k .. L + 1 : T[j] = IF j = L + 1 THEN nodes ELSE Popped(T[j + 1], log[j])
  BY <1>0, <1>1, RowIsThere DEF Row
<1>3. ASSUME bad # {} PROVE FALSE
  <2>1. bad \subseteq Nat
    BY <1>1
  <2>0. PICK B : B = bad
    OBVIOUS
  <2>2. PICK d \in bad : \A c \in B : d <= c
    BY <1>3, <2>0, <2>1, LeastNumber
  <2>3. d # 0
    BY <1>1, <1>2
  <2>4. PICK j : j = L + 1 - d
    OBVIOUS
  <2>5. d \in 0 .. L + 1 - k /\ d \in Nat
    BY <1>1, <2>2
  <2>6. d - 1 \notin bad
    <3>1. d - 1 \notin B
      BY ONLY <2>2, <2>5
    <3> QED BY <2>0, <3>1
  <2>7. /\ j \in k .. L /\ j \in k .. L + 1 /\ j # L + 1 /\ j \in 1 .. L /\ a \in 0 .. j - 1
        /\ d - 1 \notin bad /\ d - 1 \in 0 .. L + 1 - k /\ L + 1 - (d - 1) = j + 1 /\ j + 1 - 1 = j
    BY <1>1, <2>3, <2>4, <2>5, <2>6
  <2>8. Good(j + 1)
    BY <2>7
  <2>9. Disciplined(log, j, a, X) /\ Fits(T[j + 1], log, j, a, X)
    BY <2>7, <2>8
  <2>10. T[j] = Popped(T[j + 1], log[j]) /\ CanPop(T[j + 1], log[j])
    BY <1>0, <1>2, <2>7
  <2>12. log[j].type = "ADD_NODE" /\ StandsAt(log, j - 1, log[j].node) = "absent" => log[j].node \in X
    BY <2>7 DEF Undone, StandsAt
  <2>11. Disciplined(log, j - 1, a, X) /\ Fits(T[j], log, j - 1, a, X)
    BY <2>7, <2>9, <2>10, <2>12, PopKeeps
  <2> QED BY <2>2, <2>4, <2>11
<1>4. L + 1 - k \in 0 .. L + 1 - k /\ L + 1 - (L + 1 - k) = k
  BY <1>1
<1>5. Good(k)
  BY <1>3, <1>4
<1> QED BY <1>0, <1>5

MemberInv ==
  /\ log \in Seq(LogEntry) /\ commitIdx \in 0 .. Len(log) /\ lastApplied \in 0 .. commitIdx
  /\ Disciplined(log, Len(log), lastApplied, astray) /\ Fits(nodes, log, Len(log), lastApplied, astray)

LEMMA MemberStarts == MemberInit => MemberInv
<1> HAVE MemberInit
<1>1. /\ log = <<>> /\ log \in Seq(LogEntry) /\ Len(log) = 0 /\ commitIdx = 0 /\ lastApplied = 0
  BY DEF MemberInit
<1>2. \A n : Mine(log, 0, n) = {}
  BY DEF Mine
<1>3. ASSUME NEW n \in Node
      PROVE  StandsAt(log, 0, n) = At0(n) /\ ~MadeVoter(log, 0, n) /\ ~Leaving(log, 0, 0, n)
  <2>1. 0 \in 0 .. Len(log) /\ Mine(log, 0, n) = {}
    BY <1>1, <1>2
  <2>2. StandsAt(log, 0, n) = At0(n)
    BY <1>1, <2>1, StandingFirst
  <2> QED BY <2>2 DEF MadeVoter, Leaving
<1>4. DOMAIN nodes = Founders /\ \A n \in Founders : nodes[n] = NewNode(TRUE)
  BY DEF MemberInit
<1>5. PICK flags : flags = NewNode(TRUE)
  OBVIOUS
<1>6. flags \in Flags /\ flags.active /\ flags.voting /\ ~flags.votingCommitted
  BY <1>5 DEF NewNode, Flags
<1>7. \A n \in Node : NodeFits(nodes, log, 0, 0, n)
  <2>1. TAKE n \in Node
  <2>2. CASE n \in Founders
    <3>1. nodes[n] = flags /\ StandsAt(log, 0, n) = "voter"
      BY <1>3, <1>4, <1>5, <2>2 DEF At0
    <3> QED BY <1>3, <1>4, <1>6, <2>2, <3>1 DEF NodeFits
  <2>3. CASE n \notin Founders
    BY <1>3, <1>4, <2>3 DEF NodeFits, At0
  <2> QED BY <2>2, <2>3
<1>8. Fits(nodes, log, 0, 0, astray)
  BY <1>4, <1>7, FoundersAssumption DEF Fits
<1>9. Disciplined(log, 0, 0, astray)
  BY DEF Disciplined
<1> QED BY <1>1, <1>8, <1>9 DEF MemberInv

LEMMA InTurnFollows ==
  ASSUME MemberInv, NEW e \in LogEntry, InTurn(e)
  PROVE  Follows(nodes, log, Len(log), e)
<1>1. StandsAt(log, Len(log), e.node) = Standing(log, e.node)
  BY SubSeqFull DEF MemberInv, StandsAt
<1> QED BY <1>1 DEF InTurn, Follows

LEMMA AppendedKeeps ==
  ASSUME MemberInv, NEW e \in LogEntry, astray' = Strayed(e),
         log' = Append(log, e), nodes' = Offered(nodes, e),
         lastApplied' = lastApplied, commitIdx' \in {commitIdx, Len(log) + 1}
  PROVE  MemberInv'
<1> DEFINE L == Len(log)
<1>1. PICK lg : lg = Append(log, e)
  OBVIOUS
<1>0. PICK X : X = Strayed(e)
  OBVIOUS
<1>2. /\ lg \in Seq(LogEntry) /\ Len(lg) = L + 1 /\ lg[L + 1] = e /\ L \in Nat
      /\ \A j \in 1 .. L : log[j] = lg[j]
  BY <1>1, AppendProperties DEF MemberInv
<1>3. lastApplied \in 0 .. L /\ L <= Len(lg) /\ L <= Len(log) /\ L \in 0 .. Len(lg) /\ L + 1 <= Len(lg)
      /\ L \in 0 .. L
  BY <1>2 DEF MemberInv
<1>4. Disciplined(lg, L, lastApplied, X) /\ Fits(nodes, lg, L, lastApplied, X)
  <2>1. astray \subseteq X
    BY <1>0 DEF Strayed
  <2>2. Disciplined(log, L, lastApplied, X) /\ Fits(nodes, log, L, lastApplied, X)
    BY <2>1, MoreAstray DEF MemberInv
  <2> QED BY <1>2, <1>3, <2>2, SameStartFits DEF MemberInv
<1>5. e.node \notin X => Follows(nodes, lg, L, e)
  <2>1. StandsAt(lg, L, e.node) = StandsAt(log, L, e.node)
    BY <1>2, <1>3, SameStart DEF MemberInv
  <2>2. e.node \notin X => InTurn(e)
    BY <1>0 DEF Strayed
  <2> QED BY <2>1, <2>2, InTurnFollows DEF Follows
<1>6. Disciplined(lg, L + 1, lastApplied, X) /\ Fits(nodes', lg, L + 1, lastApplied, X)
  BY <1>2, <1>3, <1>4, <1>5, OfferKeeps
<1>7. commitIdx' \in 0 .. L + 1 /\ lastApplied' \in 0 .. commitIdx'
  BY <1>2 DEF MemberInv
<1> QED BY <1>0, <1>1, <1>2, <1>6, <1>7 DEF MemberInv

LEMMA DeletedKeeps ==
  ASSUME MemberInv, NEW ix, DeleteEntries(ix)
  PROVE  MemberInv'
<1>1. PICK k \in ix .. Len(log) + 1 :
        /\ log' = SubSeq(log, 1, k - 1) /\ nodes' = TablesFrom(k)[k]
        /\ \A j \in k .. Len(log) : CanPop(TablesFrom(k)[j + 1], log[j])
        /\ astray' = astray \cup Undone(k)
  BY DEF DeleteEntries
<1>2. /\ ix \in commitIdx + 1 .. Len(log) /\ commitIdx' = commitIdx /\ lastApplied' = lastApplied
  BY DEF DeleteEntries, indices
<1>3. /\ Len(log) \in Nat /\ commitIdx \in Nat /\ lastApplied \in Nat /\ lastApplied <= commitIdx
      /\ k \in Nat /\ k - 1 \in 0 .. Len(log) /\ commitIdx \in 0 .. k - 1 /\ lastApplied \in 0 .. k - 1
      /\ k \in lastApplied + 1 .. Len(log) + 1 /\ k - 1 \in Nat
  BY <1>1, <1>2 DEF MemberInv
<1>4. PICK lg : lg = SubSeq(log, 1, k - 1)
  OBVIOUS
<1>5. lg \in Seq(LogEntry) /\ Len(lg) = k - 1 /\ \A j \in 1 .. k - 1 : log[j] = lg[j]
  BY <1>3, <1>4, FirstEntries DEF MemberInv
<1>0. PICK X : X = astray \cup Undone(k)
  OBVIOUS
<1>8. Disciplined(log, Len(log), lastApplied, X) /\ Fits(nodes, log, Len(log), lastApplied, X)
  <2>1. astray \subseteq X
    BY <1>0
  <2> QED BY <2>1, MoreAstray DEF MemberInv
<1>9. Undone(k) \subseteq X
  BY <1>0
<1>6. Disciplined(log, k - 1, lastApplied, X) /\ Fits(nodes', log, k - 1, lastApplied, X)
  BY <1>1, <1>3, <1>8, <1>9, DeletionKeeps DEF MemberInv
<1>7. Disciplined(lg, k - 1, lastApplied, X) /\ Fits(nodes', lg, k - 1, lastApplied, X)
  BY <1>3, <1>5, <1>6, SameStartFits DEF MemberInv
<1> QED BY <1>0, <1>1, <1>2, <1>3, <1>4, <1>5, <1>7 DEF MemberInv

\* Who is in the table, who votes and what is confirmed are what the log says, for any nodes
\* and any log, of every node about which no entry came out of turn and that did not come
\* with a vote by an entry taken back (raft_offer_log, raft_pop_log and raft_apply_entry
\* agree).
THEOREM TableFollowsLog == MemberSpec => []NodesFollowLog
<1>1. MemberInv /\ [MemberNext]_memberVars => MemberInv'
  <2>1. SUFFICES ASSUME MemberInv, [MemberNext]_memberVars PROVE MemberInv'
    OBVIOUS
  <2>2. CASE UNCHANGED memberVars
    BY <2>1, <2>2 DEF memberVars, MemberInv
  <2>3. ASSUME NEW e \in LogEntry, NEW refused \in BOOLEAN, RecvEntry(e, refused) PROVE MemberInv'
    <3>1. CASE refused
      BY <2>1, <2>3, <3>1 DEF RecvEntry, MemberInv
    <3>2. CASE ~refused
      <4>1. /\ astray' = Strayed(e) /\ log' = Append(log, e) /\ nodes' = Offered(nodes, e)
            /\ lastApplied' = lastApplied /\ commitIdx' \in {commitIdx, Len(log')}
        BY <2>3, <3>2 DEF RecvEntry
      <4>2. Len(log') = Len(log) + 1
        BY <2>1, <4>1, AppendProperties DEF MemberInv
      <4> QED BY <2>1, <4>1, <4>2, AppendedKeeps
    <3> QED BY <3>1, <3>2
  <2>4. ASSUME NEW e \in LogEntry, NEW refused \in BOOLEAN, AppendFromLeader(e, refused) PROVE MemberInv'
    <3>1. CASE refused
      BY <2>1, <2>4, <3>1 DEF AppendFromLeader, MemberInv, indices
    <3>2. CASE ~refused
      <4>1. /\ astray' = Strayed(e) /\ log' = Append(log, e) /\ nodes' = Offered(nodes, e)
            /\ lastApplied' = lastApplied /\ commitIdx' = commitIdx
        BY <2>4, <3>2 DEF AppendFromLeader, indices
      <4> QED BY <2>1, <4>1, AppendedKeeps
    <3> QED BY <3>1, <3>2
  <2>5. ASSUME NEW ix, DeleteEntries(ix) PROVE MemberInv'
    BY <2>1, <2>5, DeletedKeeps
  <2>6. ASSUME NEW ix, Commit(ix) PROVE MemberInv'
    BY <2>1, <2>6 DEF Commit, MemberInv
  <2>7. CASE ApplyEntry
    <3>1. PICK a : a = lastApplied
      OBVIOUS
    <3>2. PICK new : new = Confirmed(nodes, log[a + 1])
      OBVIOUS
    <3>3. /\ a < commitIdx /\ lastApplied' = a + 1 /\ nodes' = new /\ log' = log /\ commitIdx' = commitIdx
          /\ astray' = astray /\ (log[a + 1].type = "REMOVE_NODE" => log[a + 1].node # Self)
      BY <2>7, <3>1, <3>2 DEF ApplyEntry, CanApply
    <3>4. /\ Len(log) \in 1 .. Len(log) /\ a \in 0 .. Len(log) - 1 /\ a + 1 \in 0 .. commitIdx
      BY <2>1, <3>1, <3>3 DEF MemberInv
    <3>5. Disciplined(log, Len(log), a + 1, astray) /\ Fits(new, log, Len(log), a + 1, astray)
      BY <2>1, <3>1, <3>2, <3>3, <3>4, ConfirmKeeps DEF MemberInv
    <3> QED BY <2>1, <3>3, <3>4, <3>5 DEF MemberInv
  <2>8. CASE BecomeLeader \/ BecomeFollower
    BY <2>1, <2>8 DEF BecomeLeader, BecomeFollower, MemberInv, indices
  <2> QED BY <2>1, <2>2, <2>3, <2>4, <2>5, <2>6, <2>7, <2>8 DEF MemberNext
<1>2. MemberInv => NodesFollowLog
  <2>1. SUFFICES ASSUME MemberInv, NEW n \in Node \ astray
                 PROVE  /\ Standing(log, n) = "absent" => n \notin DOMAIN nodes \/ ~nodes[n].active
                        /\ Standing(log, n) \in {"voter", "nonvoter"} => n \in DOMAIN nodes /\ nodes[n].active
                        /\ Standing(log, n) # "absent" =>
                             n \in DOMAIN nodes /\ (nodes[n].voting <=> Standing(log, n) = "voter")
                        /\ n \in DOMAIN nodes =>
                             (nodes[n].votingCommitted <=>
                                /\ Standing(SubSeq(log, 1, lastApplied), n) = "voter"
                                /\ {k \in 1 .. lastApplied : log[k] = [type |-> "ADD_NODE", node |-> n]} # {})
                        /\ \A k \in lastApplied + 1 .. Len(log) :
                             log[k].type \in Config /\ log[k].node = n => n \in DOMAIN nodes
    BY DEF NodesFollowLog
  <2>2. StandsAt(log, Len(log), n) = Standing(log, n)
    BY <2>1, SubSeqFull DEF MemberInv, StandsAt
  <2>3. NodeFits(nodes, log, Len(log), lastApplied, n)
    BY <2>1 DEF MemberInv, Fits
  <2>4. MadeVoter(log, lastApplied, n) <=>
          /\ Standing(SubSeq(log, 1, lastApplied), n) = "voter"
          /\ {k \in 1 .. lastApplied : log[k] = [type |-> "ADD_NODE", node |-> n]} # {}
    BY DEF MadeVoter, StandsAt
  <2>5. ASSUME NEW k \in lastApplied + 1 .. Len(log), log[k].type \in Config, log[k].node = n
        PROVE  n \in DOMAIN nodes
    <3>1. Len(log) \in 0 .. Len(log) /\ lastApplied \in 0 .. Len(log) /\ About(log, k, n)
      BY <2>1, <2>5 DEF MemberInv, About
    <3>2. StandsAt(log, Len(log), n) # "absent" \/ Leaving(log, Len(log), lastApplied, n)
      BY <2>1, <3>1, UnappliedIsThere DEF MemberInv
    <3> QED BY <2>3, <3>2 DEF NodeFits
  <2> QED BY <2>2, <2>3, <2>4, <2>5 DEF NodeFits
<1> QED BY <1>1, <1>2, MemberStarts, PTL DEF MemberSpec

----------------------------------------------------------------------------
(* Finite sets in a strict order.                                          *)
StrictOrder(S, Rel) ==
  /\ \A x \in S : <<x, x>> \notin Rel
  /\ \A x, y \in S : x = y \/ <<x, y>> \in Rel \/ <<y, x>> \in Rel
  /\ \A x, y, z \in S : <<x, y>> \in Rel /\ <<y, z>> \in Rel => <<x, z>> \in Rel
Below(S, Rel, x) == {y \in S : <<y, x>> \in Rel}

\* The place of an element counts those before it.
LEMMA BelowCounts ==
  ASSUME NEW S, IsFiniteSet(S), NEW Rel, StrictOrder(S, Rel), NEW x \in S
  PROVE  /\ Cardinality(Below(S, Rel, x)) \in 0 .. Cardinality(S) - 1
         /\ \A z \in S : <<x, z>> \in Rel =>
              Cardinality(Below(S, Rel, x)) < Cardinality(Below(S, Rel, z))
<1>1. ASSUME NEW A, A \subseteq S, NEW B, B \subseteq A, B # A
      PROVE  /\ Cardinality(A) \in Nat /\ Cardinality(B) \in Nat
             /\ Cardinality(B) < Cardinality(A)
  <2>1. IsFiniteSet(A)
    BY <1>1, FS_Subset
  <2>2. IsFiniteSet(B) /\ Cardinality(B) <= Cardinality(A) /\ Cardinality(A) # Cardinality(B)
    BY <1>1, <2>1, FS_Subset
  <2>3. Cardinality(A) \in Nat /\ Cardinality(B) \in Nat
    BY <2>1, <2>2, FS_CardinalityType
  <2> QED BY <2>2, <2>3
<1>2. Below(S, Rel, x) \subseteq S /\ x \notin Below(S, Rel, x)
  BY DEF Below, StrictOrder
<1>3. Below(S, Rel, x) # S
  BY <1>2
<1>4. Cardinality(Below(S, Rel, x)) \in Nat /\ Cardinality(S) \in Nat
        /\ Cardinality(Below(S, Rel, x)) < Cardinality(S)
  BY <1>1, <1>2, <1>3
<1>5. ASSUME NEW z \in S, <<x, z>> \in Rel
      PROVE  Cardinality(Below(S, Rel, x)) < Cardinality(Below(S, Rel, z))
  <2>1. /\ Below(S, Rel, x) \subseteq Below(S, Rel, z) /\ Below(S, Rel, z) \subseteq S
        /\ x \in Below(S, Rel, z)
    BY <1>5 DEF Below, StrictOrder
  <2>2. Below(S, Rel, x) # Below(S, Rel, z)
    BY <1>2, <2>1
  <2> QED BY <1>1, <2>1, <2>2
<1> QED BY <1>4, <1>5

\* Every place is taken, by one element.
LEMMA EveryPlaceIsTaken ==
  ASSUME NEW S, IsFiniteSet(S), NEW Rel, StrictOrder(S, Rel)
  PROVE  /\ \A x, z \in S : Cardinality(Below(S, Rel, x)) = Cardinality(Below(S, Rel, z)) => x = z
         /\ \A n \in 0 .. Cardinality(S) - 1 : \E x \in S : Cardinality(Below(S, Rel, x)) = n
<1> DEFINE T == 0 .. Cardinality(S) - 1
           place == [x \in S |-> Cardinality(Below(S, Rel, x))]
<1>1. Cardinality(S) \in Nat
  BY FS_CardinalityType
<1>2. IsFiniteSet(T) /\ Cardinality(T) = Cardinality(S)
  BY <1>1, FS_Interval
<1>3. place \in [S -> T]
  BY BelowCounts
<1>4. ASSUME NEW x \in S, NEW z \in S, <<x, z>> \in Rel
      PROVE  place[x] # place[z]
  <2>1. Cardinality(Below(S, Rel, x)) < Cardinality(Below(S, Rel, z))
    BY <1>4, BelowCounts
  <2>2. /\ Cardinality(Below(S, Rel, x)) \in 0 .. Cardinality(S) - 1
        /\ Cardinality(Below(S, Rel, z)) \in 0 .. Cardinality(S) - 1
    BY BelowCounts
  <2> QED BY <1>1, <2>1, <2>2
<1> HIDE DEF place
<1>5. \A x, z \in S : place[x] = place[z] => x = z
  BY <1>4 DEF StrictOrder
<1>6. place \in Injection(S, T)
  BY <1>3, <1>5 DEF Injection, IsInjective
<1> HIDE DEF T
<1>7. place \in Surjection(S, T)
  BY <1>2, <1>6, FS_Injection
<1>8. \A t \in T : \E x \in S : place[x] = t
  BY <1>7 DEF Surjection
<1> QED BY <1>5, <1>8 DEF place, T

\* A list of the elements, each in its place, is in order.
Listed(S, Rel, f) ==
  /\ f \in [1 .. Cardinality(S) -> S]
  /\ \A i \in 1 .. Cardinality(S) : Cardinality(Below(S, Rel, f[i])) = i - 1

LEMMA SortedIs ==
  ASSUME NEW S, IsFiniteSet(S), NEW Rel, StrictOrder(S, Rel),
         NEW f, Listed(S, Rel, f)
  PROVE  /\ f \in Seq(S) /\ Len(f) = Cardinality(S)
         /\ \A i, j \in 1 .. Len(f) : i < j => <<f[i], f[j]>> \in Rel
         /\ \A x \in S : \E i \in 1 .. Len(f) : f[i] = x
<1> DEFINE n == Cardinality(S)
<1>1. n \in Nat
  BY FS_CardinalityType
<1>2. \A i \in 1 .. n : f[i] \in S /\ Cardinality(Below(S, Rel, f[i])) = i - 1
  BY DEF Listed
<1>3. f \in [1 .. n -> S]
  BY DEF Listed
<1>4. f \in Seq(S) /\ Len(f) = n
  BY <1>1, <1>3
<1> HIDE DEF n
<1>5. ASSUME NEW i \in 1 .. n, NEW j \in 1 .. n, i < j
      PROVE  <<f[i], f[j]>> \in Rel
  <2>1. f[i] \in S /\ f[j] \in S /\ i - 1 < j - 1 /\ i - 1 \in Int /\ j - 1 \in Int
    BY <1>1, <1>2, <1>5
  <2>2. Cardinality(Below(S, Rel, f[i])) = i - 1 /\ Cardinality(Below(S, Rel, f[j])) = j - 1
    BY <1>2
  <2>3. f[i] # f[j]
    BY <2>1, <2>2
  <2>4. <<f[j], f[i]>> \notin Rel
    <3>1. SUFFICES ASSUME <<f[j], f[i]>> \in Rel PROVE FALSE
      OBVIOUS
    <3>2. Cardinality(Below(S, Rel, f[j])) < Cardinality(Below(S, Rel, f[i]))
      BY <2>1, <3>1, BelowCounts
    <3> QED BY <2>1, <2>2, <3>2
  <2> QED BY <2>1, <2>3, <2>4 DEF StrictOrder
<1>6. ASSUME NEW x \in S PROVE \E i \in 1 .. n : f[i] = x
  <2>1. PICK k : k = Cardinality(Below(S, Rel, x))
    OBVIOUS
  <2>2. k \in 0 .. n - 1
    BY <2>1, BelowCounts DEF n
  <2>3. k + 1 \in 1 .. n /\ (k + 1) - 1 = k
    BY <1>1, <2>2
  <2>4. f[k + 1] \in S /\ Cardinality(Below(S, Rel, f[k + 1])) = k
    BY <1>2, <2>3
  <2>5. f[k + 1] = x
    BY <2>1, <2>4, EveryPlaceIsTaken
  <2> QED BY <2>3, <2>5
<1> QED BY <1>4, <1>5, <1>6 DEF n

\* The last of them.
LEMMA LastInOrder ==
  ASSUME NEW S, IsFiniteSet(S), S # {}, NEW Rel, StrictOrder(S, Rel)
  PROVE  \E x \in S : \A y \in S \ {x} : <<y, x>> \in Rel
<1>1. Cardinality(S) \in Nat /\ Cardinality(S) # 0
  BY FS_CardinalityType, FS_EmptySet
<1>2. Cardinality(S) - 1 \in 0 .. Cardinality(S) - 1
  BY <1>1
<1>3. PICK x \in S : Cardinality(Below(S, Rel, x)) = Cardinality(S) - 1
  BY <1>2, EveryPlaceIsTaken
<1>4. ASSUME NEW y \in S, y # x PROVE <<y, x>> \in Rel
  <2>1. SUFFICES ASSUME <<x, y>> \in Rel PROVE FALSE
    BY <1>4 DEF StrictOrder
  <2>2. Cardinality(Below(S, Rel, x)) < Cardinality(Below(S, Rel, y))
    BY <2>1, BelowCounts
  <2>3. Cardinality(Below(S, Rel, y)) \in 0 .. Cardinality(S) - 1
    BY BelowCounts
  <2> QED BY <1>1, <1>3, <2>2, <2>3
<1> QED BY <1>4

----------------------------------------------------------------------------
(* A scan of leveldb, page by page.                                        *)

\* The items left are the items in order of a set of numbers.
LEMMA ItemIs ==
  ASSUME NEW h \in HashKey \cup {0}, NEW r \in HashKey \X HashField
  PROVE  /\ r[1] \in HashKey /\ r[2] \in HashField /\ r = <<r[1], r[2]>>
         /\ r[1] \in Nat \ {0} /\ r[2] \in Nat \ {0}
         /\ ItemOf(h, r) \in HashKey \cup HashField /\ ItemOf(h, r) \in Nat
         /\ r # AtFirst /\ r # AtLast
<1>1. r[1] \in HashKey /\ r[2] \in HashField /\ r = <<r[1], r[2]>>
  OBVIOUS
<1>2. r[1] \in Nat \ {0} /\ r[2] \in Nat \ {0}
  BY <1>1, StoreAssumption
<1>3. ItemOf(h, r) \in HashKey \cup HashField /\ ItemOf(h, r) \in Nat
  BY <1>1, <1>2 DEF ItemOf
<1>4. AtFirst[1] = 0 /\ AtLast[1] = 0
  BY DEF AtFirst, AtLast
<1>5. r # AtFirst /\ r # AtLast
  BY <1>2, <1>4
<1> QED BY <1>1, <1>2, <1>3, <1>5

LEMMA InOrderIs ==
  ASSUME StoreTypeOK
  PROVE  /\ InOrder \in Seq(HashKey \cup HashField)
         /\ \A i, j \in 1 .. Len(InOrder) : i < j => InOrder[i] < InOrder[j]
         /\ \A r \in Ahead : \E i \in 1 .. Len(InOrder) : InOrder[i] = ItemOf(hash, r)
         /\ \A i \in 1 .. Len(InOrder) : \E r \in Ahead : InOrder[i] = ItemOf(hash, r)
<1>1. PICK S : S = {ItemOf(hash, r) : r \in Ahead}
  OBVIOUS
<1>2. Ahead \subseteq HashKey \X HashField /\ hash \in HashKey \cup {0}
  BY DEF Ahead, Matching, StoreTypeOK
<1>3. S \subseteq HashKey \cup HashField
  BY <1>1, <1>2, ItemIs
<1>4. S \subseteq Nat /\ IsFiniteSet(S)
  <2>1. IsFiniteSet(HashKey \cup HashField) /\ HashKey \cup HashField \subseteq Nat
    BY StoreAssumption, FS_Union
  <2> QED BY <1>3, <2>1, FS_Subset
<1>5. PICK Less : Less = {p \in S \X S : p[1] < p[2]}
  OBVIOUS
<1>6. StrictOrder(S, Less)
  BY <1>4, <1>5 DEF StrictOrder
<1>7. Listed(S, Less, InOrder)
  <2>1. \A x \in S : {y \in S : y < x} = Below(S, Less, x)
    BY <1>5 DEF Below
  <2>2. Cardinality(S) \in Nat
    BY <1>4, FS_CardinalityType
  <2>3. ASSUME NEW i \in 1 .. Cardinality(S)
        PROVE  InOrder[i] \in S /\ Cardinality({y \in S : y < InOrder[i]}) = i - 1
    <3>1. i - 1 \in 0 .. Cardinality(S) - 1
      BY <2>2
    <3>2. \E x \in S : Cardinality(Below(S, Less, x)) = i - 1
      <4>1. IsFiniteSet(S)
        BY <1>4
      <4> QED BY ONLY <1>6, <3>1, <4>1, EveryPlaceIsTaken
    <3>3. \E x \in S : Cardinality({y \in S : y < x}) = i - 1
      BY <2>1, <3>2
    <3> QED BY <1>1, <3>3 DEF InOrder
  <2>4. InOrder \in [1 .. Cardinality(S) -> S]
    BY <1>1, <2>3 DEF InOrder
  <2> QED BY <2>1, <2>3, <2>4 DEF Listed
<1>8. /\ InOrder \in Seq(S)
      /\ \A i, j \in 1 .. Len(InOrder) : i < j => InOrder[i] < InOrder[j]
      /\ \A x \in S : \E i \in 1 .. Len(InOrder) : InOrder[i] = x
  <2>1. /\ InOrder \in Seq(S)
        /\ \A i, j \in 1 .. Len(InOrder) : i < j => <<InOrder[i], InOrder[j]>> \in Less
        /\ \A x \in S : \E i \in 1 .. Len(InOrder) : InOrder[i] = x
    BY <1>4, <1>6, <1>7, SortedIs
  <2> QED BY <1>5, <2>1
<1>9. InOrder \in Seq(HashKey \cup HashField) /\ \A i \in 1 .. Len(InOrder) : InOrder[i] \in S
  BY <1>3, <1>8
<1> QED BY <1>1, <1>8, <1>9

\* The row a page starts with is the first of its item.
LEMMA CursorIs ==
  ASSUME StoreTypeOK, NEW n \in Nat, n + 1 \in 1 .. Len(InOrder)
  PROVE  /\ CursorAfter(n) \in Ahead /\ ItemOf(hash, CursorAfter(n)) = InOrder[n + 1]
         /\ \A s \in Ahead : ItemOf(hash, s) = InOrder[n + 1] => ~Before(s, CursorAfter(n))
<1>1. PICK v : v = InOrder[n + 1]
  OBVIOUS
<1>2. Ahead \subseteq HashKey \X HashField /\ hash \in HashKey \cup {0}
        /\ \A r \in Ahead : hash = 0 \/ r[1] = hash
  BY DEF Ahead, Matching, StoreTypeOK
<1>3. PICK X : X = {r[2] : r \in {s \in Ahead : ItemOf(hash, s) = v}}
  OBVIOUS
<1>4. X \subseteq Nat /\ X # {}
  <2>1. PICK r \in Ahead : InOrder[n + 1] = ItemOf(hash, r)
    BY InOrderIs
  <2>2. X # {}
    BY <1>1, <1>3, <2>1
  <2>3. \A q \in Ahead : q[2] \in Nat
    BY <1>2, ItemIs
  <2> QED BY <1>3, <2>2, <2>3
<1>5. PICK m \in X : \A x \in X : m <= x
  BY <1>4, LeastNumber
<1>6. PICK r \in Ahead : ItemOf(hash, r) = v /\ r[2] = m
  BY <1>3, <1>5
<1>7. ASSUME NEW s \in Ahead, ItemOf(hash, s) = v PROVE ~Before(s, r)
  <2>1. r[1] \in Nat /\ r[2] \in Nat /\ s[1] \in Nat /\ s[2] \in Nat /\ r[2] <= s[2]
    BY <1>2, <1>3, <1>5, <1>6, <1>7, ItemIs
  <2>2. s[1] = r[1]
    BY <1>2, <1>6, <1>7 DEF ItemOf
  <2> QED BY <2>1, <2>2 DEF Before
<1>8. \E q \in Ahead : ItemOf(hash, q) = InOrder[n + 1]
                         /\ \A s \in Ahead : ItemOf(hash, s) = InOrder[n + 1] => ~Before(s, q)
  BY <1>1, <1>6, <1>7
<1> QED BY <1>8 DEF CursorAfter

\* The items told of so far are in order and before the cursor, and of a row before the
\* cursor that was there all the time the item is told.
IsTold(x) == \E i \in 1 .. Len(found) : found[i] = x
ScanInv ==
  /\ StoreTypeOK
  /\ \A i, j \in 1 .. Len(found) : i < j => found[i] < found[j]
  /\ cursor = AtFirst => found = <<>>
  /\ cursor \notin {AtFirst, AtLast} =>
       /\ hash # 0 => cursor[1] = hash
       /\ \A i \in 1 .. Len(found) : found[i] < ItemOf(hash, cursor)
  /\ \A r \in Matching(hash, stays) :
       cursor = AtLast \/ Before(r, cursor) => IsTold(ItemOf(hash, r))

\* The items of the next page come after those told, and those of the rows that stay are
\* among them or told.
LEMMA AheadIs ==
  ASSUME ScanInv, cursor # AtLast
  PROVE  /\ \A i \in 1 .. Len(found), k \in 1 .. Len(InOrder) : found[i] < InOrder[k]
         /\ \A r \in Matching(hash, stays) :
              \/ IsTold(ItemOf(hash, r))
              \/ r \in Ahead /\ \E k \in 1 .. Len(InOrder) : InOrder[k] = ItemOf(hash, r)
<1>1. /\ StoreTypeOK /\ Ahead \subseteq HashKey \X HashField /\ hash \in HashKey \cup {0}
      /\ \A r \in Ahead : (hash = 0 \/ r[1] = hash) /\ ~Before(r, cursor)
  BY DEF ScanInv, StoreTypeOK, Ahead, Matching
<1>2. ASSUME NEW i \in 1 .. Len(found), NEW k \in 1 .. Len(InOrder)
      PROVE  found[i] < InOrder[k]
  <2>1. PICK r \in Ahead : InOrder[k] = ItemOf(hash, r)
    BY <1>1, InOrderIs
  <2>2. /\ r[1] \in Nat /\ r[2] \in Nat /\ ~Before(r, cursor) /\ (hash = 0 \/ r[1] = hash)
    BY <1>1, <2>1, ItemIs
  <2>3. cursor # AtFirst
    <3>1. SUFFICES ASSUME cursor = AtFirst PROVE FALSE
      OBVIOUS
    <3>2. found = <<>>
      BY <3>1 DEF ScanInv
    <3> QED BY <3>2
  <2>4. cursor \in HashKey \X HashField
    BY <1>1, <2>3 DEF StoreTypeOK
  <2>5. cursor[1] \in Nat /\ cursor[2] \in Nat
    BY <1>1, <2>4, ItemIs
  <2>6. (hash # 0 => cursor[1] = hash) /\ found[i] < ItemOf(hash, cursor)
    BY <2>3 DEF ScanInv
  <2>7. found[i] \in Int
    <3>1. found[i] \in HashKey \cup HashField
      BY <1>1 DEF StoreTypeOK
    <3>2. HashKey \cup HashField \subseteq Int
      BY StoreAssumption
    <3> QED BY <3>1, <3>2
  <2>8. ItemOf(hash, cursor) <= ItemOf(hash, r)
    BY <2>2, <2>5, <2>6 DEF ItemOf, Before
  <2>9. ItemOf(hash, cursor) \in Int /\ ItemOf(hash, r) \in Int
    BY <2>2, <2>5 DEF ItemOf
  <2> QED BY <2>1, <2>6, <2>7, <2>8, <2>9
<1>3. ASSUME NEW r \in Matching(hash, stays), ~IsTold(ItemOf(hash, r))
      PROVE  r \in Ahead /\ \E k \in 1 .. Len(InOrder) : InOrder[k] = ItemOf(hash, r)
  <2>1. ~Before(r, cursor)
    BY <1>3 DEF ScanInv
  <2>2. r \in Matching(hash, rows)
    BY <1>1 DEF Matching, StoreTypeOK
  <2>3. r \in Ahead
    BY <2>1, <2>2 DEF Ahead
  <2> QED BY <1>1, <2>3, InOrderIs
<1> QED BY <1>2, <1>3

\* What is told, when some of the items in order are added.
LEMMA ToldMore ==
  ASSUME StoreTypeOK, NEW ks, ks = InOrder, NEW n \in 0 .. Len(ks),
         \A i \in 1 .. Len(found), k \in 1 .. Len(ks) : found[i] < ks[k],
         \A i, j \in 1 .. Len(found) : i < j => found[i] < found[j],
         found' = found \o SubSeq(ks, 1, n)
  PROVE  /\ found' \in Seq(HashKey \cup HashField)
         /\ \A i, j \in 1 .. Len(found') : i < j => found'[i] < found'[j]
         /\ \A x : IsTold(x) => IsTold(x)'
         /\ \A k \in 1 .. n : IsTold(ks[k])'
         /\ \A i \in 1 .. Len(found') :
              \/ i \in 1 .. Len(found) /\ found'[i] = found[i]
              \/ i - Len(found) \in 1 .. n /\ found'[i] = ks[i - Len(found)]
<1>1. /\ found \in Seq(HashKey \cup HashField) /\ ks \in Seq(HashKey \cup HashField)
      /\ \A i, j \in 1 .. Len(ks) : i < j => ks[i] < ks[j]
  BY InOrderIs DEF StoreTypeOK
<1>2. PICK page : page = SubSeq(ks, 1, n)
  OBVIOUS
<1>3. /\ page \in Seq(HashKey \cup HashField) /\ Len(page) = n
      /\ \A k \in 1 .. n : page[k] = ks[k]
  <2>1. n \in 0 .. Len(ks) /\ ks \in Seq(HashKey \cup HashField) /\ page = SubSeq(ks, 1, n)
    BY <1>1, <1>2
  <2>2. Len(ks) \in Nat /\ n \in Nat /\ n <= Len(ks)
    BY <2>1, LenProperties
  <2> QED BY <2>1, <2>2
<1>4. /\ found' \in Seq(HashKey \cup HashField) /\ Len(found') = Len(found) + n
      /\ \A i \in 1 .. Len(found) : found'[i] = found[i]
      /\ \A k \in 1 .. n : found'[Len(found) + k] = page[k]
  BY <1>1, <1>2, <1>3
<1>5. Len(found) \in Nat /\ n \in Nat /\ Len(ks) \in Nat /\ n <= Len(ks)
  BY <1>1, <1>3, LenProperties
<1>6. ASSUME NEW i \in 1 .. Len(found')
      PROVE  \/ i \in 1 .. Len(found) /\ found'[i] = found[i]
             \/ i - Len(found) \in 1 .. n /\ found'[i] = ks[i - Len(found)]
  <2>1. CASE i <= Len(found)
    BY <1>4, <1>5, <2>1
  <2>2. CASE i > Len(found)
    <3>1. i - Len(found) \in 1 .. n /\ Len(found) + (i - Len(found)) = i
      BY <1>4, <1>5, <2>2
    <3> QED BY <1>3, <1>4, <3>1
  <2> QED BY <2>1, <2>2, <1>4, <1>5
<1>7. ASSUME NEW i \in 1 .. Len(found'), NEW j \in 1 .. Len(found'), i < j
      PROVE  found'[i] < found'[j]
  <2>1. i \in Int /\ j \in Int
    BY <1>4, <1>5
  <2>2. CASE j <= Len(found)
    <3>1. i \in 1 .. Len(found) /\ j \in 1 .. Len(found)
      BY <1>4, <1>5, <1>7, <2>2
    <3> QED BY <1>4, <1>7, <3>1
  <2>3. CASE i <= Len(found) /\ j > Len(found)
    <3>1. i \in 1 .. Len(found)
      BY <1>5, <2>3
    <3>2. j - Len(found) \in 1 .. n /\ found'[j] = ks[j - Len(found)]
      BY <1>5, <1>6, <2>3
    <3>3. j - Len(found) \in 1 .. Len(ks)
      BY <1>5, <3>2
    <3> QED BY <1>4, <3>1, <3>2, <3>3
  <2>4. CASE i > Len(found)
    <3>1. /\ i - Len(found) \in 1 .. n /\ found'[i] = ks[i - Len(found)]
          /\ j - Len(found) \in 1 .. n /\ found'[j] = ks[j - Len(found)]
      BY <1>5, <1>6, <1>7, <2>1, <2>4
    <3>2. /\ i - Len(found) \in 1 .. Len(ks) /\ j - Len(found) \in 1 .. Len(ks)
          /\ i - Len(found) < j - Len(found)
      BY <1>5, <1>7, <2>1, <3>1
    <3> QED BY <1>1, <3>1, <3>2
  <2> QED BY <1>5, <2>1, <2>2, <2>3, <2>4
<1>8. ASSUME NEW x, IsTold(x) PROVE IsTold(x)'
  <2>1. PICK i \in 1 .. Len(found) : found[i] = x
    BY <1>8 DEF IsTold
  <2>2. i \in 1 .. Len(found') /\ found'[i] = x
    BY <1>4, <1>5, <2>1
  <2> QED BY <2>2 DEF IsTold
<1>9. ASSUME NEW k \in 1 .. n PROVE IsTold(ks[k])'
  <2>1. PICK x : x = ks[k]
    OBVIOUS
  <2>2. Len(found) + k \in 1 .. Len(found') /\ found'[Len(found) + k] = x
    BY <1>3, <1>4, <1>5, <2>1
  <2> QED BY <2>1, <2>2 DEF IsTold
<1> QED BY <1>4, <1>6, <1>7, <1>8, <1>9

\* The last page: all that is left.
LEMMA LastPageKeeps ==
  ASSUME ScanInv, cursor # AtLast, found' = found \o InOrder, cursor' = AtLast,
         UNCHANGED <<rows, hash, stays, writes>>
  PROVE  ScanInv'
<1>1. PICK ks : ks = InOrder
  OBVIOUS
<1>2. ks \in Seq(HashKey \cup HashField)
  BY <1>1, InOrderIs DEF ScanInv
<1>3. ks = SubSeq(ks, 1, Len(ks)) /\ Len(ks) \in 0 .. Len(ks)
  BY <1>2, SubSeqFull, LenProperties
<1>4. found' = found \o SubSeq(ks, 1, Len(ks))
  BY <1>1, <1>3
<1>5. /\ \A i \in 1 .. Len(found), k \in 1 .. Len(ks) : found[i] < ks[k]
      /\ \A r \in Matching(hash, stays) :
           IsTold(ItemOf(hash, r)) \/ \E k \in 1 .. Len(ks) : ks[k] = ItemOf(hash, r)
  BY <1>1, AheadIs
<1>6. /\ found' \in Seq(HashKey \cup HashField)
      /\ \A i, j \in 1 .. Len(found') : i < j => found'[i] < found'[j]
      /\ \A x : IsTold(x) => IsTold(x)'
      /\ \A k \in 1 .. Len(ks) : IsTold(ks[k])'
  BY <1>1, <1>3, <1>4, <1>5, ToldMore DEF ScanInv
<1>7. StoreTypeOK'
  BY <1>6 DEF ScanInv, StoreTypeOK
<1>8. ASSUME NEW r \in Matching(hash, stays) PROVE IsTold(ItemOf(hash, r))'
  <2>1. PICK x : x = ItemOf(hash, r)
    OBVIOUS
  <2>2. IsTold(x)'
    BY <1>5, <1>6, <2>1
  <2>3. ItemOf(hash, r)' = x
    BY <2>1
  <2> QED BY <2>2, <2>3 DEF IsTold
<1>9. Matching(hash, stays)' = Matching(hash, stays)
  BY DEF Matching, ItemOf
<1>10. AtLast # AtFirst /\ AtLast' = AtLast /\ AtFirst' = AtFirst
  BY DEF AtFirst, AtLast
<1>11. cursor' # AtFirst /\ cursor' \in {AtFirst, AtLast}
  BY <1>10
<1> QED BY <1>6, <1>7, <1>8, <1>9, <1>11 DEF ScanInv

\* A page that is not the last: Count items, and the cursor stands on the first row of
\* the next.
LEMMA FullPageKeeps ==
  ASSUME ScanInv, cursor # AtLast, Len(InOrder) > Count,
         found' = found \o SubSeq(InOrder, 1, Count), cursor' = CursorAfter(Count),
         UNCHANGED <<rows, hash, stays, writes>>
  PROVE  ScanInv'
<1>1. PICK ks : ks = InOrder
  OBVIOUS
<1>2. /\ ks \in Seq(HashKey \cup HashField) /\ Len(ks) \in Nat
      /\ \A i, j \in 1 .. Len(ks) : i < j => ks[i] < ks[j]
  BY <1>1, InOrderIs, LenProperties DEF ScanInv
<1>3. /\ Count \in Nat \ {0} /\ Count \in 0 .. Len(ks) /\ Count + 1 \in 1 .. Len(ks)
      /\ Count \in 1 .. Len(ks)
  BY <1>1, <1>2, StoreAssumption
<1>4. /\ \A i \in 1 .. Len(found), k \in 1 .. Len(ks) : found[i] < ks[k]
      /\ \A r \in Matching(hash, stays) :
           \/ IsTold(ItemOf(hash, r))
           \/ r \in Ahead /\ \E k \in 1 .. Len(ks) : ks[k] = ItemOf(hash, r)
  BY <1>1, AheadIs
<1>5. /\ found' \in Seq(HashKey \cup HashField)
      /\ \A i, j \in 1 .. Len(found') : i < j => found'[i] < found'[j]
      /\ \A x : IsTold(x) => IsTold(x)'
      /\ \A k \in 1 .. Count : IsTold(ks[k])'
      /\ \A i \in 1 .. Len(found') :
           \/ i \in 1 .. Len(found) /\ found'[i] = found[i]
           \/ i - Len(found) \in 1 .. Count /\ found'[i] = ks[i - Len(found)]
  BY <1>1, <1>3, <1>4, ToldMore DEF ScanInv
<1>6. PICK c : c = cursor'
  OBVIOUS
<1>7. /\ c \in Ahead /\ ItemOf(hash, c) = ks[Count + 1]
      /\ \A s \in Ahead : ItemOf(hash, s) = ks[Count + 1] => ~Before(s, c)
  BY <1>1, <1>3, <1>6, CursorIs DEF ScanInv
<1>8. /\ Ahead \subseteq HashKey \X HashField /\ hash \in HashKey \cup {0}
      /\ \A r \in Ahead : hash = 0 \/ r[1] = hash
  BY DEF ScanInv, StoreTypeOK, Ahead, Matching
<1>9. \A k \in 1 .. Len(ks) : ks[k] \in Int
  <2>1. HashKey \cup HashField \subseteq Int
    BY StoreAssumption
  <2> QED BY <1>2, <2>1
<1>10. StoreTypeOK'
  BY <1>5, <1>6, <1>7, <1>8 DEF ScanInv, StoreTypeOK
<1>11. ASSUME NEW i \in 1 .. Len(found') PROVE found'[i] < ItemOf(hash, c)
  <2>1. CASE i \in 1 .. Len(found) /\ found'[i] = found[i]
    BY <1>3, <1>4, <1>7, <2>1
  <2>2. CASE i - Len(found) \in 1 .. Count /\ found'[i] = ks[i - Len(found)]
    <3>1. i - Len(found) \in 1 .. Len(ks) /\ i - Len(found) < Count + 1
      BY <1>2, <1>3, <2>2
    <3> QED BY <1>2, <1>3, <1>7, <2>2, <3>1
  <2> QED BY <1>5, <2>1, <2>2
<1>12. ASSUME NEW r \in Matching(hash, stays), Before(r, c)
       PROVE  \E x : x = ItemOf(hash, r) /\ IsTold(x)'
  <2>1. CASE IsTold(ItemOf(hash, r))
    BY <1>5, <2>1
  <2>2. CASE ~IsTold(ItemOf(hash, r))
    <3>1. r \in Ahead
      BY <1>4, <2>2
    <3>2. PICK k \in 1 .. Len(ks) : ks[k] = ItemOf(hash, r)
      BY <1>4, <2>2
    <3>3. ItemOf(hash, r) <= ItemOf(hash, c)
      <4>1. /\ r[1] \in Nat /\ r[2] \in Nat /\ c[1] \in Nat /\ c[2] \in Nat
            /\ (hash = 0 \/ (r[1] = hash /\ c[1] = hash))
        BY <1>7, <1>8, <3>1, ItemIs
      <4> QED BY <1>12, <4>1 DEF Before, ItemOf
    <3>4. ks[k] # ks[Count + 1]
      BY <1>7, <1>12, <3>1, <3>2
    <3>5. ks[k] \in Int /\ ks[Count + 1] \in Int /\ ks[k] < ks[Count + 1]
      BY <1>3, <1>7, <1>9, <3>2, <3>3, <3>4
    <3>6. ~(Count + 1 <= k)
      <4>1. SUFFICES ASSUME Count + 1 <= k PROVE FALSE
        OBVIOUS
      <4>2. CASE Count + 1 = k
        BY <3>4, <4>2
      <4>3. CASE Count + 1 < k
        BY <1>2, <1>3, <3>5, <4>3
      <4> QED BY <1>3, <4>1, <4>2, <4>3
    <3>7. k \in 1 .. Count
      BY <1>3, <3>6
    <3> QED BY <1>5, <3>2, <3>7
  <2> QED BY <2>1, <2>2
<1>13. c \in HashKey \X HashField /\ c # AtFirst /\ c # AtLast
  BY <1>7, <1>8, ItemIs
<1>14. hash # 0 => c[1] = hash
  BY <1>7, <1>8
<1>15. \A r \in Matching(hash, stays) : Before(r, c) => IsTold(ItemOf(hash, r))'
  <2>1. SUFFICES ASSUME NEW r \in Matching(hash, stays), Before(r, c)
                 PROVE  IsTold(ItemOf(hash, r))'
    OBVIOUS
  <2>2. PICK x : x = ItemOf(hash, r) /\ IsTold(x)'
    BY <1>12, <2>1
  <2>3. ItemOf(hash, r)' = x
    BY <2>2
  <2> QED BY <2>2, <2>3 DEF IsTold
<1>16. Matching(hash, stays)' = Matching(hash, stays)
  BY DEF Matching, ItemOf
<1>17. \A i \in 1 .. Len(found') : found'[i] < ItemOf(hash', cursor')
  BY <1>6, <1>11 DEF ItemOf
<1>18. cursor' # AtFirst /\ cursor' # AtLast /\ (hash' # 0 => cursor'[1] = hash')
  BY <1>6, <1>13, <1>14
<1>19. AtLast' = AtLast /\ AtFirst' = AtFirst
  BY DEF AtFirst, AtLast
<1> QED BY <1>5, <1>6, <1>10, <1>15, <1>16, <1>17, <1>18, <1>19 DEF ScanInv

LEMMA WritesKeepTheScan ==
  ASSUME ScanInv, NEW k \in HashKey, NEW f \in HashField, Hset(k, f) \/ Hdel(k, f)
  PROVE  ScanInv'
<1>1. /\ UNCHANGED <<hash, cursor, found>>
      /\ stays' \subseteq stays /\ stays' \subseteq rows'
      /\ rows' \subseteq HashKey \X HashField
  BY DEF ScanInv, StoreTypeOK, Hset, Hdel
<1>2. StoreTypeOK'
  BY <1>1 DEF ScanInv, StoreTypeOK
<1>3. Matching(hash, stays)' \subseteq Matching(hash, stays)
  BY <1>1 DEF Matching, ItemOf
<1>4. \A r \in Matching(hash, stays)' :
        cursor' = AtLast \/ Before(r, cursor') => IsTold(ItemOf(hash, r))'
  BY <1>1, <1>3 DEF ScanInv, IsTold
<1> QED BY <1>1, <1>2, <1>4 DEF ScanInv

LEMMA ScanInvInit == StoreInit => ScanInv
<1>1. SUFFICES ASSUME StoreInit PROVE ScanInv
  OBVIOUS
<1>2. StoreTypeOK /\ found = <<>> /\ Len(found) = 0 /\ cursor = AtFirst
  BY <1>1 DEF StoreInit, StoreTypeOK
<1>3. AtFirst # AtLast
  BY DEF AtFirst, AtLast
<1>4. ASSUME NEW r \in Matching(hash, stays) PROVE ~Before(r, cursor)
  <2>1. r \in HashKey \X HashField /\ hash \in HashKey \cup {0}
    BY <1>2, <1>4 DEF StoreTypeOK, Matching
  <2>2. r[1] \in Nat \ {0}
    BY <2>1, ItemIs
  <2> QED BY <1>2, <2>2 DEF Before, AtFirst
<1> QED BY <1>2, <1>3, <1>4 DEF ScanInv

LEMMA ScanInvStep == ScanInv /\ [StoreNext]_storeVars => ScanInv'
<1>1. SUFFICES ASSUME ScanInv, [StoreNext]_storeVars PROVE ScanInv'
  OBVIOUS
<1>2. ASSUME Page PROVE ScanInv'
  <2>1. CASE Len(InOrder) > Count
    BY <1>1, <1>2, <2>1, FullPageKeeps DEF Page
  <2>2. CASE ~(Len(InOrder) > Count)
    BY <1>1, <1>2, <2>2, LastPageKeeps DEF Page
  <2> QED BY <2>1, <2>2
<1>3. CASE UNCHANGED storeVars
  BY <1>1, <1>3 DEF storeVars, ScanInv, StoreTypeOK, Matching, IsTold, ItemOf
<1> QED BY <1>1, <1>2, <1>3, WritesKeepTheScan DEF StoreNext

\* Whatever is set and deleted between the pages, a scan of the keys or of the fields of a
\* key (scan, hscan) tells of nothing twice and ends with everything of which a row was
\* there all the time.
THEOREM ScansFindAll == StoreSpec => []ScanFindsAll
<1>1. ScanInv => ScanFindsAll
  <2>1. SUFFICES ASSUME ScanInv PROVE ScanFindsAll
    OBVIOUS
  <2>2. found \in Seq(HashKey \cup HashField) /\ DOMAIN found = 1 .. Len(found)
    BY <2>1 DEF ScanInv, StoreTypeOK
  <2>3. ASSUME NEW i \in 1 .. Len(found), NEW j \in 1 .. Len(found), i # j
        PROVE  found[i] # found[j]
    <3>1. HashKey \cup HashField \subseteq Int
      BY StoreAssumption
    <3>2. found[i] \in Int /\ found[j] \in Int /\ i \in Int /\ j \in Int
      BY <2>2, <3>1
    <3>3. i < j => found[i] < found[j]
      BY <2>1 DEF ScanInv
    <3>4. j < i => found[j] < found[i]
      BY <2>1 DEF ScanInv
    <3> QED BY <2>3, <3>2, <3>3, <3>4
  <2>4. ASSUME cursor = AtLast, NEW r \in Matching(hash, stays)
        PROVE  \E i \in 1 .. Len(found) : found[i] = ItemOf(hash, r)
    BY <2>1, <2>4 DEF ScanInv, IsTold
  <2>5. cursor = AtLast => Items(hash, stays) \subseteq {found[i] : i \in DOMAIN found}
    BY <2>2, <2>4 DEF Items
  <2> QED BY <2>2, <2>3, <2>5 DEF ScanFindsAll
<1> QED BY <1>1, ScanInvInit, ScanInvStep, PTL DEF StoreSpec

----------------------------------------------------------------------------
(* The ranking of the best.                                                *)
RankEle == [id : RankId, score : 1 .. MaxScore, tm : 1 .. MaxTm]
Worse(S) == {p \in S \X S : Better(p[1], p[2])}
OneEach(S) == \A a, b \in S : a.id = b.id => a = b

LEMMA EleIs ==
  ASSUME NEW a \in RankEle
  PROVE  /\ a.id \in RankId /\ a.id \in Int /\ a.score \in Int /\ a.tm \in Int
         /\ a = [id |-> a.id, score |-> a.score, tm |-> a.tm]
<1>1. /\ a.id \in RankId /\ a.score \in 1 .. MaxScore /\ a.tm \in 1 .. MaxTm
      /\ a = [id |-> a.id, score |-> a.score, tm |-> a.tm]
  BY DEF RankEle
<1> QED BY <1>1, RankAssumption

LEMMA BetterIsAnOrder ==
  ASSUME NEW S, S \subseteq RankEle
  PROVE  /\ StrictOrder(S, Worse(S))
         /\ \A a \in S : ~Better(a, a)
         /\ \A a, b \in S : a = b \/ Better(a, b) \/ Better(b, a)
         /\ \A a, b, c \in S : Better(a, b) /\ Better(b, c) => Better(a, c)
         /\ \A e \in S : {f \in S : Better(f, e)} = Below(S, Worse(S), e)
<1>1. ASSUME NEW a \in S PROVE ~Better(a, a)
  BY EleIs DEF Better
<1>2. ASSUME NEW a \in S, NEW b \in S, ~Better(a, b), ~Better(b, a) PROVE a = b
  <2>1. /\ a.score = b.score /\ a.tm = b.tm /\ a.id = b.id
    BY <1>2, EleIs DEF Better
  <2>2. /\ a = [id |-> a.id, score |-> a.score, tm |-> a.tm]
        /\ b = [id |-> b.id, score |-> b.score, tm |-> b.tm]
    BY EleIs
  <2> QED BY <2>1, <2>2
<1>3. ASSUME NEW a \in S, NEW b \in S, NEW c \in S, Better(a, b), Better(b, c)
      PROVE  Better(a, c)
  <2>1. /\ a.id \in Int /\ a.score \in Int /\ a.tm \in Int /\ b.id \in Int /\ b.score \in Int
        /\ b.tm \in Int /\ c.id \in Int /\ c.score \in Int /\ c.tm \in Int
    BY EleIs
  <2> QED BY <1>3, <2>1 DEF Better
<1>4. \A a, b \in S : <<a, b>> \in Worse(S) <=> Better(a, b)
  BY DEF Worse
<1>5. StrictOrder(S, Worse(S))
  BY <1>1, <1>2, <1>3, <1>4 DEF StrictOrder
<1>6. \A e \in S : {f \in S : Better(f, e)} = Below(S, Worse(S), e)
  BY <1>4 DEF Below
<1> QED BY <1>1, <1>2, <1>3, <1>5, <1>6

\* Of the elements of A those in r are the best, and i leads to them by their ids.
Ranking(r, i, A) ==
  /\ r \subseteq A /\ Cardinality(r) <= Limit /\ (r = A \/ Cardinality(r) = Limit)
  /\ \A t \in r, a \in A \ r : Better(t, a)
  /\ i = [x \in {e.id : e \in r} |-> i[x]]
  /\ \A e \in r : i[e.id] = e

LEMMA RankingTells ==
  ASSUME NEW A, A \subseteq RankEle, IsFiniteSet(A), NEW r, NEW i, Ranking(r, i, A)
  PROVE  /\ \A e \in r : PlaceIn(A, e) <= Limit /\ PlaceIn(r, e) = PlaceIn(A, e)
         /\ \A e \in A \ r : ~(PlaceIn(A, e) <= Limit)
<1>1. r \subseteq A /\ IsFiniteSet(r) /\ Cardinality(r) \in Nat /\ Limit \in Nat
        /\ Cardinality(r) <= Limit
  BY FS_Subset, FS_CardinalityType, RankAssumption DEF Ranking
<1>2. ASSUME NEW e \in r
      PROVE  PlaceIn(A, e) <= Limit /\ PlaceIn(r, e) = PlaceIn(A, e)
  <2>1. {f \in A : Better(f, e)} = {f \in r : Better(f, e)}
    <3>1. ASSUME NEW f \in A, Better(f, e), f \notin r PROVE FALSE
      <4>1. Better(e, f)
        BY <3>1 DEF Ranking
      <4>2. Better(e, e)
        BY <1>1, <3>1, <4>1, BetterIsAnOrder
      <4> QED BY <1>1, <4>2, BetterIsAnOrder
    <3> QED BY <1>1, <3>1
  <2>2. PICK B : B = {f \in r : Better(f, e)}
    OBVIOUS
  <2>3. B \subseteq r /\ B # r
    BY <1>1, <2>2, BetterIsAnOrder
  <2>4. Cardinality(B) <= Cardinality(r) /\ Cardinality(B) # Cardinality(r) /\ Cardinality(B) \in Nat
    BY <1>1, <2>3, FS_Subset, FS_CardinalityType
  <2>5. Cardinality(B) + 1 <= Limit
    BY <1>1, <2>4
  <2> QED BY <2>1, <2>2, <2>5 DEF PlaceIn
<1>3. ASSUME NEW e \in A \ r PROVE ~(PlaceIn(A, e) <= Limit)
  <2>1. PICK B : B = {f \in A : Better(f, e)}
    OBVIOUS
  <2>2. r \subseteq B /\ B \subseteq A
    BY <1>1, <2>1 DEF Ranking
  <2>3. Cardinality(r) = Limit
    BY <1>3 DEF Ranking
  <2>4. IsFiniteSet(B) /\ Cardinality(B) \in Nat
    BY <2>2, FS_Subset, FS_CardinalityType
  <2>5. Limit <= Cardinality(B)
    BY <2>2, <2>3, <2>4, FS_Subset
  <2>6. ~(Cardinality(B) + 1 <= Limit)
    BY <1>1, <2>4, <2>5
  <2> QED BY <2>1, <2>6 DEF PlaceIn
<1> QED BY <1>2, <1>3

LEMMA WorstIs ==
  ASSUME NEW R, R \subseteq RankEle, IsFiniteSet(R), R # {}
  PROVE  Worst(R) \in R /\ \A f \in R \ {Worst(R)} : Better(f, Worst(R))
<1>1. PICK x \in R : \A y \in R \ {x} : <<y, x>> \in Worse(R)
  BY BetterIsAnOrder, LastInOrder
<1>2. \A y \in R \ {x} : Better(y, x)
  BY <1>1 DEF Worse
<1> QED BY <1>2 DEF Worst

\* An element with a higher score than its id had before.
LEMMA AddedKeeps ==
  ASSUME NEW A, A \subseteq RankEle, IsFiniteSet(A), OneEach(A), NEW r, NEW i, Ranking(r, i, A),
         NEW e \in RankEle, NEW old, old = {a \in A : a.id = e.id}, \A a \in old : Better(e, a)
  PROVE  Ranking(Added(r, i, e).ranks, Added(r, i, e).it, (A \ old) \cup {e})
<1>1. /\ r \subseteq A /\ r \subseteq RankEle /\ IsFiniteSet(r) /\ Cardinality(r) \in Nat
      /\ Limit \in Nat /\ Cardinality(r) <= Limit
  BY FS_Subset, FS_CardinalityType, RankAssumption DEF Ranking
<1>2. /\ DOMAIN i = {f.id : f \in r} /\ \A f \in r : i[f.id] = f
      /\ i = [x \in {f.id : f \in r} |-> i[x]]
      /\ \A t \in r, a \in A \ r : Better(t, a)
  BY DEF Ranking
<1>3. e \notin A
  <2>1. SUFFICES ASSUME e \in A PROVE FALSE
    OBVIOUS
  <2>2. Better(e, e)
    BY <2>1
  <2> QED BY <2>1, <2>2, BetterIsAnOrder
<1>4. PICK B : B = (A \ old) \cup {e}
  OBVIOUS
<1>5. B \subseteq RankEle /\ OneEach(B)
  BY <1>4 DEF OneEach
<1>6. \A a, b, c \in A \cup {e} : Better(a, b) /\ Better(b, c) => Better(a, c)
  <2>1. A \cup {e} \subseteq RankEle
    OBVIOUS
  <2> QED BY <2>1, BetterIsAnOrder
<1>7. PICK R : R = (IF e.id \in DOMAIN i THEN r \ {i[e.id]} ELSE r) \cup {e}
  OBVIOUS
<1>8. PICK I : I = PutIn(i, e.id, e)
  OBVIOUS
<1>9. /\ R \subseteq B /\ e \in R /\ R \subseteq RankEle
      /\ I = [x \in {f.id : f \in R} |-> I[x]] /\ \A f \in R : I[f.id] = f
  <2>1. R \subseteq B /\ e \in R /\ R \ {e} = r \ old
    <3>1. CASE e.id \in DOMAIN i
      <4>1. PICK o \in r : o.id = e.id
        BY <1>2, <3>1
      <4>2. i[e.id] = o /\ o \in A
        BY <1>1, <1>2, <4>1
      <4>3. old = {o}
        BY <4>1, <4>2 DEF OneEach
      <4> QED BY <1>1, <1>3, <1>4, <1>7, <3>1, <4>2, <4>3
    <3>2. CASE e.id \notin DOMAIN i
      <4>1. r \cap old = {}
        BY <1>2, <3>2
      <4> QED BY <1>1, <1>3, <1>4, <1>7, <3>2, <4>1
    <3> QED BY <3>1, <3>2
  <2>2. DOMAIN I = DOMAIN i \cup {e.id} /\ I[e.id] = e /\ \A x \in DOMAIN i : x # e.id => I[x] = i[x]
    BY <1>8 DEF PutIn
  <2>3. \A f \in R : f # e => f \in r /\ f.id # e.id
    BY <1>1, <2>1
  <2>4. DOMAIN I = {f.id : f \in R}
    <3>1. ASSUME NEW x \in DOMAIN i, x # e.id PROVE \E f \in R : f.id = x
      <4>1. PICK f \in r : f.id = x
        BY <1>2, <3>1
      <4>2. f \notin old
        BY <3>1, <4>1
      <4> QED BY <2>1, <4>1, <4>2
    <3>2. \A f \in R : f.id \in DOMAIN i \cup {e.id}
      BY <1>2, <2>3
    <3> QED BY <2>1, <2>2, <3>1, <3>2
  <2>5. \A f \in R : I[f.id] = f
    BY <1>2, <2>2, <2>3
  <2>6. I = [x \in DOMAIN I |-> I[x]]
    BY <1>8 DEF PutIn
  <2> QED BY <1>4, <1>5, <2>1, <2>4, <2>5, <2>6
<1>10. IsFiniteSet(R) /\ Cardinality(R) \in Nat
  BY <1>1, <1>7, FS_AddElement, FS_RemoveElement, FS_CardinalityType
<1>11. Cardinality(R) <= Limit => Ranking(R, I, B)
  <2>1. SUFFICES ASSUME Cardinality(R) <= Limit
                 PROVE  (R = B \/ Cardinality(R) = Limit) /\ \A t \in R, a \in B \ R : Better(t, a)
    BY <1>9 DEF Ranking
  <2>2. CASE e.id \in DOMAIN i
    <3>1. PICK o \in r : o.id = e.id
      BY <1>2, <2>2
    <3>2. i[e.id] = o /\ o \in A
      BY <1>1, <1>2, <3>1
    <3>3. old = {o} /\ o \in r /\ R = (r \ {o}) \cup {e}
      BY <1>7, <2>2, <3>1, <3>2 DEF OneEach
    <3>4. Cardinality(R) = Cardinality(r)
      <4>1. IsFiniteSet(r \ {o}) /\ Cardinality(r \ {o}) = Cardinality(r) - 1
        BY <1>1, <3>3, FS_RemoveElement
      <4>2. e \notin r \ {o}
        BY <1>1, <1>3
      <4>3. Cardinality((r \ {o}) \cup {e}) = Cardinality(r \ {o}) + 1
        BY <4>1, <4>2, FS_AddElement
      <4> QED BY <1>1, <3>3, <4>1, <4>3
    <3>5. R = B \/ Cardinality(R) = Limit
      BY <1>4, <3>3, <3>4 DEF Ranking
    <3>6. ASSUME NEW t \in R, NEW a \in B \ R PROVE Better(t, a)
      <4>1. a \in A \ r
        BY <1>4, <3>3, <3>6
      <4>2. CASE t \in r
        BY <1>2, <4>1, <4>2
      <4>3. CASE t = e
        <5>1. Better(e, o) /\ Better(o, a)
          BY <1>2, <3>3, <4>1
        <5> QED BY <1>1, <1>6, <3>3, <4>1, <4>3, <5>1
      <4> QED BY <3>3, <3>6, <4>2, <4>3
    <3> QED BY <3>5, <3>6
  <2>3. CASE e.id \notin DOMAIN i
    <3>1. R = r \cup {e} /\ e \notin r /\ \A f \in r : f.id # e.id
      BY <1>1, <1>2, <1>3, <1>7, <2>3
    <3>2. Cardinality(R) = Cardinality(r) + 1
      BY <1>1, <3>1, FS_AddElement
    <3>3. r = A
      BY <1>1, <2>1, <3>2 DEF Ranking
    <3>4. old = {}
      BY <3>1, <3>3
    <3>5. R = B
      BY <1>4, <3>1, <3>3, <3>4
    <3> QED BY <3>5
  <2> QED BY <2>2, <2>3
<1>12. ASSUME ~(Cardinality(R) <= Limit)
       PROVE  Ranking(R \ {Worst(R)}, Erase(I, Worst(R).id), B)
  <2>1. PICK w : w = Worst(R)
    OBVIOUS
  <2>2. w \in R /\ \A f \in R \ {w} : Better(f, w)
    BY <1>9, <1>10, <2>1, WorstIs
  <2>3. e.id \notin DOMAIN i
    <3>1. SUFFICES ASSUME e.id \in DOMAIN i PROVE FALSE
      OBVIOUS
    <3>2. PICK o \in r : o.id = e.id
      BY <1>2, <3>1
    <3>3. R = (r \ {o}) \cup {e}
      BY <1>2, <1>7, <3>1, <3>2
    <3>4. IsFiniteSet(r \ {o}) /\ Cardinality(r \ {o}) = Cardinality(r) - 1
      BY <1>1, <3>2, FS_RemoveElement
    <3>5. e \notin r \ {o}
      BY <1>1, <1>3
    <3>6. Cardinality((r \ {o}) \cup {e}) = Cardinality(r \ {o}) + 1
      BY <3>4, <3>5, FS_AddElement
    <3> QED BY <1>1, <1>12, <3>3, <3>4, <3>6
  <2>4. R = r \cup {e} /\ e \notin r /\ \A f \in r : f.id # e.id
    BY <1>1, <1>2, <1>3, <1>7, <2>3
  <2>5. Cardinality(R) = Cardinality(r) + 1
    BY <1>1, <2>4, FS_AddElement
  <2>6. Cardinality(r) = Limit
    BY <1>1, <1>12, <2>5
  <2>7. Cardinality(R \ {w}) = Limit
    <3>1. Cardinality(R \ {w}) = Cardinality(R) - 1
      BY <1>10, <2>2, FS_RemoveElement
    <3> QED BY <1>1, <1>10, <2>5, <2>6, <3>1
  <2>8. ASSUME NEW t \in R \ {w}, NEW a \in B \ (R \ {w}) PROVE Better(t, a)
    <3>1. CASE a = w
      BY <2>2, <3>1
    <3>2. CASE a # w
      <4>1. a \in A \ r
        BY <1>4, <2>4, <2>8, <3>2
      <4>2. CASE t \in r
        BY <1>2, <4>1, <4>2
      <4>3. CASE t = e
        <5>1. w \in r /\ Better(e, w)
          BY <2>2, <2>4, <2>8, <4>3
        <5>2. Better(w, a)
          BY <1>2, <4>1, <5>1
        <5> QED BY <1>1, <1>6, <4>1, <4>3, <5>1, <5>2
      <4> QED BY <2>4, <2>8, <4>2, <4>3
    <3> QED BY <3>1, <3>2
  <2>9. PICK J : J = Erase(I, w.id)
    OBVIOUS
  <2>10. DOMAIN J = DOMAIN I \ {w.id} /\ (\A x \in DOMAIN J : J[x] = I[x]) /\ J = [x \in DOMAIN J |-> J[x]]
    BY <2>9 DEF Erase, Restrict
  <2>11. \A f \in R : f.id = w.id => f = w
    BY <1>5, <1>9, <2>2 DEF OneEach
  <2>12. DOMAIN J = {f.id : f \in R \ {w}}
    BY <1>9, <2>10, <2>11
  <2>13. \A f \in R \ {w} : J[f.id] = f
    BY <1>9, <2>10, <2>12
  <2>14. R \ {w} \subseteq B
    BY <1>9
  <2>15. Ranking(R \ {w}, J, B)
    <3>1. J = [x \in {f.id : f \in R \ {w}} |-> J[x]]
      BY <2>10, <2>12
    <3>2. Cardinality(R \ {w}) <= Limit
      BY <1>1, <2>7
    <3> QED BY <2>7, <2>8, <2>13, <2>14, <3>1, <3>2 DEF Ranking
  <2> QED BY <2>1, <2>9, <2>15
<1>13. Added(r, i, e) = IF Cardinality(R) <= Limit THEN [ranks |-> R, it |-> I]
                        ELSE [ranks |-> R \ {Worst(R)}, it |-> Erase(I, Worst(R).id)]
  BY <1>7, <1>8 DEF Added
<1>14. CASE Cardinality(R) <= Limit
  <2>1. Added(r, i, e).ranks = R /\ Added(r, i, e).it = I
    BY <1>13, <1>14
  <2> QED BY <1>4, <1>11, <1>14, <2>1
<1>15. CASE ~(Cardinality(R) <= Limit)
  <2>1. Added(r, i, e).ranks = R \ {Worst(R)} /\ Added(r, i, e).it = Erase(I, Worst(R).id)
    BY <1>13, <1>15
  <2> QED BY <1>4, <1>12, <1>15, <2>1
<1> QED BY <1>14, <1>15

\* Adding the best first to an empty ranking makes it anew.
Firsts(k) ==
  [ranks |-> {e \in ranks : PlaceIn(ranks, e) <= k},
   it |-> [x \in {e.id : e \in {f \in ranks : PlaceIn(ranks, f) <= k}} |-> it[x]]]

LEMMA NthIs ==
  ASSUME ranks \subseteq RankEle, IsFiniteSet(ranks)
  PROVE  /\ Cardinality(ranks) \in Nat
         /\ \A e \in ranks : PlaceIn(ranks, e) \in 1 .. Cardinality(ranks)
         /\ \A e, f \in ranks : PlaceIn(ranks, e) = PlaceIn(ranks, f) => e = f
         /\ \A k \in 1 .. Cardinality(ranks) : \E e \in ranks : PlaceIn(ranks, e) = k
<1>1. PICK S : S = ranks
  OBVIOUS
<1>2. S \subseteq RankEle /\ IsFiniteSet(S)
  BY <1>1
<1>3. StrictOrder(S, Worse(S)) /\ \A e \in S : {f \in S : Better(f, e)} = Below(S, Worse(S), e)
  BY <1>2, BetterIsAnOrder
<1>4. PICK n : n = Cardinality(S)
  OBVIOUS
<1>5. n \in Nat
  BY <1>2, <1>4, FS_CardinalityType
<1>6. ASSUME NEW e \in S
      PROVE  /\ PlaceIn(S, e) = Cardinality(Below(S, Worse(S), e)) + 1
             /\ Cardinality(Below(S, Worse(S), e)) \in 0 .. n - 1
  BY <1>2, <1>3, <1>4, BelowCounts DEF PlaceIn
<1>7. ASSUME NEW k \in 1 .. n PROVE \E e \in S : PlaceIn(S, e) = k
  <2>1. PICK m : m = k - 1
    OBVIOUS
  <2>2. m \in 0 .. n - 1
    BY <1>5, <2>1
  <2>3. PICK e \in S : Cardinality(Below(S, Worse(S), e)) = m
    BY <1>2, <1>3, <1>4, <2>2, EveryPlaceIsTaken
  <2>4. PlaceIn(S, e) = k
    BY <1>5, <1>6, <2>1, <2>3
  <2> QED BY <2>4
<1>8. \A e, f \in S : PlaceIn(S, e) = PlaceIn(S, f) => e = f
  <2>1. SUFFICES ASSUME NEW e \in S, NEW f \in S, PlaceIn(S, e) = PlaceIn(S, f) PROVE e = f
    OBVIOUS
  <2>2. Cardinality(Below(S, Worse(S), e)) = Cardinality(Below(S, Worse(S), f))
    BY <1>5, <1>6, <2>1
  <2> QED BY <1>2, <1>3, <2>2, EveryPlaceIsTaken
<1>9. \A e \in S : PlaceIn(S, e) \in 1 .. n
  BY <1>5, <1>6
<1> QED BY <1>1, <1>4, <1>5, <1>7, <1>8, <1>9

Nth(k) == CHOOSE e \in ranks : PlaceIn(ranks, e) = k
Grows(T) ==
  T = [k \in 0 .. Cardinality(ranks) |->
         IF k = 0 THEN [ranks |-> {}, it |-> Nothing]
         ELSE Added(T[k - 1].ranks, T[k - 1].it, Nth(k))]

LEMMA FirstsGrow ==
  ASSUME NEW A, A \subseteq RankEle, IsFiniteSet(A), OneEach(A), Ranking(ranks, it, A),
         NEW k \in 1 .. Cardinality(ranks)
  PROVE  Firsts(k) = Added(Firsts(k - 1).ranks, Firsts(k - 1).it, Nth(k))
<1>1. /\ ranks \subseteq RankEle /\ IsFiniteSet(ranks) /\ ranks \subseteq A
      /\ Cardinality(ranks) <= Limit /\ Limit \in Nat
      /\ DOMAIN it = {f.id : f \in ranks} /\ \A f \in ranks : it[f.id] = f
  BY FS_Subset, RankAssumption DEF Ranking
<1>2. PICK e : e = Nth(k)
  OBVIOUS
<1>3. e \in ranks /\ PlaceIn(ranks, e) = k
  BY <1>1, <1>2, NthIs DEF Nth
<1>4. PICK r : r = Firsts(k - 1).ranks
  OBVIOUS
<1>5. PICK i : i = Firsts(k - 1).it
  OBVIOUS
<1>6. PICK R : R = Firsts(k).ranks
  OBVIOUS
<1>7. PICK I : I = Firsts(k).it
  OBVIOUS
<1>8. /\ r = {f \in ranks : PlaceIn(ranks, f) <= k - 1} /\ i = [x \in {f.id : f \in r} |-> it[x]]
      /\ R = {f \in ranks : PlaceIn(ranks, f) <= k} /\ I = [x \in {f.id : f \in R} |-> it[x]]
      /\ Firsts(k) = [ranks |-> R, it |-> I]
  BY <1>4, <1>5, <1>6, <1>7 DEF Firsts
<1>9. /\ \A f \in ranks : PlaceIn(ranks, f) \in Int /\ (PlaceIn(ranks, f) = k => f = e)
      /\ Cardinality(ranks) \in Nat /\ k \in Int
  BY <1>1, <1>3, NthIs
<1>10. R = r \cup {e} /\ e \notin r
  BY <1>3, <1>8, <1>9
<1>11. \A f \in r : f.id # e.id
  BY <1>1, <1>3, <1>8, <1>10 DEF OneEach
<1>12. e.id \notin DOMAIN i
  BY <1>8, <1>11
<1>13. Cardinality(R) <= Limit
  <2>1. R \subseteq ranks
    BY <1>8
  <2>2. Cardinality(R) <= Cardinality(ranks) /\ Cardinality(R) \in Nat
    BY <1>1, <2>1, FS_Subset, FS_CardinalityType
  <2> QED BY <1>1, <1>9, <2>2
<1>14. I = PutIn(i, e.id, e)
  <2>1. DOMAIN I = DOMAIN i \cup {e.id}
    BY <1>8, <1>10
  <2>2. \A x \in DOMAIN I : I[x] = IF x = e.id THEN e ELSE i[x]
    BY <1>1, <1>3, <1>8, <2>1
  <2>3. I = [x \in DOMAIN I |-> I[x]]
    BY <1>8
  <2> HIDE DEF Firsts
  <2> QED BY <2>1, <2>2, <2>3 DEF PutIn
<1>15. Added(r, i, e) = [ranks |-> R, it |-> I]
  BY <1>10, <1>12, <1>13, <1>14 DEF Added
<1> QED BY <1>2, <1>4, <1>5, <1>8, <1>15

LEMMA ReloadIsNothing ==
  ASSUME NEW A, A \subseteq RankEle, IsFiniteSet(A), OneEach(A), Ranking(ranks, it, A)
  PROVE  /\ Reloaded[Cardinality(ranks)].ranks = ranks
         /\ Reloaded[Cardinality(ranks)].it = it
<1> DEFINE n == Cardinality(ranks)
           F == [k \in 0 .. n |-> Firsts(k)]
<1>1. /\ ranks \subseteq RankEle /\ IsFiniteSet(ranks) /\ n \in Nat
      /\ \A e \in ranks : PlaceIn(ranks, e) \in 1 .. n
  BY FS_Subset, NthIs DEF Ranking
<1>2. Firsts(0) = [ranks |-> {}, it |-> Nothing]
  <2>1. \A e \in ranks : ~(PlaceIn(ranks, e) <= 0)
    BY <1>1
  <2>2. {e \in ranks : PlaceIn(ranks, e) <= 0} = {}
    BY <2>1
  <2> QED BY <2>2 DEF Firsts, Nothing
<1>3. \A k \in 1 .. n : Firsts(k) = Added(Firsts(k - 1).ranks, Firsts(k - 1).it, Nth(k))
  BY FirstsGrow
<1> HIDE DEF n
<1>4. \A k \in 0 .. n : F[k] = IF k = 0 THEN [ranks |-> {}, it |-> Nothing]
                               ELSE Added(F[k - 1].ranks, F[k - 1].it, Nth(k))
  <2>1. TAKE k \in 0 .. n
  <2>2. CASE k = 0
    BY <1>1, <1>2, <2>2
  <2>3. CASE k # 0
    <3>1. k \in 1 .. n /\ k - 1 \in 0 .. n
      BY <1>1, <2>3
    <3>2. F[k] = Firsts(k) /\ F[k - 1] = Firsts(k - 1)
      BY <3>1
    <3> HIDE DEF F
    <3> QED BY <1>3, <2>3, <3>1, <3>2
  <2> QED BY <2>2, <2>3
<1>5. F = [k \in 0 .. n |-> F[k]]
  OBVIOUS
<1> HIDE DEF F
<1>6. Grows(F)
  BY <1>4, <1>5 DEF Grows, n
<1>7. PICK T : T = Reloaded
  OBVIOUS
<1>8. Grows(T)
  <2>1. Reloaded = CHOOSE after : Grows(after)
    BY DEF Reloaded, Grows, Nth
  <2> QED BY <1>6, <1>7, <2>1
<1>9. \A k \in 0 .. n : T[k] = IF k = 0 THEN [ranks |-> {}, it |-> Nothing]
                               ELSE Added(T[k - 1].ranks, T[k - 1].it, Nth(k))
  BY <1>8 DEF Grows, n
<1> DEFINE bad == {k \in 0 .. n : T[k] # F[k]}
<1>10. ASSUME bad # {} PROVE FALSE
  <2>1. PICK k \in bad : \A j \in bad : k <= j
    <3>1. bad \subseteq Nat
      OBVIOUS
    <3> QED BY <1>10, <3>1, LeastNumber
  <2>2. k # 0
    BY <1>1, <1>4, <1>9, <2>1
  <2>3. k \in 0 .. n /\ k - 1 \in 0 .. n /\ ~(k <= k - 1)
    BY <1>1, <2>1, <2>2
  <2>4. T[k - 1] = F[k - 1]
    BY <2>1, <2>3
  <2>5. T[k] = F[k]
    BY <1>4, <1>9, <2>2, <2>3, <2>4
  <2> QED BY <2>1, <2>5
<1>11. n \in 0 .. n
  BY <1>1
<1>12. T[n] = Firsts(n)
  <2>1. T[n] = F[n]
    BY <1>10, <1>11
  <2> QED BY <1>11, <2>1 DEF F
<1>13. {e \in ranks : PlaceIn(ranks, e) <= n} = ranks
  BY <1>1
<1>14. it = [x \in {e.id : e \in ranks} |-> it[x]]
  BY DEF Ranking
<1>15. Firsts(n).ranks = ranks /\ Firsts(n).it = it
  BY <1>13, <1>14 DEF Firsts
<1> QED BY <1>7, <1>12, <1>15 DEF n

\* The ranking is that of the last elements that were added.
RankInv ==
  /\ latest = [x \in DOMAIN latest |-> latest[x]] /\ IsFiniteSet(DOMAIN latest)
  /\ DOMAIN latest \subseteq RankId
  /\ \A x \in DOMAIN latest : latest[x] \in RankEle /\ latest[x].id = x
  /\ Ranking(ranks, it, Range(latest))

LEMMA AllIs ==
  ASSUME RankInv
  PROVE  Range(latest) \subseteq RankEle /\ IsFiniteSet(Range(latest)) /\ OneEach(Range(latest))
<1>1. Range(latest) \subseteq RankEle
  BY DEF RankInv, Range
<1>2. latest \in Surjection(DOMAIN latest, Range(latest))
  BY DEF RankInv, Range, Surjection
<1>3. IsFiniteSet(Range(latest))
  BY <1>2, FS_Surjection DEF RankInv
<1>4. OneEach(Range(latest))
  BY DEF RankInv, Range, OneEach
<1> QED BY <1>1, <1>3, <1>4

LEMMA AddScoreKeeps ==
  ASSUME RankInv, Rising, NEW id \in RankId, NEW score \in 1 .. MaxScore, NEW tm \in 1 .. MaxTm,
         AddScore(id, score, tm)
  PROVE  RankInv'
<1>1. PICK e : e = Element(id, score, tm)
  OBVIOUS
<1>2. e \in RankEle /\ e.id = id /\ e.score = score
  BY <1>1 DEF Element, RankEle
<1>3. PICK A : A = Range(latest)
  OBVIOUS
<1>4. A \subseteq RankEle /\ IsFiniteSet(A) /\ OneEach(A) /\ Ranking(ranks, it, A)
  BY <1>3, AllIs DEF RankInv
<1>5. PICK old : old = {a \in A : a.id = e.id}
  OBVIOUS
<1>6. /\ id \in DOMAIN latest => latest[id].score < score
      /\ latest' = PutIn(latest, id, e)
      /\ ranks' = Added(ranks, it, e).ranks /\ it' = Added(ranks, it, e).it
  BY <1>1 DEF AddScore
<1>7. ASSUME NEW a \in old PROVE Better(e, a)
  <2>1. id \in DOMAIN latest /\ latest[id] = a
    BY <1>2, <1>3, <1>5, <1>7 DEF RankInv, Range
  <2>2. a.score < score /\ a.score \in Int /\ score \in Int
    BY <1>4, <1>5, <1>6, <2>1, EleIs
  <2> QED BY <1>2, <2>2 DEF Better
<1>8. Ranking(Added(ranks, it, e).ranks, Added(ranks, it, e).it, (A \ old) \cup {e})
  BY <1>2, <1>4, <1>5, <1>7, AddedKeeps
<1>9. /\ DOMAIN latest' = DOMAIN latest \cup {id} /\ latest'[id] = e
      /\ \A x \in DOMAIN latest : x # id => latest'[x] = latest[x]
      /\ latest' = [x \in DOMAIN latest' |-> latest'[x]]
  BY <1>6 DEF PutIn
<1>10. Range(latest') = (A \ old) \cup {e}
  <2>1. \A x \in DOMAIN latest : latest[x].id = x
    BY DEF RankInv
  <2>2. ASSUME NEW a \in A, a \notin old PROVE a \in Range(latest')
    <3>1. PICK x \in DOMAIN latest : a = latest[x]
      BY <1>3, <2>2 DEF Range
    <3>2. x # id
      BY <1>2, <1>5, <2>1, <2>2, <3>1
    <3> QED BY <1>9, <3>1, <3>2 DEF Range
  <2>3. ASSUME NEW a \in Range(latest'), a # e PROVE a \in A \ old
    <3>1. PICK x \in DOMAIN latest' : a = latest'[x]
      BY <2>3 DEF Range
    <3>2. x # id /\ x \in DOMAIN latest /\ a = latest[x]
      BY <1>9, <2>3, <3>1
    <3>3. a.id = x /\ a \in A
      BY <1>3, <2>1, <3>2 DEF Range
    <3> QED BY <1>2, <1>5, <3>2, <3>3
  <2>4. e \in Range(latest')
    BY <1>9 DEF Range
  <2> QED BY <2>2, <2>3, <2>4
<1>11. IsFiniteSet(DOMAIN latest')
  BY <1>9, FS_AddElement DEF RankInv
<1>12. /\ DOMAIN latest' \subseteq RankId
       /\ \A x \in DOMAIN latest' : latest'[x] \in RankEle /\ latest'[x].id = x
  BY <1>2, <1>9 DEF RankInv
<1>13. Ranking(ranks', it', Range(latest'))
  BY <1>6, <1>8, <1>10
<1> QED BY <1>9, <1>11, <1>12, <1>13 DEF RankInv, RankEle, Ranking, Better, Range

LEMMA RankInvInit == RankInit => RankInv
<1>1. SUFFICES ASSUME RankInit PROVE RankInv
  OBVIOUS
<1>2. latest = Nothing /\ it = Nothing /\ ranks = {} /\ Cardinality({}) = 0 /\ IsFiniteSet({})
  BY <1>1, FS_EmptySet DEF RankInit
<1>3. DOMAIN Nothing = {} /\ Nothing = [x \in {} |-> Nothing[x]]
  BY DEF Nothing
<1>4. Range(latest) = {}
  BY <1>2, <1>3 DEF Range
<1>5. Ranking({}, Nothing, {})
  <2>1. 0 <= Limit
    BY RankAssumption
  <2>2. {e.id : e \in {}} = {}
    OBVIOUS
  <2> QED BY <1>2, <1>3, <2>1, <2>2 DEF Ranking
<1> QED BY <1>2, <1>3, <1>4, <1>5 DEF RankInv

LEMMA RankInvStep == ASSUME Rising PROVE RankInv /\ [RankNext]_rankVars => RankInv'
<1>1. SUFFICES ASSUME RankInv, [RankNext]_rankVars PROVE RankInv'
  OBVIOUS
<1>2. ASSUME Reload PROVE RankInv'
  <2>1. UNCHANGED rankVars
    BY <1>1, <1>2, AllIs, ReloadIsNothing DEF Reload, RankInv, rankVars
  <2> QED BY <1>1, <2>1 DEF rankVars, RankInv, Ranking
<1>3. CASE UNCHANGED rankVars
  BY <1>1, <1>3 DEF rankVars, RankInv, Ranking
<1> QED BY <1>1, <1>2, <1>3, AddScoreKeeps DEF RankNext

\* If scores only rise, the ranking (rank/cc/lrank.cc) holds the best of all that were
\* ever added, with their last scores, and get_order tells their places among all of
\* them, for any number of them, although who is pushed out is forgotten.
THEOREM TheBestAreKept == ASSUME Rising PROVE RankSpec => []KeepsTheBest
<1>1. RankInv => KeepsTheBest
  <2>1. SUFFICES ASSUME RankInv PROVE KeepsTheBest
    OBVIOUS
  <2>2. PICK A : A = Range(latest)
    OBVIOUS
  <2>3. A \subseteq RankEle /\ IsFiniteSet(A) /\ OneEach(A) /\ Ranking(ranks, it, A)
    BY <2>1, <2>2, AllIs DEF RankInv
  <2>4. /\ \A e \in ranks : PlaceIn(A, e) <= Limit /\ PlaceIn(ranks, e) = PlaceIn(A, e)
        /\ \A e \in A \ ranks : ~(PlaceIn(A, e) <= Limit)
    BY <2>3, RankingTells
  <2>5. /\ ranks \subseteq A /\ DOMAIN it = {f.id : f \in ranks}
        /\ \A f \in ranks : it[f.id] = f
    BY <2>3 DEF Ranking
  <2>6. ranks = {e \in A : PlaceIn(A, e) <= Limit}
    BY <2>4, <2>5
  <2>7. ASSUME NEW e \in A
        PROVE  Order(e.id) = IF PlaceIn(A, e) <= Limit THEN PlaceIn(A, e) ELSE -1
    <3>1. CASE e \in ranks
      BY <2>4, <2>5, <3>1 DEF Order
    <3>2. CASE e \notin ranks
      <4>1. e.id \notin DOMAIN it
        BY <2>3, <2>5, <3>2 DEF OneEach
      <4> QED BY <2>4, <2>7, <3>2, <4>1 DEF Order
    <3> QED BY <3>1, <3>2
  <2> QED BY <2>2, <2>6, <2>7 DEF KeepsTheBest
<1> QED BY <1>1, RankInvInit, RankInvStep, PTL DEF RankSpec

----------------------------------------------------------------------------
(* Timers.                                                                 *)

\* The places are those of the timers in timer_, which are the timers that are wanted.
PlacesOf(f) == {PlaceOf(n, f[n]) : n \in DOMAIN f}
Timers(f) ==
  /\ f = [n \in DOMAIN f |-> f[n]] /\ IsFiniteSet(DOMAIN f) /\ DOMAIN f \subseteq TimerName
  /\ \A n \in DOMAIN f : f[n] \in Times
TimerInv == Timers(set) /\ wanted = set /\ iter = PlacesOf(set) /\ FiresOnce

LEMMA NameIs ==
  ASSUME NEW n \in TimerName
  PROVE  n[1] \in Int /\ n[2] \in Int /\ n = <<n[1], n[2]>>
<1>1. n[1] \in TimerId /\ n[2] \in TimerInfo /\ n = <<n[1], n[2]>>
  BY DEF TimerName
<1>2. TimerId \subseteq Int /\ TimerInfo \subseteq Int
  BY TimerAssumption
<1> QED BY <1>1, <1>2

LEMMA PlaceOfIs ==
  ASSUME NEW n \in TimerName, NEW m \in TimerName, NEW s, NEW t
  PROVE  /\ PlaceOf(n, s) = PlaceOf(m, t) => n = m /\ s = t
         /\ PlaceOf(n, s)[1] = s /\ <<PlaceOf(n, s)[2], PlaceOf(n, s)[3]>> = n
<1>1. n = <<n[1], n[2]>> /\ m = <<m[1], m[2]>>
  BY NameIs
<1>2. PlaceOf(n, s) = <<s, n[1], n[2]>> /\ PlaceOf(m, t) = <<t, m[1], m[2]>>
  BY DEF PlaceOf
<1>3. PlaceOf(n, s)[1] = s /\ PlaceOf(n, s)[2] = n[1] /\ PlaceOf(n, s)[3] = n[2]
  BY <1>2
<1>4. ASSUME PlaceOf(n, s) = PlaceOf(m, t) PROVE s = t /\ n[1] = m[1] /\ n[2] = m[2]
  BY <1>2, <1>4
<1> QED BY <1>1, <1>3, <1>4

LEMMA WithKeeps ==
  ASSUME NEW f, Timers(f), NEW name \in TimerName, NEW tm \in Times
  PROVE  /\ Timers(With(f, name, tm))
         /\ PlacesOf(With(f, name, tm)) =
              (PlacesOf(f) \ {PlaceOf(n, f[n]) : n \in {name} \cap DOMAIN f}) \cup {PlaceOf(name, tm)}
<1>1. PICK g : g = With(f, name, tm)
  OBVIOUS
<1>2. /\ g = [n \in DOMAIN g |-> g[n]] /\ DOMAIN g = DOMAIN f \cup {name} /\ g[name] = tm
      /\ \A n \in DOMAIN f : n # name => g[n] = f[n]
  BY <1>1 DEF With
<1>3. IsFiniteSet(DOMAIN g)
  BY <1>2, FS_AddElement DEF Timers
<1>4. DOMAIN g \subseteq TimerName /\ \A n \in DOMAIN g : g[n] \in Times
  BY <1>2 DEF Timers
<1>5. DOMAIN f \subseteq TimerName
  BY DEF Timers
<1>6. ASSUME NEW n \in DOMAIN f, n # name
      PROVE  PlaceOf(n, f[n]) \notin {PlaceOf(k, f[k]) : k \in {name} \cap DOMAIN f}
  BY <1>5, <1>6, PlaceOfIs
<1>7. PlacesOf(g) = (PlacesOf(f) \ {PlaceOf(n, f[n]) : n \in {name} \cap DOMAIN f}) \cup {PlaceOf(name, tm)}
  <2>1. ASSUME NEW p \in PlacesOf(g), p # PlaceOf(name, tm)
        PROVE  p \in PlacesOf(f) \ {PlaceOf(n, f[n]) : n \in {name} \cap DOMAIN f}
    <3>1. PICK n \in DOMAIN g : p = PlaceOf(n, g[n])
      BY DEF PlacesOf
    <3>2. n # name /\ n \in DOMAIN f /\ p = PlaceOf(n, f[n])
      BY <1>2, <2>1, <3>1
    <3> QED BY <1>6, <3>2 DEF PlacesOf
  <2>2. ASSUME NEW p \in PlacesOf(f), p \notin {PlaceOf(n, f[n]) : n \in {name} \cap DOMAIN f}
        PROVE  p \in PlacesOf(g)
    <3>1. PICK n \in DOMAIN f : p = PlaceOf(n, f[n])
      BY DEF PlacesOf
    <3>2. n # name
      BY <2>2, <3>1
    <3>3. n \in DOMAIN g /\ p = PlaceOf(n, g[n])
      BY <1>2, <3>1, <3>2
    <3> QED BY <3>3 DEF PlacesOf
  <2>3. PlaceOf(name, tm) \in PlacesOf(g)
    BY <1>2 DEF PlacesOf
  <2> QED BY <2>1, <2>2, <2>3
<1>8. Timers(g)
  BY <1>2, <1>3, <1>4 DEF Timers
<1> QED BY <1>1, <1>7, <1>8

LEMMA AllButKeeps ==
  ASSUME NEW f, Timers(f), NEW names
  PROVE  /\ Timers(AllBut(f, names))
         /\ PlacesOf(AllBut(f, names)) = PlacesOf(f) \ {PlaceOf(n, f[n]) : n \in names \cap DOMAIN f}
<1>1. PICK g : g = AllBut(f, names)
  OBVIOUS
<1>2. /\ g = [n \in DOMAIN g |-> g[n]] /\ DOMAIN g = DOMAIN f \ names
      /\ \A n \in DOMAIN g : g[n] = f[n]
  BY <1>1 DEF AllBut, Restrict
<1>3. IsFiniteSet(DOMAIN g)
  BY <1>2, FS_Subset DEF Timers
<1>4. Timers(g) /\ DOMAIN f \subseteq TimerName
  BY <1>2, <1>3 DEF Timers
<1>5. \A n, k \in DOMAIN f : PlaceOf(n, f[n]) = PlaceOf(k, f[k]) => n = k
  BY <1>4, PlaceOfIs
<1>6. PlacesOf(g) = PlacesOf(f) \ {PlaceOf(n, f[n]) : n \in names \cap DOMAIN f}
  <2>1. ASSUME NEW p \in PlacesOf(g)
        PROVE  p \in PlacesOf(f) \ {PlaceOf(n, f[n]) : n \in names \cap DOMAIN f}
    <3>1. PICK n \in DOMAIN g : p = PlaceOf(n, g[n])
      BY DEF PlacesOf
    <3>2. n \notin names /\ n \in DOMAIN f /\ p = PlaceOf(n, f[n])
      BY <1>2, <3>1
    <3>3. p \notin {PlaceOf(k, f[k]) : k \in names \cap DOMAIN f}
      BY <1>5, <3>2
    <3> QED BY <3>2, <3>3 DEF PlacesOf
  <2>2. ASSUME NEW p \in PlacesOf(f), p \notin {PlaceOf(n, f[n]) : n \in names \cap DOMAIN f}
        PROVE  p \in PlacesOf(g)
    <3>1. PICK n \in DOMAIN f : p = PlaceOf(n, f[n])
      BY DEF PlacesOf
    <3>2. n \notin names
      BY <2>2, <3>1
    <3>3. n \in DOMAIN g /\ p = PlaceOf(n, g[n])
      BY <1>2, <3>1, <3>2
    <3> QED BY <3>3 DEF PlacesOf
  <2> QED BY <2>1, <2>2
<1> QED BY <1>1, <1>4, <1>6

\* The order by time of places that are triples of numbers.
Later(S) == {p \in S \X S : Earlier(p[1], p[2])}

LEMMA EarlierIsAnOrder ==
  ASSUME NEW S, S \subseteq Int \X Int \X Int
  PROVE  /\ StrictOrder(S, Later(S))
         /\ \A p \in S : {q \in S : Earlier(q, p)} = Below(S, Later(S), p)
         /\ \A p, q \in S : <<p, q>> \in Later(S) => p[1] <= q[1]
<1>1. \A p \in S : p = <<p[1], p[2], p[3]>> /\ p[1] \in Int /\ p[2] \in Int /\ p[3] \in Int
  OBVIOUS
<1>2. \A p, q \in S : <<p, q>> \in Later(S) <=> Earlier(p, q)
  BY DEF Later
<1>3. \A p \in S : ~Earlier(p, p)
  BY <1>1 DEF Earlier
<1>4. ASSUME NEW p \in S, NEW q \in S, ~Earlier(p, q), ~Earlier(q, p) PROVE p = q
  <2>1. p[1] = q[1] /\ p[2] = q[2] /\ p[3] = q[3]
    BY <1>1, <1>4 DEF Earlier
  <2> QED BY <1>1, <2>1
<1>5. ASSUME NEW p \in S, NEW q \in S, NEW r \in S, Earlier(p, q), Earlier(q, r)
      PROVE  Earlier(p, r)
  <2>1. /\ p[1] \in Int /\ p[2] \in Int /\ p[3] \in Int /\ q[1] \in Int /\ q[2] \in Int
        /\ q[3] \in Int /\ r[1] \in Int /\ r[2] \in Int /\ r[3] \in Int
    BY <1>1
  <2> QED BY <1>5, <2>1 DEF Earlier
<1>6. StrictOrder(S, Later(S))
  BY <1>2, <1>3, <1>4, <1>5 DEF StrictOrder
<1>7. \A p \in S : {q \in S : Earlier(q, p)} = Below(S, Later(S), p)
  BY <1>2 DEF Below
<1>8. \A p, q \in S : Earlier(p, q) => p[1] <= q[1]
  BY <1>1 DEF Earlier
<1> QED BY <1>2, <1>6, <1>7, <1>8

LEMMA InTimeIs ==
  ASSUME NEW S, S \subseteq Int \X Int \X Int, IsFiniteSet(S)
  PROVE  /\ InTime(S) \in Seq(S) /\ Len(InTime(S)) = Cardinality(S) /\ Range(InTime(S)) = S
         /\ \A i, j \in DOMAIN InTime(S) : i < j => InTime(S)[i][1] <= InTime(S)[j][1]
<1>1. StrictOrder(S, Later(S)) /\ Cardinality(S) \in Nat
  BY EarlierIsAnOrder, FS_CardinalityType
<1>2. PICK f : f = InTime(S)
  OBVIOUS
<1>3. PICK rel : rel = Later(S)
  OBVIOUS
<1>4. ASSUME NEW i \in 1 .. Cardinality(S)
      PROVE  f[i] \in S /\ Cardinality({q \in S : Earlier(q, f[i])}) = i - 1
  <2>1. PICK m : m = i - 1
    OBVIOUS
  <2>2. m \in 0 .. Cardinality(S) - 1
    BY <1>1, <2>1
  <2>3. \E p \in S : Cardinality(Below(S, rel, p)) = m
    BY <1>1, <1>3, <2>2, EveryPlaceIsTaken
  <2>4. \E p \in S : Cardinality({q \in S : Earlier(q, p)}) = i - 1
    BY <1>3, <2>1, <2>3, EarlierIsAnOrder
  <2> QED BY <1>2, <2>4 DEF InTime
<1>5. Listed(S, rel, f)
  <2>1. f \in [1 .. Cardinality(S) -> S]
    BY <1>2, <1>4 DEF InTime
  <2>2. \A i \in 1 .. Cardinality(S) : Cardinality(Below(S, rel, f[i])) = i - 1
    BY <1>3, <1>4, EarlierIsAnOrder
  <2> QED BY <2>1, <2>2 DEF Listed
<1>6. /\ f \in Seq(S) /\ Len(f) = Cardinality(S)
      /\ \A i, j \in 1 .. Len(f) : i < j => <<f[i], f[j]>> \in rel
      /\ \A x \in S : \E i \in 1 .. Len(f) : f[i] = x
  <2>1. StrictOrder(S, rel)
    BY <1>1, <1>3
  <2>2. IsFiniteSet(S)
    OBVIOUS
  <2> QED BY ONLY <1>5, <2>1, <2>2, SortedIs
<1>7. DOMAIN f = 1 .. Len(f) /\ \A i \in 1 .. Len(f) : f[i] \in S
  BY <1>6
<1>8. Range(f) = S
  BY <1>6, <1>7 DEF Range
<1>9. \A i, j \in DOMAIN f : i < j => f[i][1] <= f[j][1]
  BY <1>3, <1>6, <1>7, EarlierIsAnOrder
<1> QED BY <1>2, <1>6, <1>8, <1>9

LEMMA ExpireKeeps ==
  ASSUME TimerInv, NEW tm \in Times, Expire(tm)
  PROVE  TimerInv'
<1>1. PICK gone : gone = {p \in iter : p[1] <= tm}
  OBVIOUS
<1>2. PICK names : names = {<<p[2], p[3]>> : p \in gone}
  OBVIOUS
<1>3. PICK f : f = set
  OBVIOUS
<1>4. Timers(f) /\ iter = PlacesOf(f) /\ wanted = f /\ DOMAIN f \subseteq TimerName
        /\ \A n \in DOMAIN f : f[n] \in Times
  BY <1>3 DEF TimerInv, Timers
<1>5. /\ answer' = InTime(gone) /\ set' = AllBut(f, names) /\ iter' = iter \ gone
      /\ due' = {n \in DOMAIN f : f[n] <= tm} /\ wanted' = AllBut(f, due')
  BY <1>1, <1>2, <1>3, <1>4 DEF Expire
<1>6. PICK gone2 : gone2 = {n \in DOMAIN f : f[n] <= tm}
  OBVIOUS
<1>7. gone = {PlaceOf(n, f[n]) : n \in gone2}
  <2>1. \A n \in DOMAIN f : PlaceOf(n, f[n])[1] = f[n]
    BY <1>4, PlaceOfIs
  <2> QED BY <1>1, <1>4, <1>6, <2>1 DEF PlacesOf
<1>8. names = gone2
  <2>1. \A n \in gone2 : <<PlaceOf(n, f[n])[2], PlaceOf(n, f[n])[3]>> = n
    BY <1>4, <1>6, PlaceOfIs
  <2> QED BY <1>2, <1>7, <2>1
<1>9. gone2 \cap DOMAIN f = gone2
  BY <1>6
<1>10. Timers(set') /\ wanted' = set' /\ iter' = PlacesOf(set')
  BY <1>4, <1>5, <1>6, <1>7, <1>8, <1>9, AllButKeeps
<1>11. IsFiniteSet(gone2)
  BY <1>4, <1>6, FS_Subset DEF Timers
<1>12. IsFiniteSet(gone) /\ Cardinality(gone) = Cardinality(gone2)
  <2>1. PICK g : g = [n \in gone2 |-> PlaceOf(n, f[n])]
    OBVIOUS
  <2>2. g \in Surjection(gone2, gone)
    BY <1>7, <2>1 DEF Surjection
  <2>3. \A n, m \in gone2 : g[n] = g[m] => n = m
    BY <1>4, <1>6, <2>1, PlaceOfIs
  <2>4. g \in Injection(gone2, gone)
    BY <2>1, <2>2, <2>3 DEF Injection, IsInjective, Surjection
  <2> QED BY <1>11, <2>2, <2>4, FS_Surjection
<1>13. gone \subseteq Int \X Int \X Int
  BY <1>4, <1>6, <1>7, NameIs, TimerAssumption DEF PlaceOf
<1>14. /\ Len(InTime(gone)) = Cardinality(gone) /\ Range(InTime(gone)) = gone
       /\ \A i, j \in DOMAIN InTime(gone) : i < j => InTime(gone)[i][1] <= InTime(gone)[j][1]
  BY <1>12, <1>13, InTimeIs
<1>15. FiresOnce'
  BY <1>2, <1>5, <1>6, <1>8, <1>12, <1>14 DEF FiresOnce
<1> QED BY <1>10, <1>15 DEF TimerInv, Timers, PlacesOf, PlaceOf, TimerName

LEMMA TimerInvInit == TimerInit => TimerInv
<1>1. SUFFICES ASSUME TimerInit PROVE TimerInv
  OBVIOUS
<1>2. /\ DOMAIN set = {} /\ set = [n \in {} |-> set[n]] /\ wanted = set /\ iter = {}
      /\ answer = <<>> /\ due = {} /\ IsFiniteSet({}) /\ Cardinality({}) = 0
  BY <1>1, FS_EmptySet DEF TimerInit
<1>3. Timers(set) /\ PlacesOf(set) = {}
  BY <1>2 DEF Timers, PlacesOf
<1>4. FiresOnce
  BY <1>2 DEF FiresOnce, Range
<1> QED BY <1>2, <1>3, <1>4 DEF TimerInv

LEMMA TimerInvStep == TimerInv /\ [TimerNext]_timerVars => TimerInv'
<1>1. SUFFICES ASSUME TimerInv, [TimerNext]_timerVars PROVE TimerInv'
  OBVIOUS
<1>2. PICK f : f = set
  OBVIOUS
<1>3. Timers(f) /\ iter = PlacesOf(f) /\ wanted = f
  BY <1>1, <1>2 DEF TimerInv
<1>4. ASSUME UNCHANGED <<answer, due>>, NEW g, set' = g, wanted' = g, Timers(g), iter' = PlacesOf(g)
      PROVE  TimerInv'
  <2>1. FiresOnce'
    BY <1>1, <1>4 DEF TimerInv, FiresOnce
  <2>2. Timers(set)' /\ wanted' = set' /\ iter' = PlacesOf(set)'
    BY <1>4 DEF Timers, PlacesOf
  <2> QED BY <2>1, <2>2 DEF TimerInv
<1>5. ASSUME NEW name \in TimerName, NEW tm \in Times, AddTimer(name, tm) PROVE TimerInv'
  <2>1. PICK g : g = With(f, name, tm)
    OBVIOUS
  <2>2. /\ set' = g /\ wanted' = g /\ UNCHANGED <<answer, due>>
        /\ iter' = (iter \ {PlaceOf(n, f[n]) : n \in {name} \cap DOMAIN f}) \cup {PlaceOf(name, tm)}
    BY <1>2, <1>3, <1>5, <2>1 DEF AddTimer, Places
  <2>3. Timers(g) /\ iter' = PlacesOf(g)
    BY <1>3, <2>1, <2>2, WithKeeps
  <2> QED BY <1>4, <2>2, <2>3
<1>6. ASSUME NEW names, TakeBack(names) PROVE TimerInv'
  <2>1. PICK g : g = AllBut(f, names)
    OBVIOUS
  <2>2. /\ set' = g /\ wanted' = g /\ UNCHANGED <<answer, due>>
        /\ iter' = iter \ {PlaceOf(n, f[n]) : n \in names \cap DOMAIN f}
    BY <1>2, <1>3, <1>6, <2>1 DEF TakeBack, Places
  <2>3. Timers(g) /\ iter' = PlacesOf(g)
    BY <1>3, <2>1, <2>2, AllButKeeps
  <2> QED BY <1>4, <2>2, <2>3
<1>7. CASE UNCHANGED timerVars
  BY <1>3, <1>2, <1>4, <1>7 DEF timerVars
<1> QED BY <1>1, <1>5, <1>6, <1>7, ExpireKeeps DEF TimerNext, Del, Delid

\* However timers are set, set again and taken back, expire (timer/cc/ltimer.cc) answers
\* those that are due, once each, the earlier first.
THEOREM TimersFireOnce == TimerSpec => []FiresOnce
<1>1. TimerInv => FiresOnce
  BY DEF TimerInv
<1> QED BY <1>1, TimerInvInit, TimerInvStep, PTL DEF TimerSpec

----------------------------------------------------------------------------
(* Sums over finite sets.                                                  *)
Some(s) == CHOOSE x \in s : TRUE
AddsUp(f, T, G) ==
  G = [s \in SUBSET T |-> IF s = {} THEN 0 ELSE f[Some(s)] + G[s \ {Some(s)}]]
SumUp(f, T) == (CHOOSE G : AddsUp(f, T, G))[T]

LEMMA SumIs ==
  ASSUME NEW f, NEW T
  PROVE  SumFunctionOnSet(f, T) = SumUp(f, T)
BY DEF SumFunctionOnSet, FoldFunctionOnSet, MapThenFoldSet, AddsUp, Some, SumUp

LEMMA SomeIs ==
  ASSUME NEW s, s # {}
  PROVE  Some(s) \in s
BY DEF Some

LEMMA AddsUpIs ==
  ASSUME NEW f, NEW T, NEW G, AddsUp(f, T, G)
  PROVE  G[{}] = 0
<1>1. PICK g : g = [s \in SUBSET T |-> IF s = {} THEN 0 ELSE f[Some(s)] + G[s \ {Some(s)}]]
  OBVIOUS
<1>2. g[{}] = 0
  BY <1>1
<1>3. G = g
  BY <1>1 DEF AddsUp
<1> QED BY <1>2, <1>3

LEMMA AddsUpAt ==
  ASSUME NEW f, NEW T, NEW G, AddsUp(f, T, G), NEW s \in SUBSET T, s # {}, NEW x, x = Some(s)
  PROVE  G[s] = f[x] + G[s \ {x}]
<1>1. PICK g : g = [t \in SUBSET T |-> IF t = {} THEN 0 ELSE f[Some(t)] + G[t \ {Some(t)}]]
  OBVIOUS
<1>2. g[s] = f[Some(s)] + G[s \ {Some(s)}]
  BY <1>1
<1>3. G = g
  BY <1>1 DEF AddsUp
<1> QED BY <1>2, <1>3

\* Subsets are counted by less.
LEMMA LessCounts ==
  ASSUME NEW s, IsFiniteSet(s), NEW x \in s
  PROVE  /\ IsFiniteSet(s \ {x}) /\ Cardinality(s) \in Nat /\ Cardinality(s \ {x}) \in Nat
         /\ Cardinality(s \ {x}) < Cardinality(s)
<1>1. IsFiniteSet(s \ {x}) /\ Cardinality(s \ {x}) = Cardinality(s) - 1
  BY FS_RemoveElement
<1> QED BY <1>1, FS_CardinalityType

\* A set of finite sets that is not empty has one that none of the others has less than.
LEMMA LeastSet ==
  ASSUME NEW P, P # {}, \A s \in P : IsFiniteSet(s)
  PROVE  \E s \in P : \A t \in P : Cardinality(s) <= Cardinality(t)
<1>1. PICK N : N = {Cardinality(s) : s \in P}
  OBVIOUS
<1>2. N \subseteq Nat /\ N # {}
  BY <1>1, FS_CardinalityType
<1>3. PICK n \in N : \A m \in N : n <= m
  BY <1>2, LeastNumber
<1> QED BY <1>1, <1>3

\* Sums that are made within two sets agree on the subsets of both.
LEMMA SumsAgree ==
  ASSUME NEW f, NEW T, IsFiniteSet(T), NEW U, U \subseteq T,
         NEW G, AddsUp(f, T, G), NEW H, AddsUp(f, U, H)
  PROVE  \A s \in SUBSET U : G[s] = H[s]
<1>1. PICK P : P = {s \in SUBSET U : G[s] # H[s]}
  OBVIOUS
<1>2. SUFFICES ASSUME P # {} PROVE FALSE
  BY <1>1
<1>3. \A s \in P : IsFiniteSet(s)
  BY <1>1, FS_Subset
<1>4. PICK s \in P : \A t \in P : Cardinality(s) <= Cardinality(t)
  BY <1>2, <1>3, LeastSet
<1>5. s \in SUBSET U /\ s \in SUBSET T /\ G[s] # H[s]
  BY <1>1
<1>6. s # {}
  BY <1>5, AddsUpIs
<1>7. PICK x : x = Some(s)
  OBVIOUS
<1>8. x \in s
  BY <1>6, <1>7, SomeIs
<1>9. G[s] = f[x] + G[s \ {x}] /\ H[s] = f[x] + H[s \ {x}]
  BY <1>5, <1>6, <1>7, AddsUpAt
<1>10. s \ {x} \notin P
  <2>1. Cardinality(s) \in Nat /\ Cardinality(s \ {x}) \in Nat /\ Cardinality(s \ {x}) < Cardinality(s)
    BY <1>3, <1>8, LessCounts
  <2> QED BY <1>4, <2>1
<1>11. G[s \ {x}] = H[s \ {x}]
  BY <1>1, <1>5, <1>10
<1> QED BY <1>5, <1>9, <1>11

\* There are sums within every finite set.
LEMMA SumsExist ==
  ASSUME NEW f, NEW T, IsFiniteSet(T)
  PROVE  \E G : AddsUp(f, T, G)
<1>1. PICK P : P = {U \in SUBSET T : ~\E G : AddsUp(f, U, G)}
  OBVIOUS
<1>2. SUFFICES ASSUME P # {} PROVE FALSE
  BY <1>1
<1>3. \A U \in P : IsFiniteSet(U)
  BY <1>1, FS_Subset
<1>4. PICK U \in P : \A V \in P : Cardinality(U) <= Cardinality(V)
  BY <1>2, <1>3, LeastSet
<1>5. IsFiniteSet(U) /\ U \subseteq T
  BY <1>1, <1>3
<1>6. \A V \in SUBSET U : V # U => \E G : AddsUp(f, V, G)
  <2>1. ASSUME NEW V \in SUBSET U, V # U PROVE Cardinality(V) < Cardinality(U)
    BY <1>5, <2>1, FS_Subset, FS_CardinalityType
  <2>2. ASSUME NEW V \in SUBSET U, V # U PROVE V \notin P
    <3>1. Cardinality(V) < Cardinality(U) /\ IsFiniteSet(V)
      BY <1>5, <2>1, <2>2, FS_Subset
    <3>2. Cardinality(V) \in Nat /\ Cardinality(U) \in Nat
      BY <1>5, <3>1, FS_CardinalityType
    <3> QED BY <1>4, <3>1, <3>2
  <2> QED BY <1>1, <1>5, <2>2
<1>7. PICK W : W = [V \in SUBSET U |-> CHOOSE G : AddsUp(f, V, G)]
  OBVIOUS
<1>8. \A V \in SUBSET U : V # U => AddsUp(f, V, W[V])
  BY <1>6, <1>7
<1>9. \A V \in SUBSET U : V # U /\ V # {} => W[V][V] = f[Some(V)] + W[V \ {Some(V)}][V \ {Some(V)}]
  <2>1. SUFFICES ASSUME NEW V \in SUBSET U, V # U, V # {}, NEW x, x = Some(V)
        PROVE  W[V][V] = f[x] + W[V \ {x}][V \ {x}]
    OBVIOUS
  <2>2. x \in V
    BY <2>1, SomeIs
  <2>3. AddsUp(f, V, W[V]) /\ AddsUp(f, V \ {x}, W[V \ {x}])
    BY <1>8, <2>1, <2>2
  <2>4. W[V][V] = f[x] + W[V][V \ {x}]
    BY <2>1, <2>3, AddsUpAt
  <2>5. IsFiniteSet(V)
    BY <1>5, FS_Subset
  <2>6. PICK X, Y : X = V \ {x} /\ Y = W[V]
    OBVIOUS
  <2>7. \A u \in SUBSET X : Y[u] = W[X][u]
    <3>1. AddsUp(f, V, Y) /\ AddsUp(f, X, W[X]) /\ X \subseteq V
      BY <2>3, <2>6
    <3> QED BY ONLY <2>5, <3>1, SumsAgree
  <2>8. W[V][V \ {x}] = W[V \ {x}][V \ {x}]
    BY <2>6, <2>7
  <2> QED BY <2>4, <2>8
<1>10. PICK y : y = IF U = {} THEN 0 ELSE f[Some(U)] + W[U \ {Some(U)}][U \ {Some(U)}]
  OBVIOUS
<1>11. PICK G : G = [V \in SUBSET U |-> IF V = U THEN y ELSE W[V][V]]
  OBVIOUS
<1>12. ASSUME NEW V \in SUBSET U
       PROVE  G[V] = IF V = {} THEN 0 ELSE f[Some(V)] + G[V \ {Some(V)}]
  <2>1. CASE V = {}
    <3>1. CASE U = {}
      BY <1>10, <1>11, <2>1, <3>1
    <3>2. CASE U # {}
      <4>1. AddsUp(f, V, W[V])
        BY <1>8, <2>1, <3>2
      <4>2. W[V][V] = 0
        BY <2>1, <4>1, AddsUpIs
      <4> QED BY <1>11, <2>1, <3>2, <4>2
    <3> QED BY <3>1, <3>2
  <2>2. CASE V # {}
    <3>1. PICK x : x = Some(V)
      OBVIOUS
    <3>2. x \in V /\ V \ {x} \in SUBSET U /\ V \ {x} # U
      BY <2>2, <3>1, SomeIs
    <3>3. G[V \ {x}] = W[V \ {x}][V \ {x}]
      BY <1>11, <3>2
    <3>4. CASE V = U
      BY <1>10, <1>11, <2>2, <3>1, <3>3, <3>4
    <3>5. CASE V # U
      BY <1>9, <1>11, <2>2, <3>1, <3>3, <3>5
    <3> QED BY <2>2, <3>1, <3>4, <3>5
  <2> QED BY <2>1, <2>2
<1>13. AddsUp(f, U, G)
  BY <1>11, <1>12 DEF AddsUp
<1> QED BY <1>1, <1>13

\* The sum of a set is that of an element and of the rest.
LEMMA SumAtSome ==
  ASSUME NEW f, NEW T, IsFiniteSet(T), T # {}, NEW x, x = Some(T)
  PROVE  x \in T /\ SumUp(f, T) = f[x] + SumUp(f, T \ {x})
<1>1. x \in T
  BY SomeIs
<1>2. PICK G : G = CHOOSE H : AddsUp(f, T, H)
  OBVIOUS
<1>3. PICK H : H = CHOOSE I : AddsUp(f, T \ {x}, I)
  OBVIOUS
<1>4. IsFiniteSet(T \ {x})
  BY <1>1, LessCounts
<1>5. AddsUp(f, T, G) /\ AddsUp(f, T \ {x}, H)
  BY <1>2, <1>3, <1>4, SumsExist
<1>6. G[T] = f[x] + G[T \ {x}]
  BY <1>5, AddsUpAt
<1>7. G[T \ {x}] = H[T \ {x}]
  <2>1. PICK U : U = T \ {x}
    OBVIOUS
  <2>2. AddsUp(f, T, G) /\ AddsUp(f, U, H) /\ U \subseteq T /\ IsFiniteSet(T)
    BY <1>5, <2>1
  <2>3. \A s \in SUBSET U : G[s] = H[s]
    BY ONLY <2>2, SumsAgree
  <2> QED BY <2>1, <2>3
<1>8. SumUp(f, T) = G[T] /\ SumUp(f, T \ {x}) = H[T \ {x}]
  BY <1>2, <1>3 DEF SumUp
<1> QED BY <1>1, <1>6, <1>7, <1>8

LEMMA SumOfNone ==
  ASSUME NEW f
  PROVE  SumUp(f, {}) = 0
<1>1. PICK G : G = CHOOSE H : AddsUp(f, {}, H)
  OBVIOUS
<1>2. AddsUp(f, {}, G)
  BY <1>1, SumsExist, FS_EmptySet
<1>3. G[{}] = 0
  BY <1>2, AddsUpIs
<1> QED BY <1>1, <1>3 DEF SumUp

Ints(f, T) == \A x \in T : f[x] \in Int

LEMMA SumIsInt ==
  ASSUME NEW f, NEW T, IsFiniteSet(T), Ints(f, T)
  PROVE  SumUp(f, T) \in Int
<1>1. PICK P : P = {s \in SUBSET T : SumUp(f, s) \notin Int}
  OBVIOUS
<1>2. SUFFICES ASSUME P # {} PROVE FALSE
  BY <1>1
<1>3. \A s \in P : IsFiniteSet(s)
  BY <1>1, FS_Subset
<1>4. PICK s \in P : \A t \in P : Cardinality(s) <= Cardinality(t)
  BY <1>2, <1>3, LeastSet
<1>5. s \subseteq T /\ IsFiniteSet(s) /\ SumUp(f, s) \notin Int
  BY <1>1, <1>3
<1>6. s # {}
  BY <1>5, SumOfNone
<1>7. PICK x : x = Some(s)
  OBVIOUS
<1>8. x \in s /\ SumUp(f, s) = f[x] + SumUp(f, s \ {x})
  BY <1>5, <1>6, <1>7, SumAtSome
<1>9. s \ {x} \notin P
  <2>1. Cardinality(s) \in Nat /\ Cardinality(s \ {x}) \in Nat /\ Cardinality(s \ {x}) < Cardinality(s)
    BY <1>5, <1>8, LessCounts
  <2> QED BY <1>4, <2>1
<1>10. SumUp(f, s \ {x}) \in Int /\ f[x] \in Int
  BY <1>1, <1>5, <1>8, <1>9 DEF Ints
<1> QED BY <1>5, <1>8, <1>10

\* It does not matter which element.
LEMMA SumAtAny ==
  ASSUME NEW f, NEW T, IsFiniteSet(T), Ints(f, T), NEW x \in T
  PROVE  SumUp(f, T) = f[x] + SumUp(f, T \ {x})
<1>1. PICK P : P = {s \in SUBSET T : \E z \in s : SumUp(f, s) # f[z] + SumUp(f, s \ {z})}
  OBVIOUS
<1>2. SUFFICES ASSUME P # {} PROVE FALSE
  BY <1>1
<1>3. \A s \in P : IsFiniteSet(s)
  BY <1>1, FS_Subset
<1>4. PICK s \in P : \A t \in P : Cardinality(s) <= Cardinality(t)
  BY <1>2, <1>3, LeastSet
<1>5. s \subseteq T /\ IsFiniteSet(s) /\ s # {}
  BY <1>1, <1>3
<1>6. PICK z \in s : SumUp(f, s) # f[z] + SumUp(f, s \ {z})
  BY <1>1
<1>7. PICK y : y = Some(s)
  OBVIOUS
<1>8. y \in s /\ SumUp(f, s) = f[y] + SumUp(f, s \ {y})
  BY <1>5, <1>7, SumAtSome
<1>9. y # z
  BY <1>6, <1>8
<1>10. \A u \in s : s \ {u} \notin P
  <2>1. SUFFICES ASSUME NEW u \in s PROVE s \ {u} \notin P
    OBVIOUS
  <2>2. Cardinality(s) \in Nat /\ Cardinality(s \ {u}) \in Nat /\ Cardinality(s \ {u}) < Cardinality(s)
    BY <1>5, <2>1, LessCounts
  <2> QED BY <1>4, <2>2
<1>11. PICK A, B, C : A = s \ {y} /\ B = s \ {z} /\ C = s \ {y, z}
  OBVIOUS
<1>12. /\ z \in A /\ A \ {z} = C /\ y \in B /\ B \ {y} = C
       /\ A \in SUBSET T /\ B \in SUBSET T /\ A \notin P /\ B \notin P
  BY <1>5, <1>8, <1>9, <1>10, <1>11
<1>13. SumUp(f, A) = f[z] + SumUp(f, C)
  BY <1>1, <1>12
<1>14. SumUp(f, B) = f[y] + SumUp(f, C)
  BY <1>1, <1>12
<1>15. SumUp(f, C) \in Int
  <2>1. IsFiniteSet(C) /\ C \subseteq T
    BY <1>5, <1>11, FS_Subset
  <2>2. Ints(f, C)
    BY <2>1 DEF Ints
  <2> QED BY <2>1, <2>2, SumIsInt
<1>16. f[y] \in Int /\ f[z] \in Int
  BY <1>5, <1>8 DEF Ints
<1>17. SumUp(f, s) = f[y] + (f[z] + SumUp(f, C)) /\ SumUp(f, s) # f[z] + (f[y] + SumUp(f, C))
  BY <1>6, <1>8, <1>11, <1>13, <1>14
<1> QED BY <1>15, <1>16, <1>17

\* Sums of the same summands are the same.
LEMMA SumOfSame ==
  ASSUME NEW f, NEW g, NEW T, IsFiniteSet(T), \A x \in T : f[x] = g[x]
  PROVE  SumUp(f, T) = SumUp(g, T)
<1>1. PICK P : P = {s \in SUBSET T : SumUp(f, s) # SumUp(g, s)}
  OBVIOUS
<1>2. SUFFICES ASSUME P # {} PROVE FALSE
  BY <1>1
<1>3. \A s \in P : IsFiniteSet(s)
  BY <1>1, FS_Subset
<1>4. PICK s \in P : \A t \in P : Cardinality(s) <= Cardinality(t)
  BY <1>2, <1>3, LeastSet
<1>5. s \subseteq T /\ IsFiniteSet(s) /\ SumUp(f, s) # SumUp(g, s)
  BY <1>1, <1>3
<1>6. s # {}
  BY <1>5, SumOfNone
<1>7. PICK x : x = Some(s)
  OBVIOUS
<1>8. x \in s /\ SumUp(f, s) = f[x] + SumUp(f, s \ {x}) /\ SumUp(g, s) = g[x] + SumUp(g, s \ {x})
  BY <1>5, <1>6, <1>7, SumAtSome
<1>9. s \ {x} \notin P
  <2>1. Cardinality(s) \in Nat /\ Cardinality(s \ {x}) \in Nat /\ Cardinality(s \ {x}) < Cardinality(s)
    BY <1>5, <1>8, LessCounts
  <2> QED BY <1>4, <2>1
<1>10. SumUp(f, s \ {x}) = SumUp(g, s \ {x}) /\ f[x] = g[x]
  BY <1>1, <1>5, <1>8, <1>9
<1> QED BY <1>5, <1>8, <1>10

----------------------------------------------------------------------------
(* Attributes that several sources give.                                   *)
Source(f) == DOMAIN f \subseteq AttrId /\ \A id \in DOMAIN f : f[id] \in Int
Sources(g) == g = [h \in Handle |-> g[h]] /\ \A h \in Handle : Source(g[h])
Shares(g, id, f) == f = [h \in Handle |-> Gives(g[h], id)]
Changes(g, h, new, g2) == g2 = [g EXCEPT ![h] = new]
AttrInv == Sources(given) /\ SumsAddUp

LEMMA GivesIsInt ==
  ASSUME NEW f, Source(f), NEW id
  PROVE  Gives(f, id) \in Int
BY DEF Source, Gives

LEMMA TotalIs ==
  ASSUME NEW g, NEW id, NEW f, Shares(g, id, f)
  PROVE  Total(g, id) = SumUp(f, Handle)
<1>1. DOMAIN f = Handle
  BY DEF Shares
<1>2. SumFunctionOnSet(f, Handle) = SumUp(f, Handle)
  BY SumIs
<1> QED BY <1>1, <1>2 DEF Total, SumFunction, Shares

\* A source that gives something else changes the sum by the difference.
LEMMA TotalChanges ==
  ASSUME NEW g, Sources(g), NEW h \in Handle, NEW new, Source(new), NEW id,
         NEW g2, Changes(g, h, new, g2)
  PROVE  /\ Total(g2, id) = Total(g, id) + Gives(new, id) - Gives(g[h], id)
         /\ Total(g, id) \in Int /\ Gives(new, id) \in Int /\ Gives(g[h], id) \in Int
<1>1. PICK f : f = [k \in Handle |-> Gives(g[k], id)]
  OBVIOUS
<1>2. PICK f2 : f2 = [k \in Handle |-> Gives(g2[k], id)]
  OBVIOUS
<1>3. g2[h] = new /\ \A k \in Handle : k # h => g2[k] = g[k]
  BY DEF Sources, Changes
<1>4. \A k \in Handle : Source(g[k]) /\ Source(g2[k])
  BY <1>3 DEF Sources
<1>5. Ints(f, Handle) /\ Ints(f2, Handle)
  BY <1>1, <1>2, <1>4, GivesIsInt DEF Ints
<1>6. IsFiniteSet(Handle)
  BY SourcesAssumption
<1>7. SumUp(f, Handle) = f[h] + SumUp(f, Handle \ {h}) /\ SumUp(f2, Handle) = f2[h] + SumUp(f2, Handle \ {h})
  BY <1>5, <1>6, SumAtAny
<1>8. SumUp(f, Handle \ {h}) = SumUp(f2, Handle \ {h}) /\ SumUp(f, Handle \ {h}) \in Int
  <2>1. PICK R : R = Handle \ {h}
    OBVIOUS
  <2>2. IsFiniteSet(R)
    BY <1>6, <2>1, FS_Subset
  <2>3. \A k \in R : f[k] = f2[k]
    BY <1>1, <1>2, <1>3, <2>1
  <2>4. SumUp(f, R) = SumUp(f2, R)
    BY ONLY <2>2, <2>3, SumOfSame
  <2>5. Ints(f, R)
    BY <1>5, <2>1 DEF Ints
  <2>6. SumUp(f, R) \in Int
    BY ONLY <2>2, <2>5, SumIsInt
  <2> QED BY <2>1, <2>4, <2>6
<1>9. f[h] = Gives(g[h], id) /\ f2[h] = Gives(new, id)
  BY <1>1, <1>2, <1>3
<1>10. f[h] \in Int /\ f2[h] \in Int
  BY <1>5 DEF Ints
<1>11. Total(g, id) = SumUp(f, Handle) /\ Total(g2, id) = SumUp(f2, Handle)
  <2>1. Shares(g, id, f) /\ Shares(g2, id, f2)
    BY <1>1, <1>2 DEF Shares
  <2> QED BY <2>1, TotalIs
<1> QED BY <1>7, <1>8, <1>9, <1>10, <1>11

LEMMA AddDiffAdds ==
  ASSUME NEW p, NEW old, Source(old), NEW new, Source(new), NEW id, Gives(p, id) \in Int
  PROVE  Gives(AddDiff(p, old, new), id) = Gives(p, id) + Gives(new, id) - Gives(old, id)
<1>1. PICK changed : changed = {i \in DOMAIN new : new[i] # Gives(old, i)} \cup (DOMAIN old \ DOMAIN new)
  OBVIOUS
<1>2. PICK q : q = AddDiff(p, old, new)
  OBVIOUS
<1>3. q = [i \in DOMAIN p \cup changed |->
             IF i \in changed THEN Gives(p, i) + Gives(new, i) - Gives(old, i) ELSE p[i]]
  BY <1>1, <1>2 DEF AddDiff
<1>4. Gives(old, id) \in Int /\ Gives(new, id) \in Int
  BY GivesIsInt
<1>5. CASE id \in changed
  BY <1>2, <1>3, <1>5 DEF Gives
<1>6. CASE id \notin changed
  <2>1. Gives(new, id) = Gives(old, id)
    BY <1>1, <1>6 DEF Gives
  <2>2. Gives(q, id) = Gives(p, id)
    BY <1>3, <1>6 DEF Gives
  <2> QED BY <1>2, <1>4, <2>1, <2>2
<1> QED BY <1>5, <1>6

LEMMA AttrInvInit == AttrInit => AttrInv
<1>1. SUFFICES ASSUME AttrInit PROVE AttrInv
  OBVIOUS
<1>2. Sources(given)
  BY <1>1 DEF AttrInit, Sources, Source
<1>3. \A h \in Handle : DOMAIN given[h] = {}
  BY <1>1 DEF AttrInit
<1>4. ASSUME NEW id \in AttrId PROVE Gives(attrs, id) = Total(given, id)
  <2>1. PICK f : f = [h \in Handle |-> Gives(given[h], id)]
    OBVIOUS
  <2>2. f = [h \in Handle |-> 0]
    BY <1>3, <2>1 DEF Gives
  <2>3. SumUp(f, Handle) = 0
    <3>1. PICK P : P = {s \in SUBSET Handle : SumUp(f, s) # 0}
      OBVIOUS
    <3>2. SUFFICES ASSUME P # {} PROVE FALSE
      BY <3>1
    <3>3. \A s \in P : IsFiniteSet(s)
      BY <3>1, SourcesAssumption, FS_Subset
    <3>4. PICK s \in P : \A t \in P : Cardinality(s) <= Cardinality(t)
      BY <3>2, <3>3, LeastSet
    <3>5. s \subseteq Handle /\ IsFiniteSet(s) /\ SumUp(f, s) # 0
      BY <3>1, <3>3
    <3>6. s # {}
      BY <3>5, SumOfNone
    <3>7. PICK x : x = Some(s)
      OBVIOUS
    <3>8. x \in s /\ SumUp(f, s) = f[x] + SumUp(f, s \ {x})
      BY <3>5, <3>6, <3>7, SumAtSome
    <3>9. s \ {x} \notin P
      <4>1. Cardinality(s) \in Nat /\ Cardinality(s \ {x}) \in Nat /\ Cardinality(s \ {x}) < Cardinality(s)
        BY <3>5, <3>8, LessCounts
      <4> QED BY <3>4, <4>1
    <3> QED BY <2>2, <3>1, <3>5, <3>8, <3>9
  <2>4. Total(given, id) = 0
    BY <2>1, <2>3, TotalIs DEF Shares
  <2>5. DOMAIN attrs = {}
    BY <1>1, <1>3 DEF AttrInit, AllAttr, Names
  <2> QED BY <2>4, <2>5 DEF Gives
<1> QED BY <1>1, <1>2, <1>4 DEF AttrInv, SumsAddUp, AttrInit

LEMMA AttrInvStep == AttrInv /\ [AttrNext]_attrVars => AttrInv'
<1>1. SUFFICES ASSUME AttrInv, [AttrNext]_attrVars PROVE AttrInv'
  OBVIOUS
<1>2. /\ Sources(given)
      /\ \A id \in AttrId : Gives(attrs, id) = Total(given, id) /\ Gives(showing, id) = Gives(sums, id)
  BY <1>1 DEF AttrInv, SumsAddUp
<1>3. ASSUME NEW h \in Handle, NEW new \in Given, DiffAttr(h, new) PROVE AttrInv'
  <2>1. Source(new) /\ Source(given[h])
    BY <1>2, SourcesAssumption DEF Given, Source, Sources
  <2>2. PICK g2 : g2 = [given EXCEPT ![h] = new]
    OBVIOUS
  <2>3. PICK q : q = AddDiff(attrs, given[h], new)
    OBVIOUS
  <2>4. given' = g2 /\ attrs' = q /\ showing' = showing /\ sums' = sums
    BY <1>3, <2>2, <2>3 DEF DiffAttr
  <2>5. Sources(g2)
    BY <1>2, <2>1, <2>2 DEF Sources
  <2>6. ASSUME NEW id \in AttrId PROVE Gives(q, id) = Total(g2, id)
    <3>1. /\ Total(g2, id) = Total(given, id) + Gives(new, id) - Gives(given[h], id)
          /\ Total(given, id) \in Int
      <4>1. Changes(given, h, new, g2)
        BY <2>2 DEF Changes
      <4> QED BY <1>2, <2>1, <4>1, TotalChanges
    <3>2. Gives(attrs, id) = Total(given, id)
      BY <1>2
    <3>3. Gives(q, id) = Gives(attrs, id) + Gives(new, id) - Gives(given[h], id)
      BY <2>1, <2>3, <3>1, <3>2, AddDiffAdds
    <3> QED BY <3>1, <3>2, <3>3
  <2>7. Sources(given)'
    BY <2>4, <2>5 DEF Sources, Source
  <2>8. \A id \in AttrId : (Gives(attrs, id) = Total(given, id))'
    BY <2>4, <2>6 DEF Gives, Total
  <2>9. \A id \in AttrId : (Gives(showing, id) = Gives(sums, id))'
    BY <1>2, <2>4 DEF Gives
  <2> QED BY <2>7, <2>8, <2>9 DEF AttrInv, SumsAddUp
<1>4. CASE AllAttrDiff
  <2>1. PICK new : new = AllAttr(given)
    OBVIOUS
  <2>2. PICK other : other = {i \in DOMAIN new : i \notin DOMAIN sums \/ sums[i] # new[i]}
                               \cup (DOMAIN sums \ DOMAIN new)
    OBVIOUS
  <2>3. /\ sums' = new /\ UNCHANGED <<given, attrs>>
        /\ showing' = [i \in DOMAIN showing \cup other |-> IF i \in other THEN Gives(new, i) ELSE showing[i]]
    BY <1>4, <2>1, <2>2 DEF AllAttrDiff
  <2>4. ASSUME NEW id \in AttrId PROVE Gives(showing', id) = Gives(new, id)
    <3>1. CASE id \in other
      BY <2>3, <3>1 DEF Gives
    <3>2. CASE id \notin other
      <4>1. Gives(showing', id) = Gives(showing, id)
        BY <2>3, <3>2 DEF Gives
      <4>2. Gives(sums, id) = Gives(new, id)
        BY <2>2, <3>2 DEF Gives
      <4> QED BY <1>2, <4>1, <4>2
    <3> QED BY <3>1, <3>2
  <2>5. \A id \in AttrId : (Gives(showing, id) = Gives(sums, id))'
    BY <2>3, <2>4 DEF Gives
  <2>6. Sources(given)' /\ \A id \in AttrId : (Gives(attrs, id) = Total(given, id))'
    BY <1>2, <2>3 DEF Sources, Source, Gives, Total
  <2> QED BY <2>5, <2>6 DEF AttrInv, SumsAddUp
<1>5. CASE UNCHANGED attrVars
  BY <1>1, <1>5 DEF attrVars, AttrInv, SumsAddUp, Sources, Source, Gives, Total
<1> QED BY <1>1, <1>3, <1>4, <1>5 DEF AttrNext

\* The sums that diff_attr (attr/attr1.lua) keeps by differences are those of what the
\* sources give, and who merges what all_attr (attr/attr2.lua) answers has the sums.
THEOREM SourcesAddUp == AttrSpec => []SumsAddUp
<1>1. AttrInv => SumsAddUp
  BY DEF AttrInv
<1> QED BY <1>1, AttrInvInit, AttrInvStep, PTL DEF AttrSpec

----------------------------------------------------------------------------
(* Buffs on the units of a battle.                                         *)

\* The k ids that were given out last, if x is the last of them.
Arc(x, k) == {j \in 1 .. IdEnd - 1 : (x - k < j /\ j <= x) \/ x - k + IdEnd - 1 < j}
TimersOf(T, u) == {t \in T : t.unit = u}
BuffTimer(u, i) == [unit |-> u, id |-> i, endtm |-> 1]

\* What is true of a unit with the attribute a, the last id x, the buffs b, the hooks k
\* and the timers T.
UnitOK(a, x, b, k, T) ==
  /\ x \in 0 .. IdEnd - 1 /\ IsFiniteSet(T) /\ Cardinality(T) <= IdEnd - 1
  /\ b = [i \in DOMAIN b |-> b[i]] /\ DOMAIN b = Arc(x, Cardinality(T)) /\ IsFiniteSet(DOMAIN b)
  /\ Ints(b, DOMAIN b) /\ a = Base + SumUp(b, DOMAIN b)
  /\ k \subseteq DOMAIN b
BattleInv ==
  /\ round \in Nat /\ (fighting => round >= 1) /\ (fighting \/ timer = {})
  /\ attr = [u \in Unit |-> attr[u]] /\ idx = [u \in Unit |-> idx[u]]
  /\ buffs = [u \in Unit |-> buffs[u]] /\ hooks = [u \in Unit |-> hooks[u]]
  /\ \A t \in timer : t.unit \in Unit /\ t.id \in DOMAIN buffs[t.unit] /\ t = BuffTimer(t.unit, t.id)
  /\ \A u \in Unit : \A i \in DOMAIN buffs[u] : BuffTimer(u, i) \in timer
  /\ \A u \in Unit : UnitOK(attr[u], idx[u], buffs[u], hooks[u], TimersOf(timer, u))

LEMMA ArcGrows ==
  ASSUME NEW x \in 0 .. IdEnd - 1, NEW k \in Nat, k < IdEnd - 1,
         NEW id, id = IF x + 1 >= IdEnd THEN 1 ELSE x + 1
  PROVE  id \in 1 .. IdEnd - 1 /\ id \notin Arc(x, k) /\ Arc(id, k + 1) = Arc(x, k) \cup {id}
<1>1. IdEnd \in Nat
  BY BuffsAssumption
<1>2. id \in 1 .. IdEnd - 1
  BY <1>1
<1>3. id \notin Arc(x, k)
  BY <1>1 DEF Arc
<1>4. \A j \in 1 .. IdEnd - 1 : j \in Arc(id, k + 1) <=> j \in Arc(x, k) \/ j = id
  BY <1>1 DEF Arc
<1>5. Arc(id, k + 1) \subseteq 1 .. IdEnd - 1 /\ Arc(x, k) \subseteq 1 .. IdEnd - 1
  BY DEF Arc
<1> QED BY <1>2, <1>3, <1>4, <1>5

\* b2 are the buffs b with the buff id, which adds c.
BuffPut(b, id, c, b2) == b2 = [i \in DOMAIN b \cup {id} |-> IF i = id THEN c ELSE b[i]]
IdAfter(x, id) == id = IF x + 1 >= IdEnd THEN 1 ELSE x + 1

LEMMA UnitHasRoom ==
  ASSUME NEW a, NEW x, NEW b, NEW k, NEW T, UnitOK(a, x, b, k, T), Cardinality(T) < MaxBuffs,
         NEW id, IdAfter(x, id)
  PROVE  id \notin DOMAIN b
<1>1. x \in 0 .. IdEnd - 1 /\ IsFiniteSet(T) /\ DOMAIN b = Arc(x, Cardinality(T))
  BY DEF UnitOK
<1>2. PICK n : n = Cardinality(T)
  OBVIOUS
<1>3. n \in Nat /\ n < IdEnd - 1
  BY <1>1, <1>2, FS_CardinalityType, BuffsAssumption
<1> QED BY <1>1, <1>2, <1>3, ArcGrows DEF IdAfter

LEMMA UnitGets ==
  ASSUME NEW a, NEW x, NEW b, NEW k, NEW T, UnitOK(a, x, b, k, T), Cardinality(T) < MaxBuffs,
         NEW id, IdAfter(x, id), NEW t, t \notin T, NEW c \in Int,
         NEW b2, BuffPut(b, id, c, b2),
         NEW k2, k2 \subseteq k \cup {id}
  PROVE  UnitOK(a + c, id, b2, k2, T \cup {t})
<1>1. /\ x \in 0 .. IdEnd - 1 /\ IsFiniteSet(T) /\ IsFiniteSet(DOMAIN b) /\ Ints(b, DOMAIN b)
      /\ DOMAIN b = Arc(x, Cardinality(T)) /\ a = Base + SumUp(b, DOMAIN b) /\ k \subseteq DOMAIN b
  BY DEF UnitOK
<1>2. PICK n : n = Cardinality(T)
  OBVIOUS
<1>3. n \in Nat /\ n < IdEnd - 1 /\ n + 1 <= IdEnd - 1
  BY <1>1, <1>2, FS_CardinalityType, BuffsAssumption
<1>4. id \in 1 .. IdEnd - 1 /\ id \notin DOMAIN b /\ Arc(id, n + 1) = DOMAIN b \cup {id}
  BY <1>1, <1>2, <1>3, ArcGrows DEF IdAfter
<1>5. IsFiniteSet(T \cup {t}) /\ Cardinality(T \cup {t}) = n + 1
  BY <1>1, <1>2, FS_AddElement
<1>6. PICK D : D = DOMAIN b2
  OBVIOUS
<1>7. D = DOMAIN b \cup {id} /\ b2 = [i \in D |-> b2[i]] /\ b2[id] = c /\ \A i \in DOMAIN b : b2[i] = b[i]
  BY <1>4, <1>6 DEF BuffPut
<1>8. IsFiniteSet(D) /\ D \ {id} = DOMAIN b /\ id \in D
  BY <1>1, <1>4, <1>7, FS_AddElement
<1>9. Ints(b2, D)
  BY <1>1, <1>7 DEF Ints
<1>10. SumUp(b2, D) = c + SumUp(b2, DOMAIN b)
  BY <1>7, <1>8, <1>9, SumAtAny
<1>11. SumUp(b, DOMAIN b) = SumUp(b2, DOMAIN b)
  <2>1. PICK E : E = DOMAIN b
    OBVIOUS
  <2>2. IsFiniteSet(E) /\ \A i \in E : b[i] = b2[i]
    BY <1>1, <1>7, <2>1
  <2>3. SumUp(b, E) = SumUp(b2, E)
    BY ONLY <2>2, SumOfSame
  <2> QED BY <2>1, <2>3
<1>12. SumUp(b, DOMAIN b) \in Int
  BY <1>1, SumIsInt
<1>13. a + c = Base + SumUp(b2, D)
  BY <1>1, <1>10, <1>11, <1>12 DEF Base
<1>14. id \in 0 .. IdEnd - 1 /\ k2 \subseteq D
  BY <1>1, <1>4, <1>7
<1> QED BY <1>3, <1>4, <1>5, <1>6, <1>7, <1>8, <1>9, <1>13, <1>14 DEF UnitOK

\* A buff is put on a unit.
LEMMA BuffKeeps ==
  ASSUME BattleInv, NEW u \in Unit, NEW c \in Int, InitBuff(u, c),
         attr' = [attr EXCEPT ![u] = @ + c],
         NEW K, K \subseteq {NextId(u)}, hooks' = [hooks EXCEPT ![u] = @ \cup K]
  PROVE  BattleInv'
<1>1. PICK id : id = NextId(u)
  OBVIOUS
<1>2. PICK t : t = BuffTimer(u, id)
  OBVIOUS
<1>3. PICK b : b = buffs[u]
  OBVIOUS
<1>4. PICK b2 : b2 = [i \in DOMAIN b \cup {id} |-> IF i = id THEN c ELSE b[i]]
  OBVIOUS
<1>5. /\ attr = [v \in Unit |-> attr[v]] /\ idx = [v \in Unit |-> idx[v]]
      /\ buffs = [v \in Unit |-> buffs[v]] /\ hooks = [v \in Unit |-> hooks[v]]
  BY DEF BattleInv
<1>6. /\ fighting /\ Cardinality(TimersOf(timer, u)) < MaxBuffs
      /\ idx' = [idx EXCEPT ![u] = id] /\ buffs' = [buffs EXCEPT ![u] = b2]
      /\ timer' = timer \cup {t} /\ UNCHANGED <<round, fighting>>
  BY <1>1, <1>2, <1>3, <1>4 DEF InitBuff, TimersOf, BuffTimer
<1>7. /\ attr' = [v \in Unit |-> attr'[v]] /\ idx' = [v \in Unit |-> idx'[v]]
      /\ buffs' = [v \in Unit |-> buffs'[v]] /\ hooks' = [v \in Unit |-> hooks'[v]]
      /\ attr'[u] = attr[u] + c /\ idx'[u] = id /\ buffs'[u] = b2 /\ hooks'[u] = hooks[u] \cup K
      /\ \A v \in Unit : v # u => /\ attr'[v] = attr[v] /\ idx'[v] = idx[v]
                                  /\ buffs'[v] = buffs[v] /\ hooks'[v] = hooks[v]
  BY <1>5, <1>6
<1>8. t.unit = u /\ t.id = id
  BY <1>2 DEF BuffTimer
<1>9. UnitOK(attr[u], idx[u], b, hooks[u], TimersOf(timer, u))
  BY <1>3 DEF BattleInv
<1>10. IdAfter(idx[u], id)
  BY <1>1 DEF NextId, IdAfter
<1>11. id \notin DOMAIN b
  <2>1. PICK a : a = attr[u]
    OBVIOUS
  <2>2. PICK x : x = idx[u]
    OBVIOUS
  <2>3. PICK h : h = hooks[u]
    OBVIOUS
  <2>4. PICK T : T = TimersOf(timer, u)
    OBVIOUS
  <2>5. UnitOK(a, x, b, h, T) /\ Cardinality(T) < MaxBuffs /\ IdAfter(x, id)
    BY <1>6, <1>9, <1>10, <2>1, <2>2, <2>3, <2>4
  <2> QED BY ONLY <2>5, UnitHasRoom
<1>12. t \notin timer
  BY <1>3, <1>8, <1>11 DEF BattleInv
<1>13. UnitOK(attr[u] + c, id, b2, hooks[u] \cup K, TimersOf(timer, u) \cup {t})
  <2>1. PICK a : a = attr[u]
    OBVIOUS
  <2>2. PICK x : x = idx[u]
    OBVIOUS
  <2>3. PICK h : h = hooks[u]
    OBVIOUS
  <2>4. PICK T : T = TimersOf(timer, u)
    OBVIOUS
  <2>5. PICK h2 : h2 = h \cup K
    OBVIOUS
  <2>6. /\ UnitOK(a, x, b, h, T) /\ Cardinality(T) < MaxBuffs /\ IdAfter(x, id)
        /\ t \notin T /\ h2 \subseteq h \cup {id}
    BY <1>1, <1>6, <1>9, <1>10, <1>12, <2>1, <2>2, <2>3, <2>4, <2>5 DEF TimersOf
  <2>7. c \in Int /\ BuffPut(b, id, c, b2)
    BY <1>4 DEF BuffPut
  <2>8. UnitOK(a + c, id, b2, h2, T \cup {t})
    BY ONLY <2>6, <2>7, UnitGets
  <2> QED BY <2>1, <2>3, <2>4, <2>5, <2>8
<1>14. TimersOf(timer', u) = TimersOf(timer, u) \cup {t}
       /\ \A v \in Unit : v # u => TimersOf(timer', v) = TimersOf(timer, v)
  BY <1>6, <1>8 DEF TimersOf
<1>15. ASSUME NEW v \in Unit
       PROVE  UnitOK(attr'[v], idx'[v], buffs'[v], hooks'[v], TimersOf(timer', v))
  <2>1. CASE v = u
    BY <1>7, <1>13, <1>14, <2>1
  <2>2. CASE v # u
    BY <1>7, <1>14, <2>2 DEF BattleInv
  <2> QED BY <2>1, <2>2
<1>16. DOMAIN b2 = DOMAIN b \cup {id}
  BY <1>4
<1>17. ASSUME NEW s \in timer'
       PROVE  s.unit \in Unit /\ s.id \in DOMAIN buffs'[s.unit] /\ s = BuffTimer(s.unit, s.id)
  <2>1. CASE s = t
    BY <1>2, <1>7, <1>8, <1>16, <2>1
  <2>2. CASE s \in timer
    <3>1. s.unit \in Unit /\ s.id \in DOMAIN buffs[s.unit] /\ s = BuffTimer(s.unit, s.id)
      BY <2>2 DEF BattleInv
    <3> QED BY <1>3, <1>7, <1>16, <3>1
  <2> QED BY <1>6, <2>1, <2>2
<1>18. ASSUME NEW v \in Unit, NEW i \in DOMAIN buffs'[v] PROVE BuffTimer(v, i) \in timer'
  <2>1. CASE v = u
    BY <1>2, <1>3, <1>6, <1>7, <1>16, <1>18, <2>1 DEF BattleInv
  <2>2. CASE v # u
    BY <1>6, <1>7, <1>18, <2>2 DEF BattleInv
  <2> QED BY <2>1, <2>2
<1>19. round' \in Nat /\ (fighting' => round' >= 1) /\ fighting'
  BY <1>6 DEF BattleInv
<1> QED BY <1>7, <1>15, <1>17, <1>18, <1>19 DEF BattleInv, UnitOK, Arc, TimersOf, BuffTimer, Ints, SumUp, AddsUp

\* A unit without timers.
LEMMA UnitEmpty ==
  ASSUME NEW x \in 0 .. IdEnd - 1, NEW b, b = [i \in {} |-> b[i]]
  PROVE  UnitOK(Base, x, b, {}, {})
<1>1. IsFiniteSet({}) /\ Cardinality({}) = 0 /\ SumUp(b, {}) = 0
  BY FS_EmptySet, SumOfNone
<1>2. Arc(x, 0) = {} /\ 0 <= IdEnd - 1 /\ DOMAIN b = {}
  BY BuffsAssumption DEF Arc
<1> QED BY <1>1, <1>2 DEF UnitOK, Ints, Base

\* At the end of a round all buffs are over.
LEMMA EndRoundKeeps == ASSUME BattleInv, EndRound PROVE BattleInv'
<1>1. PICK ended : ended = [u \in Unit |-> {t.id : t \in {t \in Expired(round) : t.unit = u}}]
  OBVIOUS
<1>2. /\ fighting /\ fighting' = FALSE /\ timer' = timer \ Expired(round) /\ UNCHANGED <<round, idx>>
      /\ attr' = [u \in Unit |-> attr[u] - SumFunctionOnSet(buffs[u], ended[u])]
      /\ hooks' = [u \in Unit |-> hooks[u] \ ended[u]]
      /\ buffs' = [u \in Unit |-> Restrict(buffs[u], DOMAIN buffs[u] \ ended[u])]
  BY <1>1 DEF EndRound
<1>3. Expired(round) = timer
  <2>1. ASSUME NEW t \in timer PROVE t.endtm = 1
    <3>1. PICK u, i : t = BuffTimer(u, i)
      BY DEF BattleInv
    <3> QED BY <3>1 DEF BuffTimer
  <2>2. round \in Nat /\ round >= 1
    BY <1>2 DEF BattleInv
  <2> QED BY <2>1, <2>2 DEF Expired
<1>4. ASSUME NEW u \in Unit PROVE ended[u] = DOMAIN buffs[u]
  <2>1. ended[u] = {t.id : t \in TimersOf(timer, u)}
    BY <1>1, <1>3 DEF TimersOf
  <2>2. \A i \in DOMAIN buffs[u] : BuffTimer(u, i) \in TimersOf(timer, u) /\ BuffTimer(u, i).id = i
    BY DEF BattleInv, TimersOf, BuffTimer
  <2>3. \A t \in TimersOf(timer, u) : t.id \in DOMAIN buffs[u]
    BY DEF BattleInv, TimersOf
  <2> QED BY <2>1, <2>2, <2>3
<1>5. ASSUME NEW u \in Unit
      PROVE  attr'[u] = Base /\ hooks'[u] = {} /\ buffs'[u] = [i \in {} |-> buffs'[u][i]]
  <2>1. UnitOK(attr[u], idx[u], buffs[u], hooks[u], TimersOf(timer, u))
    BY DEF BattleInv
  <2>2. attr[u] = Base + SumUp(buffs[u], DOMAIN buffs[u]) /\ hooks[u] \subseteq DOMAIN buffs[u]
        /\ SumUp(buffs[u], DOMAIN buffs[u]) \in Int
    BY <2>1, SumIsInt DEF UnitOK
  <2>3. attr'[u] = attr[u] - SumUp(buffs[u], DOMAIN buffs[u])
    BY <1>2, <1>4, SumIs
  <2>4. attr'[u] = Base
    BY <2>2, <2>3 DEF Base
  <2>5. hooks'[u] = {}
    BY <1>2, <1>4, <2>2
  <2>6. buffs'[u] = Restrict(buffs[u], {})
    BY <1>2, <1>4
  <2> QED BY <2>4, <2>5, <2>6 DEF Restrict
<1>6. timer' = {}
  BY <1>2, <1>3
<1>7. ASSUME NEW u \in Unit
      PROVE  UnitOK(attr'[u], idx'[u], buffs'[u], hooks'[u], TimersOf(timer', u))
  <2>1. idx'[u] \in 0 .. IdEnd - 1
    BY <1>2 DEF BattleInv, UnitOK
  <2>2. TimersOf(timer', u) = {}
    BY <1>6 DEF TimersOf
  <2>3. PICK b : b = buffs'[u]
    OBVIOUS
  <2>4. b = [i \in {} |-> b[i]]
    BY <1>5, <2>3
  <2>5. UnitOK(Base, idx'[u], b, {}, {})
    BY ONLY <2>1, <2>4, UnitEmpty
  <2> QED BY <1>5, <2>2, <2>3, <2>5
<1>8. \A u \in Unit : DOMAIN buffs'[u] = {}
  BY <1>5
<1>9. /\ round' \in Nat /\ fighting' = FALSE
      /\ attr' = [u \in Unit |-> attr'[u]] /\ idx' = [u \in Unit |-> idx'[u]]
      /\ buffs' = [u \in Unit |-> buffs'[u]] /\ hooks' = [u \in Unit |-> hooks'[u]]
  BY <1>2 DEF BattleInv
<1> QED BY <1>6, <1>7, <1>8, <1>9 DEF BattleInv, UnitOK, Arc, TimersOf, BuffTimer, Ints, SumUp, AddsUp

LEMMA BattleInvInit == BattleInit => BattleInv
<1>1. SUFFICES ASSUME BattleInit PROVE BattleInv
  OBVIOUS
<1>2. /\ round = 0 /\ fighting = FALSE /\ timer = {}
      /\ attr = [u \in Unit |-> Base] /\ idx = [u \in Unit |-> 0]
      /\ buffs = [u \in Unit |-> [i \in {} |-> 0]] /\ hooks = [u \in Unit |-> {}]
  BY <1>1 DEF BattleInit
<1>3. ASSUME NEW u \in Unit PROVE UnitOK(attr[u], idx[u], buffs[u], hooks[u], TimersOf(timer, u))
  <2>1. PICK b : b = buffs[u]
    OBVIOUS
  <2>2. b = [i \in {} |-> b[i]]
    BY <1>2, <2>1
  <2>3. 0 \in 0 .. IdEnd - 1
    BY BuffsAssumption
  <2>4. UnitOK(Base, 0, b, {}, {})
    BY ONLY <2>2, <2>3, UnitEmpty
  <2>5. TimersOf(timer, u) = {} /\ attr[u] = Base /\ idx[u] = 0 /\ hooks[u] = {}
    BY <1>2 DEF TimersOf
  <2> QED BY <2>1, <2>4, <2>5
<1>4. \A u \in Unit : DOMAIN buffs[u] = {}
  BY <1>2
<1> QED BY <1>2, <1>3, <1>4 DEF BattleInv

LEMMA BattleInvStep == BattleInv /\ [BattleNext]_battleVars => BattleInv'
<1>1. SUFFICES ASSUME BattleInv, [BattleNext]_battleVars PROVE BattleInv'
  OBVIOUS
<1>2. CASE BeginRound
  <2>1. /\ round' = round + 1 /\ fighting' = TRUE
        /\ attr' = attr /\ idx' = idx /\ buffs' = buffs /\ hooks' = hooks /\ timer' = timer
    BY <1>2 DEF BeginRound
  <2>2. round \in Nat
    BY <1>1 DEF BattleInv
  <2>3. round + 1 \in Nat /\ round + 1 >= 1
    BY <2>2
  <2>4. \A u \in Unit : UnitOK(attr'[u], idx'[u], buffs'[u], hooks'[u], TimersOf(timer', u))
    BY <1>1, <2>1 DEF BattleInv
  <2>5. /\ attr' = [u \in Unit |-> attr'[u]] /\ idx' = [u \in Unit |-> idx'[u]]
        /\ buffs' = [u \in Unit |-> buffs'[u]] /\ hooks' = [u \in Unit |-> hooks'[u]]
    BY <1>1, <2>1 DEF BattleInv
  <2>6. /\ \A t \in timer' : t.unit \in Unit /\ t.id \in DOMAIN buffs'[t.unit] /\ t = BuffTimer(t.unit, t.id)
        /\ \A u \in Unit : \A i \in DOMAIN buffs'[u] : BuffTimer(u, i) \in timer'
    BY <1>1, <2>1 DEF BattleInv
  <2> QED BY <2>1, <2>3, <2>4, <2>5, <2>6 DEF BattleInv, UnitOK, Arc, TimersOf, BuffTimer, Ints, SumUp, AddsUp
<1>3. ASSUME NEW u \in Unit, BuffHook(u) PROVE BattleInv'
  <2>1. InitBuff(u, 0) /\ hooks' = [hooks EXCEPT ![u] = @ \cup {NextId(u)}] /\ attr' = attr
    BY <1>3 DEF BuffHook
  <2>2. attr = [v \in Unit |-> attr[v]] /\ attr[u] \in Int
    <3>1. UnitOK(attr[u], idx[u], buffs[u], hooks[u], TimersOf(timer, u))
      BY <1>1 DEF BattleInv
    <3>2. attr[u] = Base + SumUp(buffs[u], DOMAIN buffs[u]) /\ SumUp(buffs[u], DOMAIN buffs[u]) \in Int
      BY <3>1, SumIsInt DEF UnitOK
    <3> QED BY <1>1, <3>2 DEF BattleInv, Base
  <2>3. attr' = [attr EXCEPT ![u] = @ + 0]
    BY <2>1, <2>2
  <2>4. PICK K : K = {NextId(u)}
    OBVIOUS
  <2>5. PICK c : c = 0
    OBVIOUS
  <2>6. c \in Int /\ K \subseteq {NextId(u)} /\ InitBuff(u, c)
    BY <2>1, <2>4, <2>5
  <2>7. attr' = [attr EXCEPT ![u] = @ + c] /\ hooks' = [hooks EXCEPT ![u] = @ \cup K]
    BY <2>1, <2>3, <2>4, <2>5
  <2> QED BY ONLY <1>1, <1>3, <2>6, <2>7, BuffKeeps
<1>4. ASSUME NEW u \in Unit, NEW n \in Amount, BuffAttr(u, n) PROVE BattleInv'
  <2>1. InitBuff(u, n) /\ attr' = [attr EXCEPT ![u] = @ + n] /\ hooks' = hooks /\ n \in Int
    BY <1>4, BuffsAssumption DEF BuffAttr
  <2>2. hooks' = [hooks EXCEPT ![u] = @ \cup {}]
    BY <1>1, <2>1 DEF BattleInv
  <2>3. PICK K : K = {}
    OBVIOUS
  <2>4. K \subseteq {NextId(u)} /\ hooks' = [hooks EXCEPT ![u] = @ \cup K]
    BY <2>2, <2>3
  <2> QED BY ONLY <1>1, <1>4, <2>1, <2>4, BuffKeeps
<1>5. CASE UNCHANGED battleVars
  <2>1. /\ round' = round /\ fighting' = fighting
        /\ attr' = attr /\ idx' = idx /\ buffs' = buffs /\ hooks' = hooks /\ timer' = timer
    BY <1>5 DEF battleVars
  <2>2. round' \in Nat /\ (fighting' => round' >= 1) /\ (fighting' \/ timer' = {})
    BY <1>1, <2>1 DEF BattleInv
  <2>4. \A u \in Unit : UnitOK(attr'[u], idx'[u], buffs'[u], hooks'[u], TimersOf(timer', u))
    BY <1>1, <2>1 DEF BattleInv
  <2>5. /\ attr' = [u \in Unit |-> attr'[u]] /\ idx' = [u \in Unit |-> idx'[u]]
        /\ buffs' = [u \in Unit |-> buffs'[u]] /\ hooks' = [u \in Unit |-> hooks'[u]]
    BY <1>1, <2>1 DEF BattleInv
  <2>6. /\ \A t \in timer' : t.unit \in Unit /\ t.id \in DOMAIN buffs'[t.unit] /\ t = BuffTimer(t.unit, t.id)
        /\ \A u \in Unit : \A i \in DOMAIN buffs'[u] : BuffTimer(u, i) \in timer'
    BY <1>1, <2>1 DEF BattleInv
  <2> QED BY <2>2, <2>4, <2>5, <2>6 DEF BattleInv, UnitOK, Arc, TimersOf, BuffTimer, Ints, SumUp, AddsUp
<1> QED BY <1>1, <1>2, <1>3, <1>4, <1>5, EndRoundKeeps DEF BattleNext

\* A unit's attribute is its base and what its present buffs add, though ids are given
\* out again (battle/skill.lua), as long as a unit gets no more of them than there are in
\* a round.
THEOREM EffectsAddUp == BattleSpec => []BuffsAddUp
<1>1. BattleInv => BuffsAddUp
  <2>1. SUFFICES ASSUME BattleInv PROVE BuffsAddUp
    OBVIOUS
  <2>2. ASSUME NEW u \in Unit
        PROVE  attr[u] = Base + SumFunction(buffs[u]) /\ hooks[u] \subseteq DOMAIN buffs[u]
    <3>1. SumFunction(buffs[u]) = SumUp(buffs[u], DOMAIN buffs[u])
      BY SumIs DEF SumFunction
    <3> QED BY <2>1, <3>1 DEF BattleInv, UnitOK
  <2>3. {<<t.unit, t.id>> : t \in timer} = UNION {{u} \X DOMAIN buffs[u] : u \in Unit}
    <3>1. ASSUME NEW t \in timer PROVE <<t.unit, t.id>> \in UNION {{u} \X DOMAIN buffs[u] : u \in Unit}
      BY <2>1 DEF BattleInv
    <3>2. ASSUME NEW u \in Unit, NEW i \in DOMAIN buffs[u]
          PROVE  <<u, i>> \in {<<t.unit, t.id>> : t \in timer}
      <4>1. PICK t \in timer : t = BuffTimer(u, i)
        BY <2>1 DEF BattleInv
      <4>2. t.unit = u /\ t.id = i
        BY <4>1 DEF BuffTimer
      <4> QED BY <4>2
    <3> QED BY <3>1, <3>2
  <2>4. fighting \/ timer = {}
    BY <2>1 DEF BattleInv
  <2> QED BY <2>2, <2>3, <2>4 DEF BuffsAddUp
<1> QED BY <1>1, BattleInvInit, BattleInvStep, PTL DEF BattleSpec

----------------------------------------------------------------------------
(* A table of what was used last.                                          *)

\* What stands further back was used earlier.
NewestFirst(list, L) == \A i, j \in 1 .. Len(list) : i < j => L[list[i]] > L[list[j]]
Newer(L, k) == {o \in LruKey : L[o] > L[k]}

\* What is true of the keys K that the table holds, the keys C that were cleared, the last
\* uses L and how many uses there were.
Forgotten(K, C, L) ==
  \A k \in LruKey \ (K \cup C) : L[k] > 0 => Cardinality(Newer(L, k)) >= Num /\ \A o \in K : L[k] < L[o]
LruInv ==
  /\ ids_ \in Seq(LruKey) /\ Len(ids_) <= Num /\ Range(ids_) = DOMAIN tb
  /\ uses \in Nat /\ lastUse \in [LruKey -> Nat] /\ \A k \in LruKey : lastUse[k] <= uses
  /\ \A k \in DOMAIN tb : lastUse[k] > 0
  /\ NewestFirst(ids_, lastUse) /\ Forgotten(DOMAIN tb, cleared, lastUse)

\* A key is taken out of the list, the others keep their order.
LEMMA UnlistIs ==
  ASSUME NEW list \in Seq(LruKey), NEW L \in [LruKey -> Nat], NewestFirst(list, L), NEW k \in LruKey
  PROVE  /\ Unlist(list, k) \in Seq(LruKey) /\ NewestFirst(Unlist(list, k), L)
         /\ Range(Unlist(list, k)) = Range(list) \ {k}
         /\ Len(Unlist(list, k)) = IF k \in Range(list) THEN Len(list) - 1 ELSE Len(list)
<1>1. CASE k \notin Range(list)
  BY <1>1 DEF Unlist
<1>2. CASE k \in Range(list)
  <2>1. PICK p : p = CHOOSE i \in DOMAIN list : list[i] = k
    OBVIOUS
  <2>2. p \in 1 .. Len(list) /\ list[p] = k
    BY <1>2, <2>1 DEF Range
  <2>3. PICK rest : rest = Unlist(list, k)
    OBVIOUS
  <2>4. rest = SubSeq(list, 1, p - 1) \o SubSeq(list, p + 1, Len(list))
    BY <1>2, <2>1, <2>3 DEF Unlist
  <2>0. Len(list) \in Nat /\ p \in Nat /\ p >= 1 /\ p <= Len(list) /\ DOMAIN list = 1 .. Len(list)
    BY <2>2
  <2>5. /\ rest \in Seq(LruKey) /\ Len(rest) = Len(list) - 1 /\ DOMAIN rest = 1 .. Len(list) - 1
        /\ \A i \in 1 .. p - 1 : rest[i] = list[i]
        /\ \A i \in p .. Len(list) - 1 : rest[i] = list[i + 1]
    <3>1. PICK A : A = SubSeq(list, 1, p - 1)
      OBVIOUS
    <3>2. PICK B : B = SubSeq(list, p + 1, Len(list))
      OBVIOUS
    <3>0. PICK n : n = Len(list)
      OBVIOUS
    <3>3. A \in Seq(LruKey) /\ Len(A) = p - 1 /\ \A i \in 1 .. p - 1 : A[i] = list[i]
      <4>1. \A i \in 1 .. p - 1 : list[i] \in LruKey
        BY <2>0
      <4> QED BY <2>0, <3>1, <4>1, SubSeqProperties
    <3>4. B \in Seq(LruKey) /\ Len(B) = n - p /\ \A i \in 1 .. n - p : B[i] = list[i + p]
      <4>1. n \in Nat /\ p <= n /\ \A i \in p + 1 .. n : list[i] \in LruKey
        BY <2>0, <3>0
      <4>2. /\ B \in Seq(LruKey) /\ Len(B) = IF p + 1 <= n THEN n - (p + 1) + 1 ELSE 0
            /\ \A i \in 1 .. n - (p + 1) + 1 : B[i] = list[p + 1 + i - 1]
        BY <2>0, <3>0, <3>2, <4>1, SubSeqProperties
      <4>3. n - (p + 1) + 1 = n - p /\ (p + 1 > n => n - p = 0)
        BY <2>0, <4>1
      <4>4. ASSUME NEW i \in 1 .. n - p PROVE B[i] = list[i + p]
        <5>1. p + 1 + i - 1 = i + p
          BY <2>0, <4>4
        <5> QED BY <4>2, <4>3, <4>4, <5>1
      <4>5. Len(B) = n - p
        BY <2>0, <4>1, <4>2, <4>3
      <4> QED BY <4>2, <4>4, <4>5
    <3>5. rest = A \o B
      BY <2>4, <3>1, <3>2
    <3>6. /\ rest \in Seq(LruKey) /\ Len(rest) = Len(A) + Len(B)
          /\ \A i \in 1 .. Len(A) + Len(B) : rest[i] = IF i <= Len(A) THEN A[i] ELSE B[i - Len(A)]
      BY <3>3, <3>4, <3>5, ConcatProperties
    <3>7. Len(rest) = n - 1 /\ DOMAIN rest = 1 .. n - 1 /\ Len(A) + Len(B) = n - 1
      BY <2>0, <3>0, <3>3, <3>4, <3>6
    <3>8. ASSUME NEW i \in 1 .. p - 1 PROVE rest[i] = list[i]
      <4>1. i \in 1 .. n - 1 /\ i <= Len(A)
        BY <2>0, <3>0, <3>3, <3>8
      <4> QED BY <3>3, <3>6, <3>7, <3>8, <4>1
    <3>9. ASSUME NEW i \in p .. n - 1 PROVE rest[i] = list[i + 1]
      <4>1. PICK m : m = i - Len(A)
        OBVIOUS
      <4>2. m \in 1 .. n - p /\ m + p = i + 1
        BY <2>0, <3>0, <3>3, <3>9, <4>1
      <4>3. i \in 1 .. n - 1 /\ ~(i <= Len(A))
        BY <2>0, <3>0, <3>3, <3>9
      <4>4. rest[i] = B[m]
        BY <3>6, <3>7, <4>1, <4>3
      <4> QED BY <3>4, <4>2, <4>4
    <3> QED BY <3>0, <3>6, <3>7, <3>8, <3>9
  <2>9. ASSUME NEW i \in 1 .. Len(list) - 1, NEW m, m = IF i < p THEN i ELSE i + 1
        PROVE  rest[i] = list[m]
    <3>1. CASE i < p
      <4>1. i \in 1 .. p - 1
        BY <2>0, <3>1
      <4> QED BY <2>5, <2>9, <3>1, <4>1
    <3>2. CASE ~(i < p)
      <4>1. i \in p .. Len(list) - 1
        BY <2>0, <3>2
      <4> QED BY <2>5, <2>9, <3>2, <4>1
    <3> QED BY <3>1, <3>2
  <2>6. \A i \in 1 .. Len(list) : i # p => list[i] # k
    BY <2>2 DEF NewestFirst
  <2>7. NewestFirst(rest, L)
    <3>1. ASSUME NEW i \in 1 .. Len(rest), NEW j \in 1 .. Len(rest), i < j PROVE L[rest[i]] > L[rest[j]]
      <4>1. PICK m : m = IF i < p THEN i ELSE i + 1
        OBVIOUS
      <4>2. PICK n : n = IF j < p THEN j ELSE j + 1
        OBVIOUS
      <4>3. i \in 1 .. Len(list) - 1 /\ j \in 1 .. Len(list) - 1 /\ i < j
        BY <2>5, <3>1
      <4>5. m \in 1 .. Len(list) /\ n \in 1 .. Len(list) /\ m < n
        BY <2>0, <4>1, <4>2, <4>3
      <4>4. rest[i] = list[m] /\ rest[j] = list[n]
        BY <4>1, <4>2, <4>3, <2>9
      <4> QED BY <4>4, <4>5 DEF NewestFirst
    <3> QED BY <3>1 DEF NewestFirst
  <2>8. Range(rest) = Range(list) \ {k}
    <3>1. ASSUME NEW x \in Range(rest) PROVE x \in Range(list) \ {k}
      <4>1. PICK i \in 1 .. Len(list) - 1 : rest[i] = x
        BY <2>5 DEF Range
      <4>2. PICK j \in 1 .. Len(list) : j = IF i < p THEN i ELSE i + 1
        BY <2>0
      <4>3. x = list[j] /\ j # p
        BY <2>0, <2>5, <4>1, <4>2
      <4> QED BY <2>6, <4>3 DEF Range
    <3>2. ASSUME NEW x \in Range(list), x # k PROVE x \in Range(rest)
      <4>1. PICK j \in 1 .. Len(list) : list[j] = x
        BY DEF Range
      <4>2. j # p
        BY <2>2, <3>2, <4>1
      <4>3. PICK i \in 1 .. Len(list) - 1 : i = IF j < p THEN j ELSE j - 1
        BY <2>0, <4>2
      <4>4. rest[i] = x /\ i \in DOMAIN rest
        BY <2>0, <2>5, <4>1, <4>2, <4>3
      <4> QED BY <4>4 DEF Range
    <3> QED BY <3>1, <3>2
  <2> QED BY <1>2, <2>3, <2>5, <2>7, <2>8
<1> QED BY <1>1, <1>2

\* A key becomes the newest of the list.
LEMMA UpdatedIs ==
  ASSUME NEW list \in Seq(LruKey), NEW L \in [LruKey -> Nat], NewestFirst(list, L), NEW k \in LruKey,
         NEW n \in Nat, \A o \in LruKey : L[o] < n, NEW L2, L2 = [L EXCEPT ![k] = n]
  PROVE  /\ Updated(list, k) \in Seq(LruKey) /\ NewestFirst(Updated(list, k), L2)
         /\ Range(Updated(list, k)) = Range(list) \cup {k} /\ Updated(list, k)[1] = k
         /\ Len(Updated(list, k)) = IF k \in Range(list) THEN Len(list) ELSE Len(list) + 1
<1>1. PICK rest : rest = Unlist(list, k)
  OBVIOUS
<1>2. /\ rest \in Seq(LruKey) /\ NewestFirst(rest, L) /\ Range(rest) = Range(list) \ {k}
      /\ Len(rest) = IF k \in Range(list) THEN Len(list) - 1 ELSE Len(list)
  BY <1>1, UnlistIs
<1>3. PICK all : all = Updated(list, k)
  OBVIOUS
<1>4. all = <<k>> \o rest
  BY <1>1, <1>3 DEF Updated
<1>5. /\ all \in Seq(LruKey) /\ Len(all) = Len(rest) + 1 /\ all[1] = k
      /\ \A i \in 1 .. Len(rest) : all[i + 1] = rest[i]
      /\ \A i \in 2 .. Len(all) : all[i] = rest[i - 1]
  BY <1>2, <1>4
<1>9. Len(rest) \in Nat /\ Len(all) \in Nat /\ DOMAIN all = 1 .. Len(all) /\ DOMAIN rest = 1 .. Len(rest)
  BY <1>2, <1>5
<1>6. \A i \in 1 .. Len(rest) : rest[i] \in LruKey /\ rest[i] # k
  <2>1. \A i \in 1 .. Len(rest) : rest[i] \in Range(rest)
    BY <1>9 DEF Range
  <2> QED BY <1>2, <1>9, <2>1
<1>7. NewestFirst(all, L2)
  <2>1. ASSUME NEW i \in 1 .. Len(all), NEW j \in 1 .. Len(all), i < j PROVE L2[all[i]] > L2[all[j]]
    <3>1. j - 1 \in 1 .. Len(rest) /\ all[j] = rest[j - 1]
      BY <1>5, <1>9, <2>1
    <3>2. L2[all[j]] = L[rest[j - 1]]
      BY <1>6, <3>1
    <3>3. CASE i = 1
      <4>1. L2[all[i]] = n
        BY <1>5, <3>3
      <4> QED BY <1>6, <3>1, <3>2, <4>1
    <3>4. CASE i # 1
      <4>1. i - 1 \in 1 .. Len(rest) /\ all[i] = rest[i - 1] /\ i - 1 < j - 1
        BY <1>5, <1>9, <2>1, <3>4
      <4>2. L2[all[i]] = L[rest[i - 1]]
        BY <1>6, <4>1
      <4> QED BY <1>2, <3>1, <3>2, <4>1, <4>2 DEF NewestFirst
    <3> QED BY <3>3, <3>4
  <2> QED BY <2>1 DEF NewestFirst
<1>8. Range(all) = Range(rest) \cup {k}
  <2>1. ASSUME NEW x \in Range(all) PROVE x \in Range(rest) \cup {k}
    <3>1. PICK i \in 1 .. Len(all) : all[i] = x
      BY <1>5 DEF Range
    <3>2. CASE i = 1
      BY <1>5, <3>1, <3>2
    <3>3. CASE i # 1
      <4>1. i - 1 \in 1 .. Len(rest) /\ all[i] = rest[i - 1]
        BY <1>5, <1>9, <3>3
      <4> QED BY <1>9, <3>1, <4>1 DEF Range
    <3> QED BY <3>2, <3>3
  <2>2. ASSUME NEW x \in Range(rest) PROVE x \in Range(all)
    <3>1. PICK i \in 1 .. Len(rest) : rest[i] = x
      BY <1>9 DEF Range
    <3>2. all[i + 1] = x /\ i + 1 \in 1 .. Len(all)
      BY <1>5, <1>9, <3>1
    <3> QED BY <1>9, <3>2 DEF Range
  <2>3. 1 \in 1 .. Len(all)
    BY <1>5, <1>9
  <2>4. k \in Range(all)
    BY <1>5, <1>9, <2>3 DEF Range
  <2> QED BY <2>1, <2>2, <2>4
<1> QED BY <1>2, <1>3, <1>5, <1>7, <1>8

\* The last of a list that is too long falls off.
LEMMA ShortenedIs ==
  ASSUME NEW list \in Seq(LruKey), NEW L \in [LruKey -> Nat], NewestFirst(list, L), Len(list) <= Num + 1,
         Len(list) >= 1
  PROVE  /\ Shortened(list) \in Seq(LruKey) /\ NewestFirst(Shortened(list), L) /\ Len(Shortened(list)) <= Num
         /\ Range(Shortened(list)) = Range(list) \ Evicted(list) /\ list[1] \notin Evicted(list)
         /\ \A e \in Evicted(list) : /\ Len(list) = Num + 1 /\ Len(Shortened(list)) = Num
                                     /\ e \in LruKey /\ \A o \in Range(Shortened(list)) : L[e] < L[o]
<1>1. Num \in Nat /\ Num >= 1 /\ Len(list) \in Nat /\ DOMAIN list = 1 .. Len(list)
  BY LruAssumption
<1>2. CASE Len(list) <= Num
  BY <1>1, <1>2 DEF Shortened, Evicted
<1>3. CASE ~(Len(list) <= Num)
  <2>1. PICK n : n = Len(list)
    OBVIOUS
  <2>2. n = Num + 1 /\ n - 1 = Num /\ n \in Nat
    <3>1. n \in Nat /\ n <= Num + 1 /\ ~(n <= Num)
      BY <1>1, <1>3, <2>1
    <3> QED BY ONLY <1>1, <3>1
  <2>3. PICK short : short = Shortened(list)
    OBVIOUS
  <2>4. short = SubSeq(list, 1, n - 1) /\ Evicted(list) = {list[n]}
    BY <1>3, <2>1, <2>3 DEF Shortened, Evicted
  <2>5. \A i \in 1 .. n : list[i] \in LruKey
    BY <2>1
  <2>6. short \in Seq(LruKey) /\ Len(short) = Num /\ \A i \in 1 .. Num : short[i] = list[i]
    <3>1. \A i \in 1 .. Num : list[i] \in LruKey
      BY <1>1, <2>2, <2>5
    <3> QED BY <1>1, <2>2, <2>4, <3>1, SubSeqProperties
  <2>7. DOMAIN short = 1 .. Num
    BY <2>6
  <2>8. \A i, j \in 1 .. n : i < j => L[list[i]] > L[list[j]]
    BY <2>1 DEF NewestFirst
  <2>9. NewestFirst(short, L)
    BY <1>1, <2>2, <2>6, <2>8 DEF NewestFirst
  <2>10. \A i \in 1 .. Num : i \in 1 .. n /\ L[list[n]] < L[list[i]] /\ list[i] # list[n]
    <3>1. ASSUME NEW i \in 1 .. Num PROVE i \in 1 .. n /\ n \in 1 .. n /\ i < n
      BY <1>1, <2>2
    <3>2. ASSUME NEW i \in 1 .. Num PROVE L[list[n]] < L[list[i]]
      BY <2>5, <2>8, <3>1
    <3>3. L[list[n]] \in Nat
      BY <1>1, <2>2, <2>5
    <3> QED BY <3>1, <3>2, <3>3
  <2>11. Range(short) = Range(list) \ {list[n]}
    <3>1. ASSUME NEW x \in Range(short) PROVE x \in Range(list) \ {list[n]}
      BY <1>1, <2>1, <2>6, <2>7, <2>10 DEF Range
    <3>2. ASSUME NEW x \in Range(list) \ {list[n]} PROVE x \in Range(short)
      <4>1. PICK i \in 1 .. n : list[i] = x
        BY <1>1, <2>1 DEF Range
      <4>2. i # n
        BY <4>1
      <4>3. i \in 1 .. Num
        BY <1>1, <2>2, <4>2
      <4> QED BY <2>6, <2>7, <4>1, <4>3 DEF Range
    <3> QED BY <3>1, <3>2
  <2>12. \A o \in Range(short) : L[list[n]] < L[o]
    BY <2>6, <2>7, <2>10 DEF Range
  <2>13. list[1] # list[n] /\ list[n] \in LruKey
    BY <1>1, <2>2, <2>5, <2>10
  <2> QED BY <1>1, <2>1, <2>2, <2>3, <2>4, <2>6, <2>9, <2>11, <2>12, <2>13
<1> QED BY <1>2, <1>3

\* No key stands in the list twice.
LEMMA ListedOnce ==
  ASSUME NEW list \in Seq(LruKey), NEW L \in [LruKey -> Nat], NewestFirst(list, L)
  PROVE  IsFiniteSet(Range(list)) /\ Cardinality(Range(list)) = Len(list)
<1>1. PICK n : n = Len(list)
  OBVIOUS
<1>2. n \in Nat /\ list \in [1 .. n -> LruKey] /\ DOMAIN list = 1 .. n
  BY <1>1
<1>3. \A i, j \in 1 .. n : i # j => list[i] # list[j]
  <2>1. ASSUME NEW i \in 1 .. n, NEW j \in 1 .. n, i < j PROVE list[i] # list[j]
    <3>1. L[list[i]] > L[list[j]] /\ L[list[j]] \in Nat
      BY <1>1, <1>2, <2>1 DEF NewestFirst
    <3> QED BY <3>1
  <2>2. ASSUME NEW i \in 1 .. n, NEW j \in 1 .. n, i # j PROVE list[i] # list[j]
    <3>1. i < j \/ j < i
      BY <1>2, <2>2
    <3> QED BY <2>1, <3>1
  <2> QED BY <2>2
<1>4. list \in Bijection(1 .. n, Range(list))
  <2>1. list \in [1 .. n -> Range(list)]
    BY <1>2 DEF Range
  <2>2. list \in Injection(1 .. n, Range(list))
    BY <1>3, <2>1 DEF Injection, IsInjective
  <2>3. list \in Surjection(1 .. n, Range(list))
    BY <1>2, <2>1 DEF Surjection, Range
  <2> QED BY <2>2, <2>3 DEF Bijection
<1>5. ExistsBijection(1 .. n, Range(list))
  BY <1>4 DEF ExistsBijection
<1>6. IsFiniteSet(1 .. n) /\ Cardinality(1 .. n) = n
  BY <1>2, FS_Interval
<1> QED BY <1>1, <1>5, <1>6, FS_Bijection

\* A key is used: what falls off the list is older than what stays.
LEMMA UseKeeps ==
  ASSUME LruInv, NEW k \in LruKey, Use(k), NEW all, all = Updated(ids_, k)
  PROVE  /\ ids_' \in Seq(LruKey) /\ Len(ids_') <= Num /\ NewestFirst(ids_', lastUse')
         /\ Range(ids_') = (DOMAIN tb \cup {k}) \ Evicted(all) /\ k \notin Evicted(all)
         /\ uses' \in Nat /\ lastUse' \in [LruKey -> Nat] /\ \A x \in LruKey : lastUse'[x] <= uses'
         /\ \A x \in Range(ids_') : lastUse'[x] > 0
         /\ Forgotten(Range(ids_'), cleared, lastUse')
         /\ k \in DOMAIN tb => Evicted(all) = {}
<1>1. /\ ids_ \in Seq(LruKey) /\ Len(ids_) <= Num /\ Range(ids_) = DOMAIN tb
      /\ uses \in Nat /\ lastUse \in [LruKey -> Nat] /\ \A x \in LruKey : lastUse[x] <= uses
      /\ \A x \in DOMAIN tb : lastUse[x] > 0
      /\ NewestFirst(ids_, lastUse) /\ Forgotten(DOMAIN tb, cleared, lastUse)
  BY DEF LruInv
<1>2. uses' = uses + 1 /\ ids_' = Shortened(all) /\ lastUse' = [lastUse EXCEPT ![k] = uses']
  BY DEF Use
<1>3. uses' \in Nat /\ \A x \in LruKey : lastUse[x] < uses'
  BY <1>1, <1>2
<1>4. PICK n : n = uses'
  OBVIOUS
<1>5. PICK L2 : L2 = [lastUse EXCEPT ![k] = n]
  OBVIOUS
<1>6. L2 = lastUse' /\ n \in Nat /\ \A x \in LruKey : lastUse[x] < n
  BY <1>2, <1>3, <1>4, <1>5
<1>7. /\ L2 \in [LruKey -> Nat] /\ L2[k] = n /\ n > 0
      /\ \A x \in LruKey : (x # k => L2[x] = lastUse[x]) /\ lastUse[x] <= L2[x] /\ L2[x] <= n
  BY <1>1, <1>5, <1>6
<1>8. /\ all \in Seq(LruKey) /\ NewestFirst(all, L2) /\ Range(all) = DOMAIN tb \cup {k} /\ all[1] = k
      /\ Len(all) = IF k \in DOMAIN tb THEN Len(ids_) ELSE Len(ids_) + 1
  <2>1. PICK list : list = ids_
    OBVIOUS
  <2>2. PICK L : L = lastUse
    OBVIOUS
  <2>3. /\ list \in Seq(LruKey) /\ L \in [LruKey -> Nat] /\ NewestFirst(list, L)
        /\ \A o \in LruKey : L[o] < n /\ L2 = [L EXCEPT ![k] = n]
    BY <1>1, <1>5, <1>6, <2>1, <2>2
  <2>4. /\ Updated(list, k) \in Seq(LruKey) /\ NewestFirst(Updated(list, k), L2)
        /\ Range(Updated(list, k)) = Range(list) \cup {k} /\ Updated(list, k)[1] = k
        /\ Len(Updated(list, k)) = IF k \in Range(list) THEN Len(list) ELSE Len(list) + 1
    <3>1. L2 = [L EXCEPT ![k] = n] /\ \A o \in LruKey : L[o] < n
      BY <1>5, <1>6, <2>2
    <3> QED BY <1>6, <2>3, <3>1, UpdatedIs
  <2> QED BY <1>1, <2>1, <2>4
<1>9. Num \in Nat /\ Num >= 1 /\ Len(ids_) \in Nat /\ Len(all) \in Nat
  BY <1>1, <1>8, LruAssumption
<1>10. Len(all) <= Num + 1 /\ (k \in DOMAIN tb => Len(all) <= Num)
  BY <1>1, <1>8, <1>9
<1>11. Len(all) >= 1
  <2>1. k \in Range(all)
    BY <1>8
  <2> QED BY <1>8, <2>1 DEF Range
<1>12. PICK short : short = Shortened(all)
  OBVIOUS
<1>13. /\ short \in Seq(LruKey) /\ NewestFirst(short, L2) /\ Len(short) <= Num
       /\ Range(short) = Range(all) \ Evicted(all) /\ all[1] \notin Evicted(all)
       /\ \A e \in Evicted(all) : /\ Len(all) = Num + 1 /\ Len(short) = Num
                                  /\ e \in LruKey /\ \A o \in Range(short) : L2[e] < L2[o]
  BY <1>7, <1>8, <1>10, <1>11, <1>12, ShortenedIs
<1>14. Range(short) \subseteq LruKey /\ Cardinality(Range(short)) = Len(short)
  <2>1. Cardinality(Range(short)) = Len(short)
    BY <1>7, <1>13, ListedOnce
  <2>2. \A i \in DOMAIN short : short[i] \in LruKey
    BY <1>13
  <2> QED BY <2>1, <2>2 DEF Range
<1>15. \A x \in LruKey : IsFiniteSet(Newer(L2, x)) /\ Cardinality(Newer(L2, x)) \in Nat
  <2>1. ASSUME NEW x \in LruKey PROVE Newer(L2, x) \in SUBSET LruKey
    BY DEF Newer
  <2> QED BY <2>1, FS_Subset, FS_CardinalityType, LruAssumption
<1>16. ASSUME NEW e \in Evicted(all) PROVE Cardinality(Newer(L2, e)) >= Num
  <2>1. e \in LruKey /\ Range(short) \in SUBSET Newer(L2, e) /\ Cardinality(Range(short)) = Num
    BY <1>7, <1>13, <1>14 DEF Newer
  <2>2. Cardinality(Range(short)) <= Cardinality(Newer(L2, e))
    BY <1>15, <2>1, FS_Subset
  <2> QED BY <1>9, <1>15, <2>1, <2>2
<1>17. ASSUME NEW x \in LruKey \ (DOMAIN tb \cup cleared), x # k, L2[x] > 0
       PROVE  Cardinality(Newer(L2, x)) >= Num /\ \A o \in Range(short) : L2[x] < L2[o]
  <2>1. lastUse[x] = L2[x] /\ Cardinality(Newer(lastUse, x)) >= Num /\ \A o \in DOMAIN tb : lastUse[x] < lastUse[o]
    BY <1>1, <1>7, <1>17 DEF Forgotten
  <2>2. Newer(lastUse, x) \in SUBSET Newer(L2, x)
    BY <1>1, <1>7, <2>1 DEF Newer
  <2>3. Cardinality(Newer(lastUse, x)) <= Cardinality(Newer(L2, x))
    BY <1>15, <2>2, FS_Subset
  <2>4. Cardinality(Newer(lastUse, x)) \in Nat
    BY <1>15, <2>2, FS_Subset, FS_CardinalityType
  <2>5. ASSUME NEW o \in Range(short) PROVE L2[x] < L2[o]
    <3>1. o \in LruKey /\ (o = k \/ o \in DOMAIN tb)
      BY <1>8, <1>13, <1>14
    <3>2. CASE o = k
      BY <1>6, <1>7, <1>17, <2>1, <3>2
    <3>3. CASE o \in DOMAIN tb
      BY <1>1, <1>7, <1>17, <2>1, <3>1, <3>3
    <3> QED BY <3>1, <3>2, <3>3
  <2> QED BY <1>9, <1>15, <2>1, <2>3, <2>4, <2>5
<1>18. Forgotten(Range(short), cleared, L2)
  <2>1. ASSUME NEW x \in LruKey \ (Range(short) \cup cleared), L2[x] > 0
        PROVE  Cardinality(Newer(L2, x)) >= Num /\ \A o \in Range(short) : L2[x] < L2[o]
    <3>1. CASE x \in Evicted(all)
      BY <1>13, <1>16, <3>1
    <3>2. CASE x \notin Evicted(all)
      <4>1. x \notin DOMAIN tb /\ x # k
        BY <1>8, <1>13, <2>1, <3>2
      <4> QED BY <1>17, <2>1, <4>1
    <3> QED BY <3>1, <3>2
  <2> QED BY <2>1 DEF Forgotten
<1>19. \A x \in Range(short) : L2[x] > 0
  <2>1. ASSUME NEW x \in Range(short) PROVE L2[x] > 0
    <3>1. x \in LruKey /\ (x = k \/ x \in DOMAIN tb)
      BY <1>8, <1>13, <1>14
    <3> QED BY <1>1, <1>7, <3>1
  <2> QED BY <2>1
<1>20. k \in DOMAIN tb => Evicted(all) = {}
  BY <1>10 DEF Evicted
<1>21. short = ids_'
  BY <1>2, <1>12
<1> QED BY <1>4, <1>6, <1>7, <1>8, <1>13, <1>18, <1>19, <1>20, <1>21

LEMMA LruInvInit == LruInit => LruInv
<1>1. SUFFICES ASSUME LruInit PROVE LruInv
  OBVIOUS
<1>2. ids_ = <<>> /\ DOMAIN tb = {} /\ uses = 0 /\ lastUse = [k \in LruKey |-> 0]
  BY <1>1 DEF LruInit
<1>3. ids_ \in Seq(LruKey) /\ Len(ids_) = 0 /\ Range(ids_) = {}
  BY <1>2 DEF Range
<1>4. Len(ids_) <= Num
  BY <1>3, LruAssumption
<1> QED BY <1>2, <1>3, <1>4 DEF LruInv, NewestFirst, Forgotten

LEMMA LruInvStep == LruInv /\ [LruNext]_lruVars => LruInv'
<1>1. SUFFICES ASSUME LruInv, [LruNext]_lruVars PROVE LruInv'
  OBVIOUS
<1>2. ASSUME NEW k \in LruKey, ReadKey(k) PROVE LruInv'
  <2>1. PICK all : all = Updated(ids_, k)
    OBVIOUS
  <2>2. Use(k) /\ k \in DOMAIN tb /\ tb' = tb /\ cleared' = cleared
    BY <1>2 DEF ReadKey
  <2>3. /\ ids_' \in Seq(LruKey) /\ Len(ids_') <= Num /\ NewestFirst(ids_', lastUse')
        /\ Range(ids_') = (DOMAIN tb \cup {k}) \ Evicted(all)
        /\ uses' \in Nat /\ lastUse' \in [LruKey -> Nat] /\ \A x \in LruKey : lastUse'[x] <= uses'
        /\ \A x \in Range(ids_') : lastUse'[x] > 0
        /\ Forgotten(Range(ids_'), cleared, lastUse')
        /\ Evicted(all) = {}
    BY <1>1, <2>1, <2>2, UseKeeps
  <2>4. Range(ids_') = DOMAIN tb'
    BY <2>2, <2>3
  <2> QED BY <2>2, <2>3, <2>4 DEF LruInv, NewestFirst, Forgotten, Newer, Range
<1>3. ASSUME NEW k \in LruKey, NEW v \in LruValue, WriteKey(k, v) PROVE LruInv'
  <2>1. PICK all : all = Updated(ids_, k)
    OBVIOUS
  <2>2. Use(k) /\ DOMAIN tb' = (DOMAIN tb \ Evicted(all)) \cup {k} /\ cleared' = cleared \ {k}
    BY <1>3, <2>1 DEF WriteKey
  <2>3. /\ ids_' \in Seq(LruKey) /\ Len(ids_') <= Num /\ NewestFirst(ids_', lastUse')
        /\ Range(ids_') = (DOMAIN tb \cup {k}) \ Evicted(all) /\ k \notin Evicted(all)
        /\ uses' \in Nat /\ lastUse' \in [LruKey -> Nat] /\ \A x \in LruKey : lastUse'[x] <= uses'
        /\ \A x \in Range(ids_') : lastUse'[x] > 0
        /\ Forgotten(Range(ids_'), cleared, lastUse')
    BY <1>1, <2>1, <2>2, UseKeeps
  <2>4. Range(ids_') = DOMAIN tb'
    BY <2>2, <2>3
  <2>5. Forgotten(DOMAIN tb', cleared', lastUse')
    BY <2>2, <2>3, <2>4 DEF Forgotten
  <2> QED BY <2>3, <2>4, <2>5 DEF LruInv, NewestFirst, Forgotten, Newer, Range
<1>4. ASSUME NEW k \in LruKey, ClearKey(k) PROVE LruInv'
  <2>1. /\ ids_' = Unlist(ids_, k) /\ DOMAIN tb' = DOMAIN tb \ {k} /\ cleared' = cleared \cup {k}
        /\ uses' = uses /\ lastUse' = lastUse
    BY <1>4 DEF ClearKey
  <2>2. /\ ids_ \in Seq(LruKey) /\ Len(ids_) <= Num /\ Range(ids_) = DOMAIN tb
        /\ uses \in Nat /\ lastUse \in [LruKey -> Nat] /\ \A x \in LruKey : lastUse[x] <= uses
        /\ \A x \in DOMAIN tb : lastUse[x] > 0
        /\ NewestFirst(ids_, lastUse) /\ Forgotten(DOMAIN tb, cleared, lastUse)
    BY <1>1 DEF LruInv
  <2>3. /\ ids_' \in Seq(LruKey) /\ NewestFirst(ids_', lastUse) /\ Range(ids_') = DOMAIN tb'
        /\ Len(ids_') = IF k \in Range(ids_) THEN Len(ids_) - 1 ELSE Len(ids_)
    BY <2>1, <2>2, UnlistIs
  <2>4. Len(ids_') <= Num
    <3>1. Len(ids_) \in Nat /\ Num \in Nat
      BY <2>2, LruAssumption
    <3> QED BY <2>2, <2>3, <3>1
  <2>5. Forgotten(DOMAIN tb', cleared', lastUse)
    BY <2>1, <2>2 DEF Forgotten
  <2> QED BY <2>1, <2>2, <2>3, <2>4, <2>5 DEF LruInv, NewestFirst, Forgotten, Newer, Range
<1>5. CASE UNCHANGED lruVars
  BY <1>1, <1>5 DEF lruVars, LruInv, NewestFirst, Forgotten, Newer, Range
<1> QED BY <1>1, <1>2, <1>3, <1>4, <1>5 DEF LruNext

\* The table (lru/test.lua) holds the keys of the list (lru/cc/llru.cc), which are those
\* used last but for what was cleared, however keys are read, written and cleared.
THEOREM TheNewestAreKept == LruSpec => []KeepsTheNewest
<1>1. LruInv => KeepsTheNewest
  <2>1. SUFFICES ASSUME LruInv PROVE KeepsTheNewest
    OBVIOUS
  <2>2. Cardinality(DOMAIN tb) = Len(ids_)
    BY <2>1, ListedOnce DEF LruInv
  <2> QED BY <2>1, <2>2 DEF LruInv, KeepsTheNewest, Forgotten, Newer
<1> QED BY <1>1, LruInvInit, LruInvStep, PTL DEF LruSpec
=============================================================================

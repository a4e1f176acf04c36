---------------------------- MODULE ServerGroup ----------------------------
(***************************************************************************)
(* The choice of a master among the database servers of a group            *)
(* (db/group/mgr.lua) and the routing of operations to it                  *)
(* (db/proxy/mgr.lua).  Each server learns from the cluster, in its own    *)
(* time, which servers came and went; the one with the smallest name makes *)
(* itself master and tells the others.  The cluster is external.           *)
(***************************************************************************)
EXTENDS Integers, FiniteSets

CONSTANTS
  Server,     \* server names, ordered as table.sort orders them
  Nil,
  MaxChanges  \* bound on servers that start or stop

ASSUME ServerAssumption == Server \subseteq Nat /\ Nil \notin Server

\* mygroupid comes from server_id, but parse_servername reads the digits of a name
\* as string.sub(3, -1), which is "3" whatever the name: every other server
\* counts as one of group 3 // 10 = 0.  Here all servers are of group 0.
VARIABLES
  up,      \* the servers that run
  group,   \* groups[mygroupid] at each server
  master,  \* master at each server
  told,    \* group_master[mygroupid] at each server
  msgs,    \* group_master messages: cluster.send does not wait
  changes
groupVars == <<up, group, master, told, msgs, changes>>

Lowest(g) == CHOOSE s \in g : \A t \in g : s <= t

Fresh(s) ==
  /\ group' = [group EXCEPT ![s] = {s}]
  /\ master' = [master EXCEPT ![s] = Nil]
  /\ told' = [told EXCEPT ![s] = Nil]

GroupInit ==
  /\ up = {} /\ changes = 0
  /\ group = [s \in Server |-> {s}]
  /\ master = [s \in Server |-> Nil] /\ told = master
  /\ msgs = {}

----------------------------------------------------------------------------
\* A server starts, with nothing but itself in its group.
StartServer(s) ==
  /\ s \notin up /\ changes < MaxChanges
  /\ up' = up \cup {s} /\ changes' = changes + 1
  /\ Fresh(s)
  /\ UNCHANGED msgs

\* A server stops, by which what it was sent is lost.
StopServer(s) ==
  /\ s \in up /\ changes < MaxChanges
  /\ up' = up \ {s} /\ changes' = changes + 1
  /\ Fresh(s)
  /\ msgs' = {m \in msgs : m.dst # s}

\* What send_master sends when m is the master of s.
Announcements(s, m, names) == {[dst |-> n, src |-> s, master |-> m] : n \in names \ {s}}

\* Mutant: whoever is in doubt makes itself master.
ClusterDiffAny(s, upd, del) ==
  LET known == group[s] \cup upd
      rest == known \ del
      doubted == IF upd # {} \/ master[s] \in del THEN Nil ELSE master[s]
      elect == doubted = Nil
  IN  /\ group' = [group EXCEPT ![s] = rest]
      /\ master' = [master EXCEPT ![s] = IF elect THEN s ELSE doubted]
      /\ msgs' = msgs \cup (IF elect THEN Announcements(s, s, rest) ELSE {})
      /\ UNCHANGED <<up, told, changes>>

\* cmds.cluster_diff: the servers of upd were added and those of del removed.  A new
\* server of the group puts the master in doubt, and select_master settles it
\* where this is the first server of the group.
ClusterDiff(s, upd, del) ==
  LET known == group[s] \cup upd
      rest == known \ del
      doubted == IF upd # {} \/ master[s] \in del THEN Nil ELSE master[s]
      elect == doubted = Nil /\ Lowest(rest) = s
  IN  /\ group' = [group EXCEPT ![s] = rest]
      /\ master' = [master EXCEPT ![s] = IF elect THEN s ELSE doubted]
      /\ msgs' = msgs \cup (IF elect THEN Announcements(s, s, rest) ELSE {})
      /\ UNCHANGED <<up, told, changes>>

\* The cluster tells a server of some of what has changed.
Notice(s) ==
  /\ s \in up
  /\ \E upd \in SUBSET (up \ group[s]), del \in SUBSET (group[s] \ up) :
       upd \cup del # {} /\ ClusterDiff(s, upd, del)

\* cmds.group_master.
GroupMaster(m) ==
  /\ m \in msgs /\ m.dst \in up
  /\ msgs' = msgs \ {m}
  /\ master' = [master EXCEPT ![m.dst] = m.master]
  /\ told' = [told EXCEPT ![m.dst] = m.master]
  /\ UNCHANGED <<up, group, changes>>

GroupNext ==
  \/ \E s \in Server : StartServer(s) \/ StopServer(s) \/ Notice(s)
  \/ \E m \in msgs : GroupMaster(m)

GroupSpec == GroupInit /\ [][GroupNext]_groupVars

----------------------------------------------------------------------------
\* Where cmds.ope of the proxy at s takes an operation on a key of the group:
\* master_bygroup.
Route(s) == IF master[s] = s THEN s ELSE told[s]

GroupTypeOK ==
  /\ up \subseteq Server
  /\ group \in [Server -> SUBSET Server]
  /\ master \in [Server -> Server \cup {Nil}] /\ told \in [Server -> Server \cup {Nil}]
  /\ msgs \subseteq [dst : Server, src : Server, master : Server]

\* Operations are forwarded, if at all, to a server with a smaller name, so that
\* no two servers ever send one back and forth, whatever they believe.
ForwardsGoDown ==
  \A s \in Server : Route(s) # Nil /\ Route(s) # s => Route(s) < s

\* There may be two masters for a while, but not once the second knows the first:
\* a server that holds itself for the master is the first of those it knows.
MasterIsFirstItKnows == \A s \in Server : master[s] = s => s = Lowest(group[s])

\* What db/group/mgr.lua promises of masters.
OneMasterWins == ForwardsGoDown /\ MasterIsFirstItKnows
=============================================================================

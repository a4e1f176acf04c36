----------------------------- MODULE Membership -----------------------------
(***************************************************************************)
(* The table of nodes of one Raft server (raft/raft/raft_server.c and      *)
(* raft_node.c): it changes when a configuration entry is appended, is     *)
(* changed back when the entry is deleted, and is confirmed when it is     *)
(* applied.  The server is a leader, whose clients propose entries, or a   *)
(* follower, whose leader sends them and may take back what is not         *)
(* committed.                                                              *)
(***************************************************************************)
EXTENDS Integers, Sequences, FiniteSets

CONSTANTS
  Node,
  Self,
  Founders, \* added with raft_add_node before anything else
  MaxLog,   \* bound: no entry is appended at this length
  MaxAstray, \* bound: how many nodes have an entry out of turn
  Orderly,  \* bound: whether the other leaders keep to one voting change at a time
  Failing   \* bound: whether log_offer and log_pop may fail

\* A server adds itself with the others before it starts.
ASSUME FoundersAssumption == Self \in Founders /\ Founders \subseteq Node

VARIABLES
  log,         \* entries [type, node]
  nodes,       \* the nodes of the table and their flags
  commitIdx, lastApplied,
  votingIdx,   \* voting_cfg_change_log_idx, or -1
  leader,      \* raft_is_leader
  astray       \* history: the nodes about which the code loses track, see InTurn and Undone
indices == <<commitIdx, lastApplied>>
memberVars == <<log, nodes, commitIdx, lastApplied, votingIdx, leader, astray>>

Voting == {"ADD_NODE", "DEMOTE_NODE"}
Config == Voting \cup {"ADD_NONVOTING_NODE", "REMOVE_NODE"}
LogEntry == [type : Config, node : Node] \cup [type : {"NORMAL"}, node : {Self}]
Flags == [voting : BOOLEAN, active : BOOLEAN, votingCommitted : BOOLEAN,
          additionCommitted : BOOLEAN]

\* raft_node_new.
NewNode(voting) ==
  [voting |-> voting, active |-> TRUE, votingCommitted |-> FALSE, additionCommitted |-> FALSE]

Put(table, n, flags) == [m \in DOMAIN table \cup {n} |-> IF m = n THEN flags ELSE table[m]]
WithoutNode(table, n) == [m \in DOMAIN table \ {n} |-> table[m]]

MemberInit ==
  /\ log = <<>>
  /\ nodes = [n \in Founders |-> NewNode(TRUE)]
  /\ commitIdx = 0 /\ lastApplied = 0 /\ votingIdx = -1
  /\ leader = FALSE /\ astray = {}

----------------------------------------------------------------------------
\* raft_offer_log, what an appended entry does to the table at once.
Offered(table, e) ==
  LET n == e.node
      there == n \in DOMAIN table
  IN  CASE e.type = "ADD_NONVOTING_NODE" /\ n # Self ->
             IF there THEN [table EXCEPT ![n].active = TRUE] ELSE Put(table, n, NewNode(FALSE))
        [] e.type = "ADD_NODE" ->
             IF there THEN [table EXCEPT ![n].voting = TRUE] ELSE Put(table, n, NewNode(TRUE))
        [] e.type = "DEMOTE_NODE" /\ there -> [table EXCEPT ![n].voting = FALSE]
        [] e.type = "REMOVE_NODE" /\ there -> [table EXCEPT ![n].active = FALSE]
        [] OTHER -> table

\* Mutant: a demotion that is taken back leaves the node demoted.
PoppedNoVote(table, e) ==
  LET n == e.node
  IN  CASE e.type = "REMOVE_NODE" -> [table EXCEPT ![n].active = TRUE]
        [] e.type = "ADD_NONVOTING_NODE" -> WithoutNode(table, n)
        [] e.type = "ADD_NODE" -> [table EXCEPT ![n].voting = FALSE]
        [] OTHER -> table

\* raft_pop_log, what a deleted entry does to it.
Popped(table, e) ==
  LET n == e.node
  IN  CASE e.type = "DEMOTE_NODE" -> [table EXCEPT ![n].voting = TRUE]
        [] e.type = "REMOVE_NODE" -> [table EXCEPT ![n].active = TRUE]
        [] e.type = "ADD_NONVOTING_NODE" -> WithoutNode(table, n)
        [] e.type = "ADD_NODE" -> [table EXCEPT ![n].voting = FALSE]
        [] OTHER -> table

\* raft_apply_entry, what an applied entry does to it.
Confirmed(table, e) ==
  LET n == e.node
  IN  CASE e.type = "ADD_NODE" ->
             [table EXCEPT ![n].additionCommitted = TRUE, ![n].votingCommitted = TRUE]
        [] e.type = "ADD_NONVOTING_NODE" -> [table EXCEPT ![n].additionCommitted = TRUE]
        [] e.type = "DEMOTE_NODE" /\ n \in DOMAIN table ->
             [table EXCEPT ![n].votingCommitted = FALSE]
        [] e.type = "REMOVE_NODE" /\ n \in DOMAIN table -> WithoutNode(table, n)
        [] OTHER -> table

NumVoting(table) == Cardinality({n \in DOMAIN table : table[n].active /\ table[n].voting})

----------------------------------------------------------------------------
\* What a node is once the entries of lg are appended to a cluster of Founders.
Standing(lg, n) ==
  LET mine == {k \in DOMAIN lg : lg[k].type \in Config /\ lg[k].node = n}
      last == lg[CHOOSE k \in mine : \A j \in mine : j <= k].type
  IN  IF mine = {} THEN IF n \in Founders THEN "voter" ELSE "absent"
      ELSE CASE last = "ADD_NODE" -> "voter"
             [] last = "REMOVE_NODE" -> "absent"
             [] last = "DEMOTE_NODE" -> "demoted"
             [] OTHER -> "nonvoter"

\* The order in which the entries about a node make sense: it joins, with a vote or without,
\* only once it is out of the table, gets a vote when it has none, and is demoted before it
\* is removed.  Nothing in the code keeps to it: what comes out of turn makes a node astray.
InTurn(e) ==
  LET stands == Standing(log, e.node)
      away == stands = "absent" /\ e.node \notin DOMAIN nodes
  IN  CASE e.type = "ADD_NONVOTING_NODE" -> away
        [] e.type = "ADD_NODE" -> away \/ stands \in {"nonvoter", "demoted"}
        [] e.type = "DEMOTE_NODE" -> stands = "voter"
        [] e.type = "REMOVE_NODE" -> stands \in {"nonvoter", "demoted"}
        [] OTHER -> TRUE
Strayed(e) == astray \cup IF InTurn(e) THEN {} ELSE {e.node}
Bounded(e) == Len(log) < MaxLog /\ (InTurn(e) \/ Cardinality(astray) < MaxAstray)

\* The nodes that came with a vote and whose coming is among the entries taken back, from k
\* on: raft_pop_log leaves them in the table, without the vote.
Undone(k) ==
  {log[j].node : j \in {j \in k .. Len(log) :
     log[j].type = "ADD_NODE" /\ Standing(SubSeq(log, 1, j - 1), log[j].node) = "absent"}}

\* The process stops where an assertion fails or a node that is not in the table is looked
\* into: in raft_offer_log when a node is added that votes already, in raft_pop_log when the
\* node is gone or is the server itself, and in raft_apply_entry when the node added is
\* gone.  A server whose own removal is applied is shut down by notify_membership_event.
CanOffer(e) == e.type = "ADD_NODE" /\ e.node \in DOMAIN nodes => ~nodes[e.node].voting
CanPop(table, e) ==
  e.type \in Config => e.node \in DOMAIN table /\ (e.type = "ADD_NONVOTING_NODE" => e.node # Self)
CanApply(e) ==
  /\ e.type \in {"ADD_NODE", "ADD_NONVOTING_NODE"} => e.node \in DOMAIN nodes
  /\ e.type = "REMOVE_NODE" => e.node # Self

\* The voting changes after an index.
Pending(idx) == {k \in idx + 1 .. Len(log) : log[k].type \in Voting}

\* raft_recv_entry.  raft_append_entry notes the index before the new entry and
\* raft_recv_entry corrects it, unless log_offer refused the entry.
RecvEntry(e, refused) ==
  /\ leader /\ Bounded(e)
  /\ e.type \in Voting => votingIdx = -1
  /\ refused => Failing
  /\ IF refused
     THEN /\ votingIdx' = IF e.type \in Voting THEN Len(log) ELSE votingIdx
          /\ UNCHANGED <<log, nodes, commitIdx, astray>>
     ELSE /\ CanOffer(e) /\ astray' = Strayed(e)
          /\ log' = Append(log, e)
          /\ nodes' = Offered(nodes, e)
          /\ commitIdx' = IF NumVoting(nodes') = 1 THEN Len(log') ELSE commitIdx
          /\ votingIdx' = IF e.type \in Voting THEN Len(log') ELSE votingIdx
  /\ UNCHANGED <<lastApplied, leader>>

\* raft_append_entry of a follower: voting_cfg_change_log_idx stays at the entry
\* before, and is set though log_offer refuses the entry.
AppendFromLeader(e, refused) ==
  /\ ~leader /\ Bounded(e)
  /\ Orderly /\ e.type \in Voting => Pending(commitIdx) = {}
  /\ IF refused THEN Failing ELSE CanOffer(e)
  /\ astray' = IF refused THEN astray ELSE Strayed(e)
  /\ log' = IF refused THEN log ELSE Append(log, e)
  /\ nodes' = IF refused THEN nodes ELSE Offered(nodes, e)
  /\ votingIdx' = IF e.type \in Voting THEN Len(log) ELSE votingIdx
  /\ UNCHANGED <<indices, leader>>

\* The tables that log_delete leaves as it pops the last entry, and the one before, down to k.
TablesFrom(k) ==
  LET table[j \in k .. Len(log) + 1] ==
        IF j = Len(log) + 1 THEN nodes ELSE Popped(table[j + 1], log[j])
  IN  table

\* raft_delete_entry_from_idx of a follower; log_pop may fail after some entries,
\* of which the last is popped first.
DeleteEntries(idx) ==
  /\ ~leader /\ idx \in commitIdx + 1 .. Len(log)
  /\ votingIdx' = IF idx <= votingIdx THEN -1 ELSE votingIdx
  /\ \E k \in idx .. Len(log) + 1 :
       /\ Failing \/ k = idx
       /\ \A j \in k .. Len(log) : CanPop(TablesFrom(k)[j + 1], log[j])
       /\ log' = SubSeq(log, 1, k - 1)
       /\ nodes' = TablesFrom(k)[k]
       /\ astray' = astray \cup Undone(k)
  /\ UNCHANGED <<indices, leader>>

\* The leader learns that a majority has the entries up to idx, or a follower
\* learns it from its leader.
Commit(idx) ==
  /\ idx \in commitIdx + 1 .. Len(log)
  /\ commitIdx' = idx
  /\ UNCHANGED <<log, nodes, lastApplied, votingIdx, leader, astray>>

\* raft_apply_entry, with log_get_node_id giving the node of the entry.
ApplyEntry ==
  /\ lastApplied < commitIdx /\ CanApply(log[lastApplied + 1])
  /\ lastApplied' = lastApplied + 1
  /\ votingIdx' = IF votingIdx = lastApplied' THEN -1 ELSE votingIdx
  /\ nodes' = Confirmed(nodes, log[lastApplied'])
  /\ UNCHANGED <<log, commitIdx, leader, astray>>

\* raft_become_leader, which only a voting node reaches, and raft_become_follower.
BecomeLeader ==
  /\ ~leader /\ nodes[Self].voting
  /\ leader' = TRUE
  /\ UNCHANGED <<log, nodes, indices, votingIdx, astray>>
BecomeFollower ==
  /\ leader
  /\ leader' = FALSE
  /\ UNCHANGED <<log, nodes, indices, votingIdx, astray>>

MemberNext ==
  \/ \E e \in LogEntry, refused \in BOOLEAN : RecvEntry(e, refused) \/ AppendFromLeader(e, refused)
  \/ \E idx \in 1 .. MaxLog : DeleteEntries(idx) \/ Commit(idx)
  \/ ApplyEntry \/ BecomeLeader \/ BecomeFollower

MemberSpec == MemberInit /\ [][MemberNext]_memberVars

----------------------------------------------------------------------------
MemberTypeOK ==
  /\ log \in Seq(LogEntry)
  /\ DOMAIN nodes \subseteq Node /\ \A n \in DOMAIN nodes : nodes[n] \in Flags
  /\ commitIdx \in 0 .. Len(log) /\ lastApplied \in 0 .. commitIdx
  /\ votingIdx \in -1 .. MaxLog /\ leader \in BOOLEAN /\ astray \subseteq Node

\* Of a node that is not astray: it is in the table and votes as the whole log says,
\* whatever was appended, taken back and applied on the way; what is confirmed is what the
\* applied entries say; and whoever an entry that may yet be applied or taken back is
\* about is in the table: raft_offer_log, raft_pop_log and raft_apply_entry agree.  Whether
\* a demoted node is active is left open: raft.h says that it is not, the code that it is.
NodesFollowLog ==
  LET applied == SubSeq(log, 1, lastApplied)
      Added(n) == {k \in 1 .. lastApplied : log[k] = [type |-> "ADD_NODE", node |-> n]}
  IN  \A n \in Node \ astray :
        /\ Standing(log, n) = "absent" => n \notin DOMAIN nodes \/ ~nodes[n].active
        /\ Standing(log, n) \in {"voter", "nonvoter"} => n \in DOMAIN nodes /\ nodes[n].active
        /\ Standing(log, n) # "absent" =>
             n \in DOMAIN nodes /\ (nodes[n].voting <=> Standing(log, n) = "voter")
        /\ n \in DOMAIN nodes =>
             (nodes[n].votingCommitted <=> Standing(applied, n) = "voter" /\ Added(n) # {})
        /\ \A k \in lastApplied + 1 .. Len(log) :
             log[k].type \in Config /\ log[k].node = n => n \in DOMAIN nodes

\* "Only one voting cfg change at a time" (raft_recv_entry): a leader takes a voting
\* change only when all earlier ones in its log are applied.
OneVotingChange ==
  [][leader /\ Len(log') > Len(log) /\ log'[Len(log')].type \in Voting
       => Pending(lastApplied) = {}]_memberVars
=============================================================================

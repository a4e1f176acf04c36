-------------------------------- MODULE Raft --------------------------------
(***************************************************************************)
(* The Raft server of raft/raft (raft_server.c, raft_server_properties.c,  *)
(* raft_node.c): a fixed set of voting nodes, no snapshot.  Every action   *)
(* is one call of a public function of the library: raft_periodic, the     *)
(* four raft_recv_* handlers and raft_recv_entry, plus a process restart   *)
(* from what the persist_* and log_offer/log_pop callbacks saved.          *)
(* Snapshots are in RaftSnapshot, the node table in Membership, the array  *)
(* under the log in RaftLog.                                               *)
(***************************************************************************)
EXTENDS Integers, Sequences, FiniteSets, TLC

CONSTANTS
  Server,       \* the nodes, added with raft_add_node by every server
  Value,        \* what clients put into entries
  Nil,          \* voted_for = -1 and current_leader = NULL
  Faults,       \* the callbacks that may fail
  Electors,     \* bound: the servers whose election timer may run out
  Crashing,     \* bound: the servers that may restart
  StaleDelivery, \* bound: whether messages of an older term still arrive
  MaxTerm,      \* bound: no election is started at this term
  MaxLog        \* bound: no client entry is taken at this log length

ASSUME ServerAssumption == IsFiniteSet(Server) /\ Cardinality(Server) > 1
ASSUME NilAssumption == Nil \notin Server
ASSUME FaultsAssumption == Faults \subseteq {"term", "vote", "log", "apply"}
ASSUME BoundsAssumption ==
  /\ Electors \subseteq Server /\ Crashing \subseteq Server
  /\ StaleDelivery \in BOOLEAN /\ MaxTerm \in Nat /\ MaxLog \in Nat

VARIABLES
  currentTerm, votedFor, log,                    \* persistent
  state, currentLeader, commitIdx, lastApplied,
  late,         \* election_timeout <= timeout_elapsed
  votesFor,     \* the nodes flagged RAFT_NODE_VOTED_FOR_ME
  nextIdx, matchIdx,
  msgs          \* every message ever sent: it may be lost, delayed or repeated

persistent == <<currentTerm, votedFor, log>>
progress   == <<nextIdx, matchIdx>>
applied    == <<commitIdx, lastApplied>>
vars == <<currentTerm, votedFor, log, state, currentLeader, commitIdx,
          lastApplied, late, votesFor, nextIdx, matchIdx, msgs>>

Fault == Faults \cup {"none"}
State == {"follower", "candidate", "leader"}
Entry == [term : Nat, value : Value]

RequestVoteMsg ==
  [type : {"RequestVote"}, term : Nat, lastIdx : Nat, lastTerm : Nat,
   src : Server, dst : Server]
RequestVoteResponseMsg ==
  [type : {"RequestVoteResponse"}, term : Nat, granted : BOOLEAN,
   src : Server, dst : Server]
AppendEntriesMsg ==
  [type : {"AppendEntries"}, term : Nat, prevIdx : Nat, prevTerm : Nat,
   entries : Seq(Entry), commit : Nat, src : Server, dst : Server]
AppendEntriesResponseMsg ==
  [type : {"AppendEntriesResponse"}, term : Nat, success : BOOLEAN, idx : Nat,
   src : Server, dst : Server]
Message == RequestVoteMsg \cup RequestVoteResponseMsg
             \cup AppendEntriesMsg \cup AppendEntriesResponseMsg

----------------------------------------------------------------------------
Smaller(a, b) == IF a < b THEN a ELSE b
Larger(a, b) == IF a < b THEN b ELSE a
Prefix(s, n) == SubSeq(s, 1, n)
TermAt(lg, k) == IF k \in 1 .. Len(lg) THEN lg[k].term ELSE 0
LastTerm(lg) == TermAt(lg, Len(lg))
Majority(n) == Cardinality(Server) \div 2 + 1 <= n

\* raft_send_appendentries: everything from next on, after the entry before it.
AppendEntriesTo(i, j, lg, next, commit) ==
  [type |-> "AppendEntries", term |-> currentTerm[i],
   prevIdx |-> IF next - 1 <= Len(lg) THEN next - 1 ELSE 0,
   prevTerm |-> TermAt(lg, next - 1),
   entries |-> SubSeq(lg, next, Len(lg)), commit |-> commit,
   src |-> i, dst |-> j]

Send(ms) == msgs' = msgs \cup ms

\* raft_set_current_term then raft_become_follower: the vote goes with the term.
StepDown(i, t) ==
  /\ currentTerm' = [currentTerm EXCEPT ![i] = t]
  /\ votedFor' = [votedFor EXCEPT ![i] = Nil]
  /\ state' = [state EXCEPT ![i] = "follower"]
  /\ currentLeader' = [currentLeader EXCEPT ![i] = Nil]
  /\ late' = [late EXCEPT ![i] = FALSE]

----------------------------------------------------------------------------
Init ==
  /\ currentTerm = [i \in Server |-> 0]
  /\ votedFor = [i \in Server |-> Nil]
  /\ log = [i \in Server |-> <<>>]
  /\ state = [i \in Server |-> "follower"]
  /\ currentLeader = [i \in Server |-> Nil]
  /\ commitIdx = [i \in Server |-> 0]
  /\ lastApplied = [i \in Server |-> 0]
  /\ late = [i \in Server |-> FALSE]
  /\ votesFor = [i \in Server |-> {}]
  /\ nextIdx = [i \in Server |-> [j \in Server |-> 1]]
  /\ matchIdx = [i \in Server |-> [j \in Server |-> 0]]
  /\ msgs = {}

\* raft_apply_all at the end of raft_periodic; applylog may refuse an entry,
\* which is counted as applied all the same.
ApplyAll(i, f) ==
  lastApplied' = [lastApplied EXCEPT ![i] =
                    IF f = "apply" THEN Smaller(@ + 1, commitIdx[i]) ELSE commitIdx[i]]

\* raft_become_candidate.  The result of raft_vote is not looked at.
BecomeCandidate(i, f) ==
  /\ currentTerm' = [currentTerm EXCEPT ![i] = @ + 1]
  /\ votedFor' = [votedFor EXCEPT ![i] = IF f = "vote" THEN Nil ELSE i]
  /\ votesFor' = [votesFor EXCEPT ![i] = {}]
  /\ currentLeader' = [currentLeader EXCEPT ![i] = Nil]
  /\ state' = [state EXCEPT ![i] = "candidate"]
  /\ late' = [late EXCEPT ![i] = FALSE]
  /\ Send({[type |-> "RequestVote", term |-> currentTerm[i] + 1,
            lastIdx |-> Len(log[i]), lastTerm |-> LastTerm(log[i]),
            src |-> i, dst |-> j] : j \in Server \ {i}})

\* raft_periodic on a leader: a heartbeat when request_timeout has passed.
PeriodicLeader(i, f) ==
  /\ state[i] = "leader"
  /\ \/ UNCHANGED <<late, msgs>>
     \/ /\ late' = [late EXCEPT ![i] = FALSE]
        /\ Send({AppendEntriesTo(i, j, log[i], nextIdx[i][j], commitIdx[i]) :
                   j \in Server \ {i}})
  /\ ApplyAll(i, f)
  /\ UNCHANGED <<persistent, state, currentLeader, commitIdx, votesFor, progress>>

\* raft_periodic before the randomised election timeout: time passes.
PeriodicWait(i, f) ==
  /\ state[i] # "leader"
  /\ \E l \in {late[i], TRUE} : late' = [late EXCEPT ![i] = l]
  /\ ApplyAll(i, f)
  /\ UNCHANGED <<persistent, state, currentLeader, commitIdx, votesFor, progress, msgs>>

\* raft_periodic past the randomised election timeout.
PeriodicElection(i, f) ==
  /\ state[i] # "leader"
  /\ i \in Electors /\ currentTerm[i] < MaxTerm
  /\ f # "term"
  /\ BecomeCandidate(i, f)
  /\ ApplyAll(i, f)
  /\ UNCHANGED <<log, commitIdx, progress>>

\* The same when persist_term fails: raft_periodic returns before it applies.
PeriodicElectionFails(i, f) ==
  /\ state[i] # "leader"
  /\ f = "term"
  /\ late' = [late EXCEPT ![i] = TRUE]
  /\ UNCHANGED <<persistent, state, currentLeader, applied, votesFor, progress, msgs>>

Periodic(i, f) ==
  \/ PeriodicLeader(i, f)
  \/ PeriodicWait(i, f)
  \/ PeriodicElection(i, f)
  \/ PeriodicElectionFails(i, f)

----------------------------------------------------------------------------
\* Mutant: any candidate's log will do.
AnyLogUpToDate(m, lg) == m.lastIdx >= 0

\* The log of the candidate is as up to date as ours (__should_grant_vote).
UpToDate(m, lg) ==
  \/ lg = <<>>
  \/ LastTerm(lg) < m.lastTerm
  \/ LastTerm(lg) = m.lastTerm /\ Len(lg) <= m.lastIdx

\* Mutant: forgets that it has already voted in this term.
GrantAgain(i, m) == currentTerm[i] <= m.term /\ UpToDate(m, log[i])

\* __should_grant_vote, on the vote held once the term is m's if m's is newer.
\* A repeated request of the node voted for is refused.
ShouldGrantVote(i, m) ==
  /\ \/ currentTerm[i] < m.term
     \/ currentTerm[i] = m.term /\ votedFor[i] = Nil
  /\ UpToDate(m, log[i])

\* A server that hears from a leader ignores other candidates.
HasLeader(i, m) == currentLeader[i] \notin {Nil, m.src} /\ ~late[i]

VoteReply(i, m, t, granted) ==
  [type |-> "RequestVoteResponse", term |-> t, granted |-> granted,
   src |-> i, dst |-> m.src]

\* assert(!(raft_is_leader(me_) || raft_is_candidate(me_)))
GrantAssertion(i, m) == currentTerm[i] = m.term => state[i] = "follower"

RequestVoteIgnored(i, m) ==
  /\ HasLeader(i, m)
  /\ Send({VoteReply(i, m, currentTerm[i], FALSE)})
  /\ UNCHANGED <<persistent, state, currentLeader, applied, late, votesFor, progress>>

\* The vote is saved before it is answered; an error is not answered at all.
RequestVoteGranted(i, m, f) ==
  /\ ~HasLeader(i, m)
  /\ ShouldGrantVote(i, m)
  /\ GrantAssertion(i, m)
  /\ currentTerm' = [currentTerm EXCEPT ![i] = m.term]
  /\ votedFor' = [votedFor EXCEPT ![i] = IF f = "vote" THEN Nil ELSE m.src]
  /\ state' = [state EXCEPT ![i] = "follower"]
  /\ currentLeader' = [currentLeader EXCEPT ![i] = Nil]
  /\ late' = [late EXCEPT ![i] = FALSE]
  /\ Send(IF f = "vote" THEN {} ELSE {VoteReply(i, m, m.term, TRUE)})
  /\ UNCHANGED <<log, applied, votesFor, progress>>

RequestVoteRefused(i, m) ==
  /\ ~HasLeader(i, m)
  /\ ~ShouldGrantVote(i, m)
  /\ \/ /\ currentTerm[i] < m.term
        /\ StepDown(i, m.term)
     \/ /\ currentTerm[i] >= m.term
        /\ UNCHANGED <<currentTerm, votedFor, state, currentLeader, late>>
  /\ Send({VoteReply(i, m, Larger(currentTerm[i], m.term), FALSE)})
  /\ UNCHANGED <<log, applied, votesFor, progress>>

\* raft_recv_requestvote.  When persist_term fails nothing is changed and
\* nothing is answered, which is a stuttering step here and below.
RecvRequestVote(i, m, f) ==
  /\ m.type = "RequestVote"
  /\ \/ RequestVoteIgnored(i, m)
     \/ RequestVoteGranted(i, m, f)
     \/ RequestVoteRefused(i, m)

\* raft_get_nvotes_for_me: the flagged nodes, and itself if it voted for itself.
VotesForMe(i, flagged) == (flagged \ {i}) \cup {s \in {i} : votedFor[i] = i}

\* raft_become_leader.
BecomeLeader(i) ==
  /\ state' = [state EXCEPT ![i] = "leader"]
  /\ currentLeader' = [currentLeader EXCEPT ![i] = i]
  /\ late' = [late EXCEPT ![i] = FALSE]
  /\ nextIdx' = [nextIdx EXCEPT ![i] =
                   [j \in Server |-> IF j = i THEN @[j] ELSE Len(log[i]) + 1]]
  /\ matchIdx' = [matchIdx EXCEPT ![i] = [j \in Server |-> IF j = i THEN @[j] ELSE 0]]
  /\ Send({AppendEntriesTo(i, j, log[i], Len(log[i]) + 1, commitIdx[i]) :
             j \in Server \ {i}})

\* raft_recv_requestvote_response: only a candidate listens.
RecvRequestVoteResponse(i, m) ==
  /\ m.type = "RequestVoteResponse"
  /\ state[i] = "candidate"
  /\ \/ /\ currentTerm[i] < m.term
        /\ StepDown(i, m.term)
        /\ UNCHANGED <<votesFor, progress, msgs>>
     \/ /\ currentTerm[i] = m.term
        /\ m.granted
        /\ votesFor' = [votesFor EXCEPT ![i] = @ \cup {m.src}]
        /\ IF Majority(Cardinality(VotesForMe(i, votesFor'[i])))
           THEN BecomeLeader(i)
           ELSE UNCHANGED <<state, currentLeader, late, progress, msgs>>
        /\ UNCHANGED <<currentTerm, votedFor>>
  /\ UNCHANGED <<log, applied>>

----------------------------------------------------------------------------
\* Mutant: reports the index before the last one.
ReplyBefore(i, m, t, success, idx) ==
  [type |-> "AppendEntriesResponse", term |-> t, success |-> success,
   idx |-> idx - 1, src |-> i, dst |-> m.src]

AppendReply(i, m, t, success, idx) ==
  [type |-> "AppendEntriesResponse", term |-> t, success |-> success,
   idx |-> idx, src |-> i, dst |-> m.src]

\* The entry before m's is missing here, or has another term.
PrevMissing(m, lg) == m.prevIdx > Len(lg)
PrevConflicts(m, lg) == m.prevIdx \in 1 .. Len(lg) /\ lg[m.prevIdx].term # m.prevTerm

\* Mutant: an entry at the index is taken for m's, whatever its term.
PresentAtIndex(m, lg, n) == \A k \in 1 .. n : m.prevIdx + k <= Len(lg)

\* How many of m's first entries are in the log already.
Present(m, lg, n) ==
  \A k \in 1 .. n : m.prevIdx + k <= Len(lg) /\ lg[m.prevIdx + k].term = m.entries[k].term
NumPresent(m, lg) ==
  CHOOSE n \in 0 .. Len(m.entries) :
    Present(m, lg, n) /\ (n < Len(m.entries) => ~Present(m, lg, n + 1))

\* raft_recv_appendentries checks that it never deletes a committed entry and
\* returns RAFT_ERR_SHUTDOWN, unanswered, if it would.
EntryConflicts(m, lg) ==
  /\ NumPresent(m, lg) < Len(m.entries)
  /\ m.prevIdx + NumPresent(m, lg) + 1 <= Len(lg)
CommittedConflict(i, m) ==
  \/ PrevConflicts(m, log[i]) /\ m.prevIdx <= commitIdx[i]
  \/ /\ ~PrevMissing(m, log[i]) /\ ~PrevConflicts(m, log[i])
     /\ EntryConflicts(m, log[i])
     /\ m.prevIdx + NumPresent(m, log[i]) + 1 <= commitIdx[i]

\* The log once m's first n entries are in it, the others of the server's own
\* kept only when all n were there already.
Merge(m, lg, n) ==
  IF n <= NumPresent(m, lg) THEN lg
  ELSE Prefix(lg, m.prevIdx + NumPresent(m, lg))
         \o SubSeq(m.entries, NumPresent(m, lg) + 1, n)

AppendEntriesStale(i, m) ==
  /\ m.term < currentTerm[i]
  /\ Send({AppendReply(i, m, currentTerm[i], FALSE, Len(log[i]))})
  /\ UNCHANGED <<persistent, state, currentLeader, late, commitIdx>>

\* Mutant: a leader that hears of a newer term only takes the term.
FollowInOffice(i, m) ==
  /\ m.term >= currentTerm[i]
  /\ currentTerm' = [currentTerm EXCEPT ![i] = m.term]
  /\ votedFor' = [votedFor EXCEPT ![i] = IF currentTerm[i] < m.term THEN Nil ELSE @]
  /\ state' = [state EXCEPT ![i] = IF @ = "candidate" THEN "follower" ELSE @]
  /\ currentLeader' = [currentLeader EXCEPT ![i] = m.src]
  /\ late' = [late EXCEPT ![i] = FALSE]

\* What a message of the current or a newer term does before the log is read.
FollowLeader(i, m) ==
  /\ m.term >= currentTerm[i]
  /\ currentTerm' = [currentTerm EXCEPT ![i] = m.term]
  /\ votedFor' = [votedFor EXCEPT ![i] = IF currentTerm[i] < m.term THEN Nil ELSE @]
  /\ state' = [state EXCEPT ![i] =
       IF currentTerm[i] < m.term \/ @ = "candidate" THEN "follower" ELSE @]
  /\ currentLeader' = [currentLeader EXCEPT ![i] = m.src]
  /\ late' = [late EXCEPT ![i] = FALSE]

AppendEntriesMissing(i, m) ==
  /\ FollowLeader(i, m)
  /\ PrevMissing(m, log[i])
  /\ Send({AppendReply(i, m, m.term, FALSE, Len(log[i]))})
  /\ UNCHANGED <<log, commitIdx>>

\* Deletes from the entry that conflicts; log_pop may stop it on the way.
AppendEntriesPrevConflict(i, m, f) ==
  /\ FollowLeader(i, m)
  /\ PrevConflicts(m, log[i])
  /\ ~CommittedConflict(i, m)
  /\ IF f = "log"
     THEN /\ \E k \in m.prevIdx .. Len(log[i]) : log' = [log EXCEPT ![i] = Prefix(@, k)]
          /\ UNCHANGED msgs
     ELSE /\ log' = [log EXCEPT ![i] = Prefix(@, m.prevIdx - 1)]
          /\ Send({AppendReply(i, m, m.term, FALSE, m.prevIdx - 1)})
  /\ UNCHANGED commitIdx

AppendEntriesShutdown(i, m) ==
  /\ FollowLeader(i, m)
  /\ CommittedConflict(i, m)
  /\ UNCHANGED <<log, commitIdx, msgs>>

\* Mutant: takes the leader's commit index even from an older message.
CommitOfMessage(i, m, lg) == Smaller(Len(lg), m.commit)

\* The commit index follows the leader's up to the end of the whole log lg, not
\* of the entries of this message.
FollowedCommit(i, m, lg) ==
  IF commitIdx[i] < m.commit THEN Smaller(Larger(Len(lg), 1), m.commit) ELSE commitIdx[i]

AppendEntriesAccept(i, m) ==
  /\ FollowLeader(i, m)
  /\ ~PrevMissing(m, log[i]) /\ ~PrevConflicts(m, log[i])
  /\ ~CommittedConflict(i, m)
  /\ log' = [log EXCEPT ![i] = Merge(m, @, Len(m.entries))]
  /\ commitIdx' = [commitIdx EXCEPT ![i] = FollowedCommit(i, m, log'[i])]
  /\ Send({AppendReply(i, m, m.term, TRUE, m.prevIdx + Len(m.entries))})

\* log_pop or log_offer stops it: a shorter log or some of the entries, no
\* answer and no commit.
AppendEntriesAcceptFails(i, m) ==
  /\ FollowLeader(i, m)
  /\ ~PrevMissing(m, log[i]) /\ ~PrevConflicts(m, log[i])
  /\ ~CommittedConflict(i, m)
  /\ NumPresent(m, log[i]) < Len(m.entries)
  /\ \/ \E n \in NumPresent(m, log[i]) + 1 .. Len(m.entries) - 1 :
          log' = [log EXCEPT ![i] = Merge(m, @, n)]
     \/ \E k \in m.prevIdx + NumPresent(m, log[i]) .. Len(log[i]) :
          log' = [log EXCEPT ![i] = Prefix(@, k)]
  /\ UNCHANGED <<commitIdx, msgs>>

\* raft_recv_appendentries.
RecvAppendEntries(i, m, f) ==
  /\ m.type = "AppendEntries"
  /\ \/ AppendEntriesStale(i, m)
     \/ AppendEntriesMissing(i, m)
     \/ AppendEntriesPrevConflict(i, m, f)
     \/ AppendEntriesShutdown(i, m)
     \/ f # "log" /\ AppendEntriesAccept(i, m)
     \/ f = "log" /\ AppendEntriesAcceptFails(i, m)
  /\ UNCHANGED <<lastApplied, votesFor, progress>>

----------------------------------------------------------------------------
\* The next index to try after m refused the last one, never below 1
\* (raft_node_set_next_idx).
NextAfterRefusal(i, m) ==
  LET next == nextIdx[i][m.src]
  IN  Larger(1, IF m.idx < next - 1 THEN Smaller(m.idx + 1, Len(log[i])) ELSE next - 1)

\* Mutant: entries of earlier terms are counted too.
CommitAnyTerm(i, idx, match) ==
  /\ commitIdx[i] < idx
  /\ Cardinality(Server) \div 2
       < 1 + Cardinality({j \in Server \ {i} : idx <= match[j]})

\* A quorum holds the leader's entry at idx, which is of its own term: only
\* such an entry is committed by counting, those before it with it.
CommitByCounting(i, idx, match) ==
  /\ commitIdx[i] < idx
  /\ log[i][idx].term = currentTerm[i]
  /\ Cardinality(Server) \div 2
       < 1 + Cardinality({j \in Server \ {i} : idx <= match[j]})

AppendRefused(i, m) ==
  /\ ~m.success
  /\ matchIdx[i][m.src] <= m.idx
  /\ nextIdx' = [nextIdx EXCEPT ![i][m.src] = NextAfterRefusal(i, m)]
  /\ Send({AppendEntriesTo(i, m.src, log[i], nextIdx'[i][m.src], commitIdx[i])})
  /\ UNCHANGED <<matchIdx, commitIdx>>

\* A success acknowledges m.idx; the leader commits what a quorum holds and
\* sends what is left.  assert(r->current_idx <= raft_get_current_idx(me_)).
AppendAccepted(i, m) ==
  /\ m.success
  /\ matchIdx[i][m.src] < m.idx
  /\ m.idx <= Len(log[i])
  /\ nextIdx' = [nextIdx EXCEPT ![i][m.src] = m.idx + 1]
  /\ matchIdx' = [matchIdx EXCEPT ![i][m.src] = m.idx]
  /\ commitIdx' = [commitIdx EXCEPT ![i] =
       IF CommitByCounting(i, m.idx, matchIdx'[i]) THEN m.idx ELSE @]
  /\ Send(IF m.idx < Len(log[i])
          THEN {AppendEntriesTo(i, m.src, log[i], m.idx + 1, commitIdx'[i])}
          ELSE {})

\* raft_recv_appendentries_response.
RecvAppendEntriesResponse(i, m) ==
  /\ m.type = "AppendEntriesResponse"
  /\ state[i] = "leader"
  /\ \/ /\ currentTerm[i] < m.term
        /\ StepDown(i, m.term)
        /\ UNCHANGED <<nextIdx, matchIdx, commitIdx, msgs>>
     \/ /\ currentTerm[i] = m.term
        /\ AppendRefused(i, m) \/ AppendAccepted(i, m)
        /\ UNCHANGED <<currentTerm, votedFor, state, currentLeader, late>>
  /\ UNCHANGED <<log, lastApplied, votesFor>>

\* raft_recv_entry: the new entry goes at once to the nodes that lack only it.
RecvEntry(i, v) ==
  /\ state[i] = "leader"
  /\ Len(log[i]) < MaxLog
  /\ log' = [log EXCEPT ![i] = Append(@, [term |-> currentTerm[i], value |-> v])]
  /\ Send({AppendEntriesTo(i, j, log'[i], nextIdx[i][j], commitIdx[i]) :
             j \in {k \in Server \ {i} : nextIdx[i][k] = Len(log'[i])}})
  /\ UNCHANGED <<currentTerm, votedFor, state, currentLeader, applied, late,
                 votesFor, progress>>

\* The process dies and comes back: raft_new, raft_add_node for every node,
\* raft_set_current_term, raft_vote_for_nodeid and raft_append_entry reload
\* what was saved.
Restart(i) ==
  /\ state' = [state EXCEPT ![i] = "follower"]
  /\ currentLeader' = [currentLeader EXCEPT ![i] = Nil]
  /\ commitIdx' = [commitIdx EXCEPT ![i] = 0]
  /\ lastApplied' = [lastApplied EXCEPT ![i] = 0]
  /\ late' = [late EXCEPT ![i] = FALSE]
  /\ votesFor' = [votesFor EXCEPT ![i] = {}]
  /\ nextIdx' = [nextIdx EXCEPT ![i] = [j \in Server |-> 1]]
  /\ matchIdx' = [matchIdx EXCEPT ![i] = [j \in Server |-> 0]]
  /\ UNCHANGED <<persistent, msgs>>

Arriving == {m \in msgs : StaleDelivery \/ currentTerm[m.dst] <= m.term}

Receive(m, f) ==
  \/ RecvRequestVote(m.dst, m, f)
  \/ RecvRequestVoteResponse(m.dst, m)
  \/ RecvAppendEntries(m.dst, m, f)
  \/ RecvAppendEntriesResponse(m.dst, m)

Next ==
  \/ \E i \in Server, f \in Fault : Periodic(i, f)
  \/ \E m \in Arriving, f \in Fault : Receive(m, f)
  \/ \E i \in Server, v \in Value : RecvEntry(i, v)
  \/ \E i \in Crashing : Restart(i)

Spec == Init /\ [][Next]_vars

----------------------------------------------------------------------------
TypeOK ==
  /\ currentTerm \in [Server -> Nat]
  /\ votedFor \in [Server -> Server \cup {Nil}]
  /\ log \in [Server -> Seq(Entry)]
  /\ state \in [Server -> State]
  /\ currentLeader \in [Server -> Server \cup {Nil}]
  /\ commitIdx \in [Server -> Nat]
  /\ lastApplied \in [Server -> Nat]
  /\ late \in [Server -> BOOLEAN]
  /\ votesFor \in [Server -> SUBSET Server]
  /\ nextIdx \in [Server -> [Server -> Nat \ {0}]]
  /\ matchIdx \in [Server -> [Server -> Nat]]
  /\ msgs \subseteq Message

\* At most one leader per term, whatever is lost, repeated or reordered and
\* whoever restarts: the votes behind raft_become_leader are persisted first.
ElectionSafety ==
  \A i, j \in Server :
    state[i] = "leader" /\ state[j] = "leader" /\ currentTerm[i] = currentTerm[j] => i = j

\* Two logs that hold an entry of the same term at the same index hold the same
\* entries up to it, though raft_recv_appendentries compares terms only.
LogMatching ==
  \A i, j \in Server : \A k \in 1 .. Smaller(Len(log[i]), Len(log[j])) :
    log[i][k].term = log[j][k].term => Prefix(log[i], k) = Prefix(log[j], k)

\* What any server counts as committed is in the log of every leader of its
\* term or a later one: the check of __should_grant_vote and the current-term
\* rule of raft_recv_appendentries_response together.
LeaderCompleteness ==
  \A i, j \in Server :
    state[j] = "leader" /\ currentTerm[i] <= currentTerm[j]
      => /\ commitIdx[i] <= Len(log[j])
         /\ Prefix(log[j], commitIdx[i]) = Prefix(log[i], commitIdx[i])

\* Committed entries agree on every two servers, so that raft_apply_all, which
\* stops at commit_idx, hands the same entries to every state machine.
StateMachineSafety ==
  \A i, j \in Server :
    LET n == Smaller(commitIdx[i], commitIdx[j])
    IN  n <= Len(log[i]) /\ Prefix(log[i], n) = Prefix(log[j], n)

\* "It shouldn't be possible for a leader or candidate to grant a vote" (the
\* assertion of raft_recv_requestvote): no message in flight can make one do it.
GrantsComeFromFollowers ==
  \A m \in msgs :
    m.type = "RequestVote" /\ ~HasLeader(m.dst, m) /\ ShouldGrantVote(m.dst, m)
      => GrantAssertion(m.dst, m)

\* What else the handlers assert or log as "should never happen", for every
\* message that may arrive: no leader ever asks to replace a committed entry,
\* and an acknowledged index is in the leader's log.
Assertions ==
  \A m \in msgs :
    LET i == m.dst IN
    CASE m.type = "AppendEntries" ->
           currentTerm[i] <= m.term => ~CommittedConflict(i, m)
      [] m.type = "AppendEntriesResponse" ->
           m.success /\ state[i] = "leader" /\ currentTerm[i] = m.term
             => m.idx <= Len(log[i])
      [] OTHER -> TRUE

\* raft_set_commit_idx asserts that the index is in the log and never falls;
\* over a whole step: committed entries stay, except over a restart.
CommittedStays ==
  [][\A i \in Server :
       \/ /\ commitIdx[i] <= commitIdx'[i]
          /\ commitIdx'[i] <= Len(log'[i])
          /\ Prefix(log'[i], commitIdx[i]) = Prefix(log[i], commitIdx[i])
       \/ Restart(i)]_vars

\* A vote once cast is kept for the whole term, and terms never fall: no step,
\* restart included, gives a server a second vote in a term.
VoteKept ==
  [][\A i \in Server :
       /\ currentTerm[i] <= currentTerm'[i]
       /\ currentTerm'[i] = currentTerm[i] /\ votedFor[i] # Nil
            => votedFor'[i] = votedFor[i]]_vars

\* A leader only adds to its log while it stays one.
LeaderAppendOnly ==
  [][\A i \in Server :
       state[i] = "leader" /\ state'[i] = "leader" /\ currentTerm'[i] = currentTerm[i]
         => Prefix(log'[i], Len(log[i])) = log[i]]_vars

----------------------------------------------------------------------------
\* For TLC: what the future can depend on when StaleDelivery is FALSE.  No message of an
\* older term, no answer that its receiver ignores for good, no data of a leader or a
\* candidate in another server.
Dead(m) ==
  LET i == m.dst IN
  \/ m.term < currentTerm[i]
  \/ /\ m.term = currentTerm[i]
     /\ \/ /\ m.type = "RequestVoteResponse"
           /\ state[i] # "candidate" \/ ~m.granted \/ m.src \in votesFor[i]
        \/ /\ m.type = "AppendEntriesResponse"
           /\ \/ state[i] = "follower"
              \/ m.idx < matchIdx[i][m.src]
              \/ (m.success /\ m.idx = matchIdx[i][m.src])
LiveView ==
  <<persistent, state, currentLeader, commitIdx,
    {m \in msgs : ~Dead(m)},
    [i \in Server |-> currentLeader[i] \notin {Nil, i} /\ late[i]],
    [i \in Server |-> IF state[i] = "candidate" THEN votesFor[i] ELSE {}],
    [i \in Server |-> IF state[i] = "leader" THEN <<nextIdx[i], matchIdx[i]>> ELSE <<>>]>>

Symmetry == Permutations(Server)
=============================================================================

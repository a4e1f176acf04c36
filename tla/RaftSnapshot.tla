---------------------------- MODULE RaftSnapshot ----------------------------
(***************************************************************************)
(* Log compaction in raft/raft/raft_server.c: a leader and its followers   *)
(* within one term of the leader, each of which may snapshot and compact   *)
(* its log while entries are replicated, and load a snapshot it was sent.  *)
(* The k-th entry the leader takes has id k, whatever becomes of it.  The  *)
(* application writes and ships the snapshots through the send_snapshot    *)
(* callback; it is external.                                               *)
(***************************************************************************)
EXTENDS Integers, Sequences, FiniteSets, TLC

CONSTANTS
  Leader, Follower,   \* the voting nodes
  Term, OldTerm, StrayTerm, \* the term of the leader, and two earlier ones
  Prior,              \* how many entries of OldTerm the leader was elected with
  MaxLog,             \* bound: no client entry is taken at this log length
  InFlight,           \* bound: what is sent to a network this full is lost
  Followed            \* bound: the followers that are followed on after a step that goes wrong

Node == {Leader} \cup Follower

ASSUME NodeAssumption == IsFiniteSet(Follower) /\ Follower # {} /\ Leader \notin Follower
ASSUME TermAssumption ==
  StrayTerm \in Nat \ {0} /\ OldTerm \in Nat /\ Term \in Nat /\ StrayTerm < OldTerm /\ OldTerm < Term
ASSUME BoundsAssumption ==
  /\ Prior \in Nat /\ MaxLog \in Nat /\ InFlight \in Nat /\ Followed \subseteq Follower

VARIABLES
  term,         \* current_term
  savedTerm,    \* what persist_term saved
  log,          \* entries; Gone stands for one that was compacted
  base,         \* log_get_base
  snap, saved,  \* snapshot_last_*, saved_snapshot_last_*
  taking,       \* snapshot_in_progress and snapshot_flags
  commitIdx, lastApplied,
  fsm,          \* ids applied to the state machine
  nextIdx, matchIdx, \* of the followers, at the leader
  msgs,
  misled        \* history: the followers that took one of the steps the code gets wrong

vars == <<term, savedTerm, log, base, snap, saved, taking, commitIdx,
          lastApplied, fsm, nextIdx, matchIdx, msgs, misled>>
snapshots == <<base, snap, saved, taking>>
terms == <<term, savedTerm>>
applied == <<lastApplied, fsm>>
progress == <<nextIdx, matchIdx>>

Gone == [term |-> 0, id |-> 0]
Entry == [term : {OldTerm, Term}, id : Nat \ {0}]
Stray == [term |-> StrayTerm, id |-> 0]
Mark == [idx : Nat, term : Nat]
NoMark == [idx |-> 0, term |-> 0]

Smaller(a, b) == IF a < b THEN a ELSE b
Larger(a, b) == IF a < b THEN b ELSE a
Prefix(s, n) == SubSeq(s, 1, n)

\* raft_get_entry_from_idx finds an entry.
Live(n, k) == k \in base[n] + 1 .. Len(log[n])

Send(ms) == IF Cardinality(msgs \cup ms) <= InFlight THEN msgs \cup ms ELSE msgs

----------------------------------------------------------------------------
\* The leader has just been elected.  It knows of c committed entries of the old
\* term, which a quorum holds; a follower may end in one that was never committed.
Init ==
  /\ term = [n \in Node |-> Term] /\ savedTerm = term
  /\ \E have \in [Follower -> 0 .. Prior], stray \in SUBSET Follower, c \in 0 .. Prior :
       LET Old(k) == [x \in 1 .. k |-> [term |-> OldTerm, id |-> x]]
       IN  /\ Cardinality(Node) \div 2 < 1 + Cardinality({f \in Follower : c <= have[f]})
           /\ \A f \in stray : have[f] < Prior
           /\ log = [n \in Node |-> IF n = Leader THEN Old(Prior)
                                    ELSE IF n \in stray THEN Append(Old(have[n]), Stray)
                                    ELSE Old(have[n])]
           /\ commitIdx = [n \in Node |-> IF n = Leader THEN c ELSE 0]
  /\ base = [n \in Node |-> 0]
  /\ snap = [n \in Node |-> NoMark] /\ saved = snap
  /\ taking = [n \in Node |-> "no"]
  /\ lastApplied = [n \in Node |-> 0]
  /\ fsm = [n \in Node |-> <<>>]
  /\ nextIdx = [f \in Follower |-> Prior + 1]
  /\ matchIdx = [f \in Follower |-> 0]
  /\ msgs = {} /\ misled = {}

\* The snapshot the application holds: the last one completed.
Held(n) == IF taking[n] = "no" THEN snap[n] ELSE saved[n]

\* send_snapshot: the application ships the snapshot it holds.
SnapshotTo(f) ==
  {[type |-> "Snapshot", mark |-> Held(Leader),
    fsm |-> Prefix(fsm[Leader], Held(Leader).idx), dst |-> f] :
     x \in {y \in {f} : Held(Leader).idx > 0}}

NeedsSnapshot(next) == 0 < snap[Leader].idx /\ next < snap[Leader].idx

\* raft_send_appendentries: the snapshot, or the entries from next on, cut where
\* the array they lie in wraps (module RaftLog).  An entry before next that is
\* gone is taken to be the last one of the snapshot.
AppendEntriesTo(f, lg, next, commit, cut) ==
  LET found == next - 1 \in base[Leader] + 1 .. Len(lg)
      mark == IF next = 1 THEN NoMark
              ELSE IF found THEN [idx |-> next - 1, term |-> lg[next - 1].term]
              ELSE snap[Leader]
      last == IF base[Leader] = 0 THEN Len(lg) ELSE Smaller(Len(lg), next + cut)
  IN  IF NeedsSnapshot(next) THEN SnapshotTo(f)
      ELSE {[type |-> "AppendEntries", prev |-> mark,
             entries |-> IF next <= base[Leader] THEN <<>> ELSE SubSeq(lg, next, last),
             commit |-> commit, dst |-> f]}

\* raft_apply_all.
ApplyAll(n) ==
  IF taking[n] = "blocking" THEN UNCHANGED applied
  ELSE /\ lastApplied' = [lastApplied EXCEPT ![n] = commitIdx[n]]
       /\ fsm' = [fsm EXCEPT ![n] =
                    @ \o [k \in 1 .. commitIdx[n] - lastApplied[n] |->
                            log[n][lastApplied[n] + k].id]]

----------------------------------------------------------------------------
\* raft_recv_entry.
RecvEntry(cut) ==
  LET lg == Append(log[Leader], [term |-> Term, id |-> Len(log[Leader]) + 1])
  IN  /\ Len(log[Leader]) < MaxLog
      /\ log' = [log EXCEPT ![Leader] = lg]
      /\ msgs' = Send(UNION {AppendEntriesTo(f, lg, nextIdx[f], commitIdx[Leader], cut) :
                               f \in {g \in Follower : nextIdx[g] = Len(lg)}})
      /\ UNCHANGED <<terms, snapshots, commitIdx, applied, progress, misled>>

\* raft_periodic at the leader.  A node that needs a snapshot ends the round of
\* heartbeats, and the nodes after it get none.
LeaderPeriodic(cut) ==
  /\ \/ UNCHANGED msgs
     \/ \E reached \in SUBSET Follower :
          /\ \/ reached = Follower
             \/ \E f \in reached : NeedsSnapshot(nextIdx[f])
          /\ \A f, g \in reached :
               NeedsSnapshot(nextIdx[f]) /\ NeedsSnapshot(nextIdx[g]) => f = g
          /\ msgs' = Send(UNION {AppendEntriesTo(f, log[Leader], nextIdx[f],
                                                 commitIdx[Leader], cut) : f \in reached})
  /\ ApplyAll(Leader)
  /\ UNCHANGED <<terms, log, snapshots, commitIdx, progress, misled>>

\* raft_periodic at a follower, short of the election timeout.
FollowerPeriodic(f) ==
  /\ lastApplied[f] < commitIdx[f]
  /\ ApplyAll(f)
  /\ UNCHANGED <<terms, log, snapshots, commitIdx, progress, msgs, misled>>

----------------------------------------------------------------------------
\* How many of the first entries of m are in the log of f, as far as it can see.
Present(f, m, k) ==
  \A j \in 1 .. k :
    Live(f, m.prev.idx + j) /\ log[f][m.prev.idx + j].term = m.entries[j].term
NumPresent(f, m) ==
  CHOOSE k \in 0 .. Len(m.entries) :
    Present(f, m, k) /\ (k < Len(m.entries) => ~Present(f, m, k + 1))

\* Mutant: leaves what conflicts where it is.
MergeAppends(f, m) == log[f] \o SubSeq(m.entries, NumPresent(f, m) + 1, Len(m.entries))

\* What is not seen goes to the end of the log, after what conflicts was deleted.
Merge(f, m) ==
  LET k == NumPresent(f, m)
      rest == SubSeq(m.entries, k + 1, Len(m.entries))
  IN  IF k < Len(m.entries) /\ Live(f, m.prev.idx + k + 1)
      THEN Prefix(log[f], m.prev.idx + k) \o rest
      ELSE log[f] \o rest

\* raft_get_entry_from_idx(prev_log_idx) does not fit, and is not the snapshot's.
PrevMissing(f, m) ==
  m.prev.idx \notin {0, snap[f].idx} /\ ~Live(f, m.prev.idx)
PrevConflicts(f, m) ==
  /\ m.prev.idx \notin {0, snap[f].idx} /\ Live(f, m.prev.idx)
  /\ log[f][m.prev.idx].term # m.prev.term

\* "Should never happen": RAFT_ERR_SHUTDOWN, and no answer.
Shutdown(f, m) ==
  \/ m.prev.idx > 0 /\ m.prev.idx = snap[f].idx /\ m.prev.term # snap[f].term
  \/ PrevConflicts(f, m) /\ m.prev.idx <= commitIdx[f]
  \/ /\ ~PrevMissing(f, m) /\ ~PrevConflicts(f, m)
     /\ NumPresent(f, m) < Len(m.entries)
     /\ Live(f, m.prev.idx + NumPresent(f, m) + 1)
     /\ m.prev.idx + NumPresent(f, m) + 1 <= commitIdx[f]

AppendReply(f, t, success, idx) ==
  [type |-> "AppendEntriesResponse", term |-> t, success |-> success, idx |-> idx,
   src |-> f]

FollowedCommit(f, m, lg) ==
  IF commitIdx[f] < m.commit THEN Smaller(Larger(Len(lg), 1), m.commit) ELSE commitIdx[f]

\* Its entries do not start after the entry the message names: raft_send_appendentries
\* named that of a snapshot in progress.
Misplaced(m) == m.entries # <<>> /\ m.entries[1].id # m.prev.idx + 1

\* The steps of a follower that go wrong: it takes such entries; or it takes entries from
\* the first on for new, as its own are compacted; or it commits, up to the end of its log,
\* what the message does not speak of.
Misleads(f, m) ==
  /\ ~PrevMissing(f, m) /\ ~PrevConflicts(f, m)
  /\ \/ Misplaced(m)
     \/ m.prev.idx = 0 /\ base[f] > 0 /\ m.entries # <<>>
     \/ /\ commitIdx[f] < m.commit
        /\ FollowedCommit(f, m, Merge(f, m)) > m.prev.idx + Len(m.entries)

\* raft_recv_appendentries, of a message of the leader's term, up to the assertion of
\* raft_set_commit_idx that what is committed is held.
RecvAppendEntries(f, m) ==
  /\ m.type = "AppendEntries"
  /\ ~Shutdown(f, m)
  /\ term' = [term EXCEPT ![f] = Term]
  /\ savedTerm' = [savedTerm EXCEPT ![f] = IF term[f] < Term THEN Term ELSE @]
  /\ \/ /\ PrevMissing(f, m)
        /\ msgs' = Send({AppendReply(f, Term, FALSE, Len(log[f]))})
        /\ UNCHANGED <<log, commitIdx>>
     \/ /\ PrevConflicts(f, m)
        /\ log' = [log EXCEPT ![f] = Prefix(@, m.prev.idx - 1)]
        /\ msgs' = Send({AppendReply(f, Term, FALSE, m.prev.idx - 1)})
        /\ UNCHANGED commitIdx
     \/ /\ ~PrevMissing(f, m) /\ ~PrevConflicts(f, m)
        /\ log' = [log EXCEPT ![f] = Merge(f, m)]
        /\ FollowedCommit(f, m, log'[f]) <= Len(log'[f])
        /\ commitIdx' = [commitIdx EXCEPT ![f] = FollowedCommit(f, m, log'[f])]
        /\ msgs' = Send({AppendReply(f, Term, TRUE, m.prev.idx + Len(m.entries))})
  /\ misled' = misled \cup IF Misleads(f, m) THEN {f} ELSE {}
  /\ UNCHANGED <<snapshots, applied, progress>>

NextAfterRefusal(m) ==
  LET next == nextIdx[m.src]
  IN  Larger(1, IF m.idx < next - 1 THEN Smaller(m.idx + 1, Len(log[Leader]))
                ELSE next - 1)

CommitByCounting(idx, match) ==
  /\ commitIdx[Leader] < idx
  /\ log[Leader][idx].term = Term
  /\ Cardinality(Node) \div 2 < 1 + Cardinality({f \in Follower : idx <= match[f]})

\* raft_recv_appendentries_response.
RecvAppendEntriesResponse(m, cut) ==
  /\ m.type = "AppendEntriesResponse"
  /\ m.term = Term
  /\ \/ /\ ~m.success
        /\ matchIdx[m.src] <= m.idx
        /\ nextIdx' = [nextIdx EXCEPT ![m.src] = NextAfterRefusal(m)]
        /\ msgs' = Send(AppendEntriesTo(m.src, log[Leader], nextIdx'[m.src],
                                        commitIdx[Leader], cut))
        /\ UNCHANGED <<matchIdx, commitIdx>>
     \/ /\ m.success
        /\ matchIdx[m.src] < m.idx /\ m.idx <= Len(log[Leader])
        /\ nextIdx' = [nextIdx EXCEPT ![m.src] = m.idx + 1]
        /\ matchIdx' = [matchIdx EXCEPT ![m.src] = m.idx]
        /\ commitIdx' = [commitIdx EXCEPT ![Leader] =
                           IF CommitByCounting(m.idx, matchIdx') THEN m.idx ELSE @]
        /\ msgs' = IF Live(Leader, m.idx + 1)
                   THEN Send(AppendEntriesTo(m.src, log[Leader], m.idx + 1,
                                             commitIdx'[Leader], cut))
                   ELSE msgs
  /\ UNCHANGED <<terms, log, snapshots, applied, misled>>

----------------------------------------------------------------------------
\* raft_get_num_snapshottable_logs.
NumSnapshottable(n) ==
  IF Len(log[n]) - base[n] <= 1 THEN 0 ELSE commitIdx[n] - base[n]

\* Mutant: does not apply first.
BeginUnapplied(n, how) ==
  /\ taking[n] = "no"
  /\ NumSnapshottable(n) # 0 /\ Live(n, commitIdx[n])
  /\ saved' = [saved EXCEPT ![n] = snap[n]]
  /\ snap' = [snap EXCEPT ![n] = [idx |-> commitIdx[n], term |-> log[n][commitIdx[n]].term]]
  /\ taking' = [taking EXCEPT ![n] = how]
  /\ UNCHANGED <<terms, log, base, commitIdx, applied, progress, msgs, misled>>

\* Mutant: marks the snapshot with the current term, not the term of its last entry.
BeginInCurrentTerm(n, how) ==
  /\ taking[n] = "no"
  /\ NumSnapshottable(n) # 0 /\ Live(n, commitIdx[n])
  /\ ApplyAll(n)
  /\ saved' = [saved EXCEPT ![n] = snap[n]]
  /\ snap' = [snap EXCEPT ![n] = [idx |-> commitIdx[n], term |-> term[n]]]
  /\ taking' = [taking EXCEPT ![n] = how]
  /\ UNCHANGED <<terms, log, base, commitIdx, progress, msgs, misled>>

\* raft_begin_snapshot, called when none is in progress: everything committed is
\* applied and the mark of the snapshot is set before it is written.
BeginSnapshot(n, how) ==
  /\ taking[n] = "no"
  /\ NumSnapshottable(n) # 0 /\ Live(n, commitIdx[n])
  /\ ApplyAll(n)
  /\ saved' = [saved EXCEPT ![n] = snap[n]]
  /\ snap' = [snap EXCEPT ![n] = [idx |-> commitIdx[n], term |-> log[n][commitIdx[n]].term]]
  /\ taking' = [taking EXCEPT ![n] = how]
  /\ UNCHANGED <<terms, log, base, commitIdx, progress, msgs, misled>>

\* raft_cancel_snapshot.
CancelSnapshot(n) ==
  /\ taking[n] # "no"
  /\ snap' = [snap EXCEPT ![n] = saved[n]]
  /\ taking' = [taking EXCEPT ![n] = "no"]
  /\ UNCHANGED <<terms, log, base, saved, commitIdx, applied, progress, msgs, misled>>

\* assert(raft_get_num_snapshottable_logs(me_) != 0),
\* assert(me->snapshot_last_idx == raft_get_commit_idx(me_)).
EndAssertions(n) == NumSnapshottable(n) # 0 /\ snap[n].idx = commitIdx[n]

\* Mutant: polls every entry of the log.
EndPollsAll(n) ==
  /\ taking[n] # "no" /\ EndAssertions(n)
  /\ taking' = [taking EXCEPT ![n] = "no"]
  /\ base' = [base EXCEPT ![n] = Len(log[n])]
  /\ log' = [log EXCEPT ![n] =
               [k \in DOMAIN @ |-> Gone]]
  /\ msgs' = IF n = Leader
             THEN Send({[type |-> "Snapshot", mark |-> snap[n],
                         fsm |-> Prefix(fsm[n], snap[n].idx), dst |-> f] :
                          f \in {g \in Follower : NeedsSnapshot(nextIdx[g])}})
             ELSE msgs
  /\ UNCHANGED <<terms, snap, saved, commitIdx, applied, progress, misled>>

\* raft_end_snapshot polls the entries up to the commit index and, at the leader,
\* sends the snapshot to the nodes that need it.
EndSnapshot(n) ==
  /\ taking[n] # "no" /\ EndAssertions(n)
  /\ taking' = [taking EXCEPT ![n] = "no"]
  /\ base' = [base EXCEPT ![n] = commitIdx[n]]
  /\ log' = [log EXCEPT ![n] =
               [k \in DOMAIN @ |-> IF k <= commitIdx[n] THEN Gone ELSE @[k]]]
  /\ msgs' = IF n = Leader
             THEN Send({[type |-> "Snapshot", mark |-> snap[n],
                         fsm |-> Prefix(fsm[n], snap[n].idx), dst |-> f] :
                          f \in {g \in Follower : NeedsSnapshot(nextIdx[g])}})
             ELSE msgs
  /\ UNCHANGED <<terms, snap, saved, commitIdx, applied, progress, misled>>

\* Mutant: overwrites a newer log.
LoadableAnyway(f, mark) == mark # snap[f]

\* What raft_begin_load_snapshot checks.
Loadable(f, mark) ==
  /\ lastApplied[f] <= mark.idx /\ Len(log[f]) <= mark.idx
  /\ mark # snap[f]

\* The application received a snapshot: raft_begin_load_snapshot, the state
\* machine is replaced, the nodes are added again, raft_end_load_snapshot, and
\* the answer raft.h asks for, once the snapshot is there.  If it was taking one itself,
\* cancelling that takes the mark back.
LoadSnapshot(f, m) ==
  /\ m.type = "Snapshot"
  /\ IF Loadable(f, m.mark)
     THEN /\ term' = [term EXCEPT ![f] = m.mark.term]
          /\ log' = [log EXCEPT ![f] = [k \in 1 .. m.mark.idx |-> Gone]]
          /\ base' = [base EXCEPT ![f] = m.mark.idx]
          /\ commitIdx' = [commitIdx EXCEPT ![f] = Larger(@, m.mark.idx)]
          /\ lastApplied' = [lastApplied EXCEPT ![f] = m.mark.idx]
          /\ fsm' = [fsm EXCEPT ![f] = m.fsm]
          /\ saved' = [saved EXCEPT ![f] = snap[f]]
          /\ snap' = [snap EXCEPT ![f] = m.mark]
     ELSE UNCHANGED <<term, log, base, commitIdx, applied, saved, snap>>
  /\ msgs' = IF snap'[f] = m.mark
             THEN Send({AppendReply(f, term'[f], TRUE, m.mark.idx)}) ELSE msgs
  /\ misled' = misled \cup IF Loadable(f, m.mark) /\ taking[f] # "no" THEN {f} ELSE {}
  /\ UNCHANGED <<savedTerm, taking, progress>>

\* A message may be lost before it arrives.
Lose(m) ==
  /\ msgs' = msgs \ {m}
  /\ UNCHANGED <<terms, log, snapshots, commitIdx, applied, progress, misled>>

\* The nodes whose steps are followed.
Going == Node \ (misled \ Followed)

Next ==
  \/ \E cut \in 0 .. MaxLog : RecvEntry(cut) \/ LeaderPeriodic(cut)
  \/ \E f \in Follower \cap Going : FollowerPeriodic(f)
  \/ \E f \in Follower \cap Going : \E m \in msgs :
       m.type # "AppendEntriesResponse" /\ m.dst = f
         /\ (RecvAppendEntries(f, m) \/ LoadSnapshot(f, m))
  \/ \E m \in msgs, cut \in 0 .. MaxLog : RecvAppendEntriesResponse(m, cut)
  \/ \E n \in Going, how \in {"blocking", "nonblocking"} : BeginSnapshot(n, how)
  \/ \E n \in Going : CancelSnapshot(n) \/ EndSnapshot(n)
  \/ \E m \in msgs : Lose(m)

Spec == Init /\ [][Next]_vars

----------------------------------------------------------------------------
TypeOK ==
  /\ term \in [Node -> {OldTerm, Term}] /\ savedTerm \in [Node -> {OldTerm, Term}]
  /\ log \in [Node -> Seq(Entry \cup {Gone, Stray})]
  /\ base \in [Node -> Nat] /\ snap \in [Node -> Mark] /\ saved \in [Node -> Mark]
  /\ taking \in [Node -> {"no", "blocking", "nonblocking"}]
  /\ commitIdx \in [Node -> Nat] /\ lastApplied \in [Node -> Nat]
  /\ fsm \in [Node -> Seq(Nat)]
  /\ nextIdx \in [Follower -> Nat \ {0}] /\ matchIdx \in [Follower -> Nat]
  /\ misled \subseteq Follower

\* Every state machine that was not misled has applied the leader's entries, each once and
\* in order, whether they came one by one or in a snapshot.
AppliedInOrder ==
  \A n \in Node \ misled : fsm[n] = [k \in 1 .. lastApplied[n] |-> k]

\* What is left of such a log is the leader's, entry by entry, but for what a follower
\* held before and has not committed.
LogIsTheLeaders ==
  \A n \in Node \ misled : \A k \in base[n] + 1 .. Len(log[n]) :
    \/ log[n][k] = [term |-> IF k <= Prior THEN OldTerm ELSE Term, id |-> k]
    \/ log[n][k] = Stray /\ commitIdx[n] < k

\* Next to the types: only what was applied is compacted, only what is committed is
\* applied, and only what is held is committed; the mark kept in the place of what was
\* compacted is that of the last entry that went, whatever happens during a snapshot.
MarksInOrder ==
  /\ TypeOK
  /\ \A n \in Node \ misled :
       /\ base[n] <= lastApplied[n] /\ lastApplied[n] <= commitIdx[n] /\ commitIdx[n] <= Len(log[n])
       /\ base[n] > 0 => Held(n).idx = base[n]

\* Whatever was acknowledged to the leader and counted is held by the follower, in its
\* log, where it is the leader's, or in its snapshot, and no follower commits ahead of
\* the leader.
AcknowledgedIsHeld ==
  \A f \in Follower \ misled :
    /\ matchIdx[f] <= Len(log[f]) /\ commitIdx[f] <= commitIdx[Leader]
    /\ \A k \in base[f] + 1 .. matchIdx[f] : log[f][k] # Stray

\* "Should never happen; something is seriously wrong!": no message in flight, but for the
\* misplaced ones, makes raft_recv_appendentries shut the server down.
NoShutdown ==
  \A m \in msgs :
    m.type = "AppendEntries" /\ ~Misplaced(m) /\ m.dst \notin misled => ~Shutdown(m.dst, m)

\* raft.h says prev_log_idx is "the index of the log just before the newest entry
\* for the node who receives this message".
PrevIsJustBefore ==
  \A m \in msgs :
    m.type = "AppendEntries" /\ m.entries # <<>> => m.entries[1].id = m.prev.idx + 1

\* raft.h says of persist_term that it saves the current term: a restart comes
\* back with the term the server was in.
TermIsSaved == \A n \in Node : term[n] = savedTerm[n]

----------------------------------------------------------------------------
Symmetry == Permutations(Follower)
=============================================================================

----------------------------- MODULE RaftProofs -----------------------------
(***************************************************************************)
(* Theorems about Raft, for any set of servers, faults and bounds, in four *)
(* parts: the elections; who may say what, and what leaders keep; log      *)
(* matching, over the set H of all logs that some server has had so far;   *)
(* and what is committed.                                                  *)
(***************************************************************************)
EXTENDS Raft, TLAPS, FiniteSetTheorems, SequenceTheorems, WellFoundedInduction

\* Every non-empty set of naturals has a least element: induction on naturals
\* in the form the provers can use.
LEMMA LeastNatural ==
  ASSUME NEW T, T \subseteq Nat, T # {}
  PROVE  \E x \in T : \A y \in T : x <= y
<1>1. \E x \in T : \A y \in T : ~ (<<y, x>> \in OpToRel(<, Nat))
  BY NatLessThanWellFounded, WFMin, Zenon
<1>2. PICK x \in T : \A y \in T : ~ (<<y, x>> \in OpToRel(<, Nat))
  BY <1>1
<1>3. \A y \in T : <<y, x>> \in Nat \X Nat /\ <<y, x>>[1] = y /\ <<y, x>>[2] = x
  OBVIOUS
<1>4. \A y \in T : ~ (y < x)
  BY <1>2, <1>3, Zenon DEF OpToRel
<1> QED BY <1>4

\* A prefix or a tail of a log is a log.
LEMMA SubSeqOfLog ==
  ASSUME NEW lg \in Seq(Entry), NEW a \in Nat \ {0}, NEW b \in Nat, b <= Len(lg)
  PROVE  SubSeq(lg, a, b) \in Seq(Entry)
<1>1. \A k \in a .. b : lg[k] \in Entry
  BY ElementOfSeq
<1> QED BY <1>1, SubSeqProperties

LEMMA TermAtType ==
  ASSUME NEW lg \in Seq(Entry), NEW k \in Int
  PROVE  TermAt(lg, k) \in Nat /\ LastTerm(lg) \in Nat
<1>1. \A n \in 1 .. Len(lg) : lg[n] \in Entry
  BY ElementOfSeq
<1>2. TermAt(lg, k) \in Nat /\ TermAt(lg, Len(lg)) \in Nat
  BY <1>1 DEF TermAt, Entry
<1> QED BY <1>2 DEF LastTerm

\* raft_recv_appendentries finds how many entries of a message it has already.
LEMMA NumPresentType ==
  ASSUME NEW m, NEW lg, Len(m.entries) \in Nat
  PROVE  /\ NumPresent(m, lg) \in 0 .. Len(m.entries)
         /\ Present(m, lg, NumPresent(m, lg))
         /\ NumPresent(m, lg) < Len(m.entries) => ~Present(m, lg, NumPresent(m, lg) + 1)
<1> DEFINE T == {n \in 0 .. Len(m.entries) : ~Present(m, lg, n)} \cup {Len(m.entries) + 1}
<1>1. PICK x \in T : \A y \in T : x <= y
  <2>1. T \subseteq Nat /\ T # {}
    OBVIOUS
  <2> QED BY <2>1, LeastNatural
<1>2. Present(m, lg, 0)
  BY DEF Present
<1>3. x # 0
  BY <1>2
<1>4. x - 1 \in 0 .. Len(m.entries) /\ x - 1 \notin T
  BY <1>1, <1>3
<1>5. /\ Present(m, lg, x - 1)
      /\ x - 1 < Len(m.entries) => ~Present(m, lg, (x - 1) + 1)
  BY <1>1, <1>4
<1>6. \E n \in 0 .. Len(m.entries) :
        Present(m, lg, n) /\ (n < Len(m.entries) => ~Present(m, lg, n + 1))
  BY <1>4, <1>5
<1> QED BY <1>6 DEF NumPresent

----------------------------------------------------------------------------
\* What the senders put into a message is well formed.
LEMMA AppendEntriesType ==
  ASSUME TypeOK, NEW i \in Server, NEW j \in Server, NEW lg \in Seq(Entry),
         NEW next \in Nat \ {0}, NEW commit \in Nat
  PROVE  AppendEntriesTo(i, j, lg, next, commit) \in Message
<1>1. SubSeq(lg, next, Len(lg)) \in Seq(Entry)
  BY SubSeqOfLog, LenProperties
<1>2. TermAt(lg, next - 1) \in Nat
  BY TermAtType
<1>3. next - 1 \in Nat /\ (IF next - 1 <= Len(lg) THEN next - 1 ELSE 0) \in Nat
  OBVIOUS
<1> QED BY <1>1, <1>2, <1>3 DEF AppendEntriesTo, Message, AppendEntriesMsg, TypeOK

LEMMA MergeType ==
  ASSUME NEW lg \in Seq(Entry), NEW m, m.entries \in Seq(Entry), m.prevIdx \in Nat,
         m.prevIdx <= Len(lg), NEW n \in 0 .. Len(m.entries)
  PROVE  Merge(m, lg, n) \in Seq(Entry)
<1> DEFINE p == NumPresent(m, lg)
<1>1. Len(m.entries) \in Nat /\ Len(lg) \in Nat
  OBVIOUS
<1>2. p \in 0 .. Len(m.entries) /\ Present(m, lg, p)
  BY <1>1, NumPresentType
<1>3. m.prevIdx + p <= Len(lg)
  BY <1>1, <1>2 DEF Present
<1>4. Prefix(lg, m.prevIdx + p) \in Seq(Entry)
  BY <1>2, <1>3, SubSeqOfLog DEF Prefix
<1>5. SubSeq(m.entries, p + 1, n) \in Seq(Entry)
  BY <1>1, <1>2, SubSeqOfLog
<1> QED BY <1>4, <1>5, ConcatProperties DEF Merge

\* Messages of each type carry the fields their handlers read.
LEMMA MessageFields ==
  ASSUME NEW m \in Message
  PROVE  /\ m.src \in Server /\ m.dst \in Server /\ m.term \in Nat
         /\ m.type = "AppendEntries" =>
              /\ m.prevIdx \in Nat /\ m.prevTerm \in Nat /\ m.commit \in Nat
              /\ m.entries \in Seq(Entry)
         /\ m.type = "AppendEntriesResponse" => m.idx \in Nat /\ m.success \in BOOLEAN
         /\ m.type = "RequestVoteResponse" => m.granted \in BOOLEAN
         /\ m.type = "RequestVote" => m.lastIdx \in Nat /\ m.lastTerm \in Nat
<1>1. CASE m \in RequestVoteMsg
  BY <1>1 DEF RequestVoteMsg
<1>2. CASE m \in RequestVoteResponseMsg
  BY <1>2 DEF RequestVoteResponseMsg
<1>3. CASE m \in AppendEntriesMsg
  BY <1>3 DEF AppendEntriesMsg
<1>4. CASE m \in AppendEntriesResponseMsg
  BY <1>4 DEF AppendEntriesResponseMsg
<1> QED BY <1>1, <1>2, <1>3, <1>4 DEF Message

LEMMA InitTypeOK == Init => TypeOK
  BY EmptySeq DEF Init, TypeOK, State

LEMMA PeriodicTypeOK ==
  ASSUME TypeOK, NEW i \in Server, NEW f \in Fault, Periodic(i, f)
  PROVE  TypeOK'
<1> USE DEF persistent, progress, applied
<1>1. lastApplied' \in [Server -> Nat]
  <2>1. CASE ApplyAll(i, f)
    <3>1. commitIdx[i] \in Nat /\ Smaller(lastApplied[i] + 1, commitIdx[i]) \in Nat
      BY DEF Smaller, TypeOK
    <3> QED BY <2>1, <3>1 DEF ApplyAll, TypeOK
  <2>2. CASE UNCHANGED lastApplied
    BY <2>2 DEF TypeOK
  <2> QED BY <2>1, <2>2 DEF Periodic, PeriodicLeader, PeriodicWait, PeriodicElection,
                            PeriodicElectionFails
<1>2. CASE PeriodicLeader(i, f)
  <2>1. \A j \in Server \ {i} :
          AppendEntriesTo(i, j, log[i], nextIdx[i][j], commitIdx[i]) \in Message
    BY AppendEntriesType DEF TypeOK
  <2>2. msgs' \subseteq Message /\ late' \in [Server -> BOOLEAN]
    BY <1>2, <2>1 DEF PeriodicLeader, Send, TypeOK
  <2> QED BY <1>1, <1>2, <2>2 DEF PeriodicLeader, TypeOK
<1>3. CASE PeriodicWait(i, f)
  BY <1>1, <1>3 DEF PeriodicWait, TypeOK
<1>4. CASE PeriodicElection(i, f)
  <2>1. LastTerm(log[i]) \in Nat /\ Len(log[i]) \in Nat
    BY TermAtType, LenProperties DEF TypeOK
  <2>2. msgs' \subseteq Message
    <3>1. currentTerm[i] + 1 \in Nat /\ msgs \subseteq Message
      BY DEF TypeOK
    <3>2. \A j \in Server : [type |-> "RequestVote", term |-> currentTerm[i] + 1,
                            lastIdx |-> Len(log[i]), lastTerm |-> LastTerm(log[i]),
                            src |-> i, dst |-> j] \in Message
      BY <2>1, <3>1 DEF Message, RequestVoteMsg
    <3> QED BY <1>4, <3>1, <3>2 DEF PeriodicElection, BecomeCandidate, Send
  <2>3. currentTerm' \in [Server -> Nat] /\ votedFor' \in [Server -> Server \cup {Nil}]
    BY <1>4 DEF PeriodicElection, BecomeCandidate, TypeOK
  <2>4. /\ votesFor' \in [Server -> SUBSET Server]
        /\ currentLeader' \in [Server -> Server \cup {Nil}]
        /\ state' \in [Server -> State]
        /\ late' \in [Server -> BOOLEAN]
    BY <1>4 DEF PeriodicElection, BecomeCandidate, TypeOK, State
  <2> QED BY <1>1, <1>4, <2>2, <2>3, <2>4 DEF PeriodicElection, TypeOK
<1>5. CASE PeriodicElectionFails(i, f)
  BY <1>1, <1>5 DEF PeriodicElectionFails, TypeOK
<1> QED BY <1>2, <1>3, <1>4, <1>5 DEF Periodic

LEMMA RequestVoteTypeOK ==
  ASSUME TypeOK, NEW m \in msgs, NEW i \in Server, NEW f \in Fault, RecvRequestVote(i, m, f)
  PROVE  TypeOK'
<1> USE DEF persistent, progress, applied
<1>1. m \in Message /\ m.type = "RequestVote" /\ m.src \in Server /\ m.term \in Nat
  BY MessageFields DEF TypeOK, RecvRequestVote
<1>2. \A t \in Nat, g \in BOOLEAN : VoteReply(i, m, t, g) \in Message
  BY <1>1 DEF VoteReply, Message, RequestVoteResponseMsg
<1>3. currentTerm[i] \in Nat /\ Larger(currentTerm[i], m.term) \in Nat
  BY <1>1 DEF TypeOK, Larger
<1>4. CASE RequestVoteIgnored(i, m)
  BY <1>2, <1>3, <1>4 DEF RequestVoteIgnored, Send, TypeOK
<1>5. CASE RequestVoteGranted(i, m, f)
  BY <1>1, <1>2, <1>5 DEF RequestVoteGranted, Send, TypeOK, State
<1>6. CASE RequestVoteRefused(i, m)
  <2>1. msgs' \subseteq Message
    BY <1>2, <1>3, <1>6 DEF RequestVoteRefused, Send, TypeOK
  <2>2. CASE StepDown(i, m.term)
    BY <1>1, <1>6, <2>1, <2>2 DEF RequestVoteRefused, StepDown, TypeOK, State
  <2>3. CASE UNCHANGED <<currentTerm, votedFor, state, currentLeader, late>>
    BY <1>6, <2>1, <2>3 DEF RequestVoteRefused, TypeOK
  <2>4. StepDown(i, m.term) \/ UNCHANGED <<currentTerm, votedFor, state, currentLeader, late>>
    BY <1>6 DEF RequestVoteRefused
  <2> QED BY <2>2, <2>3, <2>4
<1> QED BY <1>4, <1>5, <1>6, <1>1 DEF RecvRequestVote

LEMMA RequestVoteResponseTypeOK ==
  ASSUME TypeOK, NEW m \in msgs, NEW i \in Server, RecvRequestVoteResponse(i, m)
  PROVE  TypeOK'
<1> USE DEF persistent, progress, applied
<1>1. m.src \in Server /\ m.term \in Nat
  BY MessageFields DEF TypeOK
<1>2. CASE StepDown(i, m.term) /\ UNCHANGED <<votesFor, progress, msgs, log, applied>>
  BY <1>1, <1>2 DEF StepDown, TypeOK, State
<1>3. ASSUME votesFor' = [votesFor EXCEPT ![i] = @ \cup {m.src}], BecomeLeader(i),
             UNCHANGED <<currentTerm, votedFor, log, applied>>
      PROVE  TypeOK'
  <2>1. Len(log[i]) + 1 \in Nat \ {0}
    BY LenProperties DEF TypeOK
  <2>2. \A j \in Server :
          AppendEntriesTo(i, j, log[i], Len(log[i]) + 1, commitIdx[i]) \in Message
    BY <2>1, AppendEntriesType DEF TypeOK
  <2>3. msgs' \subseteq Message
    BY <1>3, <2>2 DEF BecomeLeader, Send, TypeOK
  <2>4. nextIdx' \in [Server -> [Server -> Nat \ {0}]]
    BY <1>3, <2>1 DEF BecomeLeader, TypeOK
  <2>5. matchIdx' \in [Server -> [Server -> Nat]]
    BY <1>3 DEF BecomeLeader, TypeOK
  <2>6. votesFor' \in [Server -> SUBSET Server]
    BY <1>1, <1>3 DEF TypeOK
  <2>7. /\ state' \in [Server -> State]
        /\ currentLeader' \in [Server -> Server \cup {Nil}]
        /\ late' \in [Server -> BOOLEAN]
    BY <1>3 DEF BecomeLeader, TypeOK, State
  <2> QED BY <1>3, <2>3, <2>4, <2>5, <2>6, <2>7 DEF TypeOK
<1>4. CASE votesFor' = [votesFor EXCEPT ![i] = @ \cup {m.src}]
           /\ UNCHANGED <<state, currentLeader, late, progress, msgs, currentTerm, votedFor,
                          log, applied>>
  BY <1>1, <1>4 DEF TypeOK
<1> QED BY <1>2, <1>3, <1>4 DEF RecvRequestVoteResponse

LEMMA AppendEntriesTypeOK ==
  ASSUME TypeOK, NEW m \in msgs, NEW i \in Server, NEW f \in Fault, RecvAppendEntries(i, m, f)
  PROVE  TypeOK'
<1> USE DEF persistent, progress, applied
<1>1. /\ m \in Message /\ m.src \in Server /\ m.term \in Nat /\ m.prevIdx \in Nat
      /\ m.entries \in Seq(Entry) /\ m.commit \in Nat
  BY MessageFields DEF TypeOK, RecvAppendEntries
<1>2. \A t \in Nat, s \in BOOLEAN, k \in Nat : AppendReply(i, m, t, s, k) \in Message
  BY <1>1 DEF AppendReply, Message, AppendEntriesResponseMsg
<1>3. /\ log[i] \in Seq(Entry) /\ Len(log[i]) \in Nat /\ Len(m.entries) \in Nat
      /\ currentTerm[i] \in Nat /\ commitIdx[i] \in Nat
  BY <1>1, LenProperties DEF TypeOK
<1>4. NumPresent(m, log[i]) \in 0 .. Len(m.entries)
  BY <1>3, NumPresentType
<1>5. \A k \in 0 .. Len(log[i]) : Prefix(log[i], k) \in Seq(Entry)
  BY <1>3, SubSeqOfLog DEF Prefix
<1>6. FollowLeader(i, m) =>
        /\ currentTerm' \in [Server -> Nat]
        /\ votedFor' \in [Server -> Server \cup {Nil}]
        /\ state' \in [Server -> State]
        /\ currentLeader' \in [Server -> Server \cup {Nil}]
        /\ late' \in [Server -> BOOLEAN]
  <2> SUFFICES ASSUME FollowLeader(i, m)
               PROVE  /\ currentTerm' \in [Server -> Nat]
                      /\ votedFor' \in [Server -> Server \cup {Nil}]
                      /\ state' \in [Server -> State]
                      /\ currentLeader' \in [Server -> Server \cup {Nil}]
                      /\ late' \in [Server -> BOOLEAN]
    OBVIOUS
  <2>1. currentTerm' \in [Server -> Nat]
    BY <1>1 DEF FollowLeader, TypeOK
  <2>2. votedFor' \in [Server -> Server \cup {Nil}]
    BY DEF FollowLeader, TypeOK
  <2>3. state' \in [Server -> State]
    BY DEF FollowLeader, TypeOK, State
  <2>4. currentLeader' \in [Server -> Server \cup {Nil}] /\ late' \in [Server -> BOOLEAN]
    BY <1>1 DEF FollowLeader, TypeOK
  <2> QED BY <2>1, <2>2, <2>3, <2>4
<1>7. ASSUME log' \in [Server -> Seq(Entry)], commitIdx' \in [Server -> Nat],
             msgs' \subseteq Message, FollowLeader(i, m)
      PROVE  TypeOK'
  BY <1>6, <1>7 DEF RecvAppendEntries, TypeOK
<1>8. \A ms : ms \subseteq Message /\ Send(ms) => msgs' \subseteq Message
  BY DEF Send, TypeOK
<1>9. CASE AppendEntriesStale(i, m)
  <2>1. msgs' \subseteq Message
    BY <1>2, <1>3, <1>8, <1>9 DEF AppendEntriesStale
  <2> QED BY <1>9, <2>1 DEF AppendEntriesStale, RecvAppendEntries, TypeOK
<1>10. CASE AppendEntriesMissing(i, m)
  <2>1. msgs' \subseteq Message
    BY <1>1, <1>2, <1>3, <1>8, <1>10 DEF AppendEntriesMissing
  <2> QED BY <1>7, <1>10, <2>1 DEF AppendEntriesMissing, TypeOK
<1>11. CASE AppendEntriesPrevConflict(i, m, f)
  <2>1. m.prevIdx \in 1 .. Len(log[i])
    BY <1>11 DEF AppendEntriesPrevConflict, PrevConflicts
  <2>2. \A k \in m.prevIdx - 1 .. Len(log[i]) : Prefix(log[i], k) \in Seq(Entry)
    BY <1>3, <1>5, <2>1
  <2>3. log' \in [Server -> Seq(Entry)]
    <3>1. PICK k \in m.prevIdx - 1 .. Len(log[i]) : log' = [log EXCEPT ![i] = Prefix(@, k)]
      BY <1>3, <1>11, <2>1 DEF AppendEntriesPrevConflict
    <3> QED BY <2>2, <3>1 DEF TypeOK
  <2>4. msgs' \subseteq Message
    <3>1. AppendReply(i, m, m.term, FALSE, m.prevIdx - 1) \in Message
      <4>1. m.prevIdx - 1 \in Nat
        BY <1>3, <2>1
      <4> QED BY <1>1, <1>2, <4>1
    <3> QED BY <1>8, <1>11, <3>1 DEF AppendEntriesPrevConflict, TypeOK
  <2> QED BY <1>7, <1>11, <2>3, <2>4 DEF AppendEntriesPrevConflict, TypeOK
<1>12. CASE AppendEntriesShutdown(i, m)
  BY <1>7, <1>12 DEF AppendEntriesShutdown, TypeOK
<1>13. \A n \in 0 .. Len(m.entries) :
         m.prevIdx <= Len(log[i]) => Merge(m, log[i], n) \in Seq(Entry)
  BY <1>1, <1>3, MergeType
<1>14. CASE AppendEntriesAccept(i, m)
  <2>1. Merge(m, log[i], Len(m.entries)) \in Seq(Entry)
    BY <1>1, <1>3, <1>13, <1>14 DEF AppendEntriesAccept, PrevMissing
  <2>2. log' \in [Server -> Seq(Entry)]
    BY <1>14, <2>1 DEF AppendEntriesAccept, TypeOK
  <2>3. FollowedCommit(i, m, log'[i]) \in Nat
    <3>1. Len(log'[i]) \in Nat
      BY <2>2, LenProperties
    <3> QED BY <1>1, <1>3, <3>1 DEF FollowedCommit, Smaller, Larger
  <2>4. commitIdx' \in [Server -> Nat]
    BY <1>14, <2>3 DEF AppendEntriesAccept, TypeOK
  <2>5. msgs' \subseteq Message
    <3>1. AppendReply(i, m, m.term, TRUE, m.prevIdx + Len(m.entries)) \in Message
      <4>1. m.prevIdx + Len(m.entries) \in Nat
        BY <1>1, <1>3
      <4> QED BY <1>1, <1>2, <4>1
    <3> QED BY <1>8, <1>14, <3>1 DEF AppendEntriesAccept
  <2> QED BY <1>7, <1>14, <2>2, <2>4, <2>5 DEF AppendEntriesAccept
<1>15. CASE AppendEntriesAcceptFails(i, m)
  <2>1. m.prevIdx <= Len(log[i])
    BY <1>1, <1>3, <1>15 DEF AppendEntriesAcceptFails, PrevMissing
  <2>2. ASSUME \E n \in NumPresent(m, log[i]) + 1 .. Len(m.entries) - 1 :
               log' = [log EXCEPT ![i] = Merge(m, @, n)]
        PROVE  log' \in [Server -> Seq(Entry)]
    <3>1. PICK n \in NumPresent(m, log[i]) + 1 .. Len(m.entries) - 1 :
                 log' = [log EXCEPT ![i] = Merge(m, @, n)]
      BY <2>2
    <3>2. Merge(m, log[i], n) \in Seq(Entry)
      BY <1>3, <1>4, <1>13, <2>1
    <3> QED BY <3>1, <3>2 DEF TypeOK
  <2>3. ASSUME \E k \in m.prevIdx + NumPresent(m, log[i]) .. Len(log[i]) :
               log' = [log EXCEPT ![i] = Prefix(@, k)]
        PROVE  log' \in [Server -> Seq(Entry)]
    <3>1. PICK k \in m.prevIdx + NumPresent(m, log[i]) .. Len(log[i]) :
                 log' = [log EXCEPT ![i] = Prefix(@, k)]
      BY <2>3
    <3>2. Prefix(log[i], k) \in Seq(Entry)
      BY <1>1, <1>3, <1>4, <1>5
    <3> QED BY <3>1, <3>2 DEF TypeOK
  <2>4. log' \in [Server -> Seq(Entry)]
    <3>1. \/ \E n \in NumPresent(m, log[i]) + 1 .. Len(m.entries) - 1 :
               log' = [log EXCEPT ![i] = Merge(m, @, n)]
          \/ \E k \in m.prevIdx + NumPresent(m, log[i]) .. Len(log[i]) :
               log' = [log EXCEPT ![i] = Prefix(@, k)]
      BY <1>15 DEF AppendEntriesAcceptFails
    <3> QED BY <2>2, <2>3, <3>1
  <2> QED BY <1>7, <1>15, <2>4 DEF AppendEntriesAcceptFails, TypeOK
<1> QED BY <1>9, <1>10, <1>11, <1>12, <1>14, <1>15 DEF RecvAppendEntries

LEMMA AppendEntriesResponseTypeOK ==
  ASSUME TypeOK, NEW m \in msgs, NEW i \in Server, RecvAppendEntriesResponse(i, m)
  PROVE  TypeOK'
<1> USE DEF persistent, progress, applied
<1>1. m.src \in Server /\ m.term \in Nat /\ m.idx \in Nat
  BY MessageFields DEF TypeOK, RecvAppendEntriesResponse
<1>2. log[i] \in Seq(Entry) /\ Len(log[i]) \in Nat /\ commitIdx[i] \in Nat
  BY LenProperties DEF TypeOK
<1>3. CASE StepDown(i, m.term) /\ UNCHANGED <<nextIdx, matchIdx, commitIdx, msgs>>
  BY <1>1, <1>3 DEF RecvAppendEntriesResponse, StepDown, TypeOK, State
<1>4. CASE AppendRefused(i, m)
           /\ UNCHANGED <<currentTerm, votedFor, state, currentLeader, late>>
  <2>1. NextAfterRefusal(i, m) \in Nat \ {0}
    <3>1. nextIdx[i][m.src] \in Nat \ {0}
      BY <1>1 DEF TypeOK
    <3> QED BY <1>1, <1>2, <3>1 DEF NextAfterRefusal, Larger, Smaller
  <2>2. nextIdx' \in [Server -> [Server -> Nat \ {0}]] /\ nextIdx'[i][m.src] \in Nat \ {0}
    BY <1>1, <1>4, <2>1 DEF AppendRefused, TypeOK
  <2>3. msgs' \subseteq Message
    <3>1. AppendEntriesTo(i, m.src, log[i], nextIdx'[i][m.src], commitIdx[i]) \in Message
      BY <1>1, <1>2, <2>2, AppendEntriesType
    <3> QED BY <1>4, <3>1 DEF AppendRefused, Send, TypeOK
  <2> QED BY <1>4, <2>2, <2>3 DEF AppendRefused, RecvAppendEntriesResponse, TypeOK
<1>5. CASE AppendAccepted(i, m)
           /\ UNCHANGED <<currentTerm, votedFor, state, currentLeader, late>>
  <2>1. nextIdx' \in [Server -> [Server -> Nat \ {0}]]
    <3>1. m.idx + 1 \in Nat \ {0}
      BY <1>1
    <3> QED BY <1>1, <1>5, <3>1 DEF AppendAccepted, TypeOK
  <2>2. matchIdx' \in [Server -> [Server -> Nat]]
    BY <1>1, <1>5 DEF AppendAccepted, TypeOK
  <2>3. commitIdx' \in [Server -> Nat] /\ commitIdx'[i] \in Nat
    BY <1>1, <1>5 DEF AppendAccepted, TypeOK
  <2>4. AppendEntriesTo(i, m.src, log[i], m.idx + 1, commitIdx'[i]) \in Message
    BY <1>1, <1>2, <2>3, AppendEntriesType
  <2>5. msgs' \subseteq Message
    BY <1>5, <2>4 DEF AppendAccepted, Send, TypeOK
  <2> QED BY <1>5, <2>1, <2>2, <2>3, <2>5 DEF RecvAppendEntriesResponse, TypeOK
<1> QED BY <1>3, <1>4, <1>5 DEF RecvAppendEntriesResponse

LEMMA RecvEntryTypeOK ==
  ASSUME TypeOK, NEW i \in Server, NEW v \in Value, RecvEntry(i, v)
  PROVE  TypeOK'
<1> USE DEF persistent, progress, applied
<1>1. [term |-> currentTerm[i], value |-> v] \in Entry
  BY DEF Entry, TypeOK
<1>2. Append(log[i], [term |-> currentTerm[i], value |-> v]) \in Seq(Entry)
  BY <1>1, AppendProperties DEF TypeOK
<1>3. log' \in [Server -> Seq(Entry)]
  BY <1>2 DEF RecvEntry, TypeOK
<1>4. \A j \in Server :
        AppendEntriesTo(i, j, log'[i], nextIdx[i][j], commitIdx[i]) \in Message
  BY <1>3, AppendEntriesType DEF TypeOK
<1>5. msgs' \subseteq Message
  BY <1>4 DEF RecvEntry, Send, TypeOK
<1> QED BY <1>3, <1>5 DEF RecvEntry, TypeOK

LEMMA NextTypeOK == TypeOK /\ [Next]_vars => TypeOK'
<1> SUFFICES ASSUME TypeOK, [Next]_vars PROVE TypeOK'
  OBVIOUS
<1>1. CASE \E i \in Server, f \in Fault : Periodic(i, f)
  BY <1>1, PeriodicTypeOK
<1>2. CASE \E m \in Arriving, f \in Fault : Receive(m, f)
  <2>1. PICK m \in Arriving, f \in Fault : Receive(m, f)
    BY <1>2
  <2>2. m \in msgs /\ m.dst \in Server
    BY MessageFields DEF Arriving, TypeOK
  <2> QED BY <2>1, <2>2, RequestVoteTypeOK, RequestVoteResponseTypeOK, AppendEntriesTypeOK,
             AppendEntriesResponseTypeOK DEF Receive
<1>3. CASE \E i \in Server, v \in Value : RecvEntry(i, v)
  BY <1>3, RecvEntryTypeOK
<1>4. CASE \E i \in Crashing : Restart(i)
  <2>1. PICK i \in Server : Restart(i)
    BY <1>4, BoundsAssumption
  <2>2. /\ nextIdx' \in [Server -> [Server -> Nat \ {0}]]
        /\ matchIdx' \in [Server -> [Server -> Nat]]
    BY <2>1 DEF Restart, TypeOK
  <2>3. /\ state' \in [Server -> State]
        /\ currentLeader' \in [Server -> Server \cup {Nil}]
        /\ late' \in [Server -> BOOLEAN]
        /\ votesFor' \in [Server -> SUBSET Server]
    BY <2>1 DEF Restart, TypeOK, State
  <2>4. commitIdx' \in [Server -> Nat] /\ lastApplied' \in [Server -> Nat]
    BY <2>1 DEF Restart, TypeOK
  <2> QED BY <2>1, <2>2, <2>3, <2>4 DEF Restart, persistent, TypeOK
<1>5. CASE UNCHANGED vars
  BY <1>5 DEF vars, TypeOK
<1> QED BY <1>1, <1>2, <1>3, <1>4, <1>5 DEF Next

\* The state of every server and every message stays well formed: no handler
\* of raft_server.c takes an index below 1, a term or a vote out of range.
THEOREM TypeCorrect == Spec => []TypeOK
<1> QED BY InitTypeOK, NextTypeOK, PTL DEF Spec

----------------------------------------------------------------------------
(* Election safety.  The votes that are out: a granted answer, once sent, is
   never taken back. *)
Granted == {m \in msgs : m.type = "RequestVoteResponse" /\ m.granted}

\* A server stands by its answers: its term never falls below one it voted in,
\* and in that term its vote is the one it answered with.
VotesHonoured ==
  \A m \in Granted :
    /\ m.term <= currentTerm[m.src]
    /\ m.term = currentTerm[m.src] => votedFor[m.src] = m.dst

\* One answer in a term, whatever became of the voter since.
VotesUnique ==
  \A m, n \in Granted : m.src = n.src /\ m.term = n.term => m.dst = n.dst

\* A candidate or a leader voted for itself, or its vote was not saved.
OwnVote == \A i \in Server : state[i] # "follower" => votedFor[i] \in {i, Nil}

\* The flags of the nodes stand for answers of this term.
FlagsEarned ==
  \A i \in Server : state[i] # "follower" =>
    \A v \in votesFor[i] \ {i} :
      \E m \in Granted : m.src = v /\ m.dst = i /\ m.term = currentTerm[i]

\* A leader still has the votes that made it one.
LeaderElected ==
  \A i \in Server : state[i] = "leader" => Majority(Cardinality(VotesForMe(i, votesFor[i])))

ElectionInv ==
  TypeOK /\ VotesHonoured /\ VotesUnique /\ OwnVote /\ FlagsEarned /\ LeaderElected

\* raft_votes_is_majority: any two majorities share a server.
LEMMA MajoritiesMeet ==
  ASSUME NEW P \in SUBSET Server, NEW Q \in SUBSET Server,
         Majority(Cardinality(P)), Majority(Cardinality(Q))
  PROVE  P \cap Q # {}
<1>1. Cardinality(Server) \in Nat /\ Cardinality(P) \in Nat /\ Cardinality(Q) \in Nat
  BY ServerAssumption, FS_CardinalityType, FS_Subset
<1>2. Cardinality(P) + Cardinality(Q) > Cardinality(Server)
  BY <1>1 DEF Majority
<1> QED BY <1>2, ServerAssumption, FS_MajoritiesIntersect

LEMMA ElectionInvImpliesSafety == ElectionInv => ElectionSafety
<1> SUFFICES ASSUME ElectionInv, NEW i \in Server, NEW j \in Server,
                    state[i] = "leader", state[j] = "leader",
                    currentTerm[i] = currentTerm[j], i # j
             PROVE  FALSE
  BY DEF ElectionSafety
<1> DEFINE P == VotesForMe(i, votesFor[i])
           Q == VotesForMe(j, votesFor[j])
<1>1. P \in SUBSET Server /\ Q \in SUBSET Server
  BY DEF ElectionInv, TypeOK, VotesForMe
<1>2. Majority(Cardinality(P)) /\ Majority(Cardinality(Q))
  BY DEF ElectionInv, LeaderElected
<1>3. PICK v \in Server : v \in P /\ v \in Q
  BY <1>1, <1>2, MajoritiesMeet
<1>4. CASE v # i /\ v # j
  <2>1. v \in votesFor[i] \ {i} /\ v \in votesFor[j] \ {j}
    BY <1>3, <1>4 DEF VotesForMe
  <2>2. PICK m \in Granted : m.src = v /\ m.dst = i /\ m.term = currentTerm[i]
    BY <2>1 DEF ElectionInv, FlagsEarned
  <2>3. PICK n \in Granted : n.src = v /\ n.dst = j /\ n.term = currentTerm[j]
    BY <2>1 DEF ElectionInv, FlagsEarned
  <2> QED BY <2>2, <2>3 DEF ElectionInv, VotesUnique
<1>5. CASE v = i
  <2>1. votedFor[i] = i /\ i \in votesFor[j] \ {j}
    BY <1>3, <1>5 DEF VotesForMe
  <2>2. PICK n \in Granted : n.src = i /\ n.dst = j /\ n.term = currentTerm[j]
    BY <2>1 DEF ElectionInv, FlagsEarned
  <2> QED BY <2>1, <2>2 DEF ElectionInv, VotesHonoured
<1>6. CASE v = j
  <2>1. votedFor[j] = j /\ j \in votesFor[i] \ {i}
    BY <1>3, <1>6 DEF VotesForMe
  <2>2. PICK n \in Granted : n.src = j /\ n.dst = i /\ n.term = currentTerm[i]
    BY <2>1 DEF ElectionInv, FlagsEarned
  <2> QED BY <2>1, <2>2 DEF ElectionInv, VotesHonoured
<1> QED BY <1>4, <1>5, <1>6

LEMMA InitElectionInv == Init => ElectionInv
<1> SUFFICES ASSUME Init PROVE ElectionInv
  OBVIOUS
<1>1. Granted = {}
  BY DEF Init, Granted
<1>2. \A i \in Server : state[i] = "follower"
  BY DEF Init
<1> QED BY <1>1, <1>2, InitTypeOK
       DEF ElectionInv, VotesHonoured, VotesUnique, OwnVote, FlagsEarned, LeaderElected

\* What every step that changes the term, vote or office of a server i comes to:
\* it becomes a follower or a fresh candidate of a term not below its own, a vote
\* once cast in a term stays, and an answer it gives is for its vote.
LEMMA OneServerMoves ==
  ASSUME ElectionInv, TypeOK', Granted \subseteq Granted', NEW i \in Server,
         \A k \in Server \ {i} :
           /\ currentTerm'[k] = currentTerm[k] /\ votedFor'[k] = votedFor[k]
           /\ state'[k] = state[k] /\ votesFor'[k] = votesFor[k],
         currentTerm[i] <= currentTerm'[i],
         currentTerm'[i] = currentTerm[i] => votedFor[i] \in {Nil, votedFor'[i]},
         \A n \in Granted' \ Granted :
           n.src = i /\ n.term = currentTerm'[i] /\ n.dst = votedFor'[i],
         \/ state'[i] = "follower"
         \/ state'[i] = "candidate" /\ votedFor'[i] \in {i, Nil} /\ votesFor'[i] = {}
  PROVE  ElectionInv'
<1>1. \A m \in Granted : m.src \in Server /\ m.dst \in Server /\ m.term \in Nat
  BY MessageFields DEF ElectionInv, TypeOK, Granted
<1>2. currentTerm[i] \in Nat /\ currentTerm'[i] \in Nat
  BY DEF ElectionInv, TypeOK
<1>3. \A m \in Granted' : m.src = i =>
        m.term <= currentTerm'[i] /\ (m.term = currentTerm'[i] => m.dst = votedFor'[i])
  <2> SUFFICES ASSUME NEW m \in Granted', m.src = i
               PROVE  m.term <= currentTerm'[i]
                        /\ (m.term = currentTerm'[i] => m.dst = votedFor'[i])
    OBVIOUS
  <2>1. CASE m \in Granted' \ Granted
    BY <1>2, <2>1
  <2>2. CASE m \in Granted
    <3>1. /\ m.dst \in Server /\ m.term \in Nat /\ m.term <= currentTerm[i]
          /\ m.term = currentTerm[i] => votedFor[i] = m.dst
      BY <1>1, <2>2 DEF ElectionInv, VotesHonoured
    <3> QED BY <1>2, <3>1, NilAssumption
  <2> QED BY <2>1, <2>2
<1>4. VotesHonoured'
  <2> SUFFICES ASSUME NEW m \in Granted'
               PROVE  /\ m.term <= currentTerm'[m.src]
                      /\ m.term = currentTerm'[m.src] => votedFor'[m.src] = m.dst
    BY DEF VotesHonoured
  <2>1. CASE m.src = i
    BY <1>3, <2>1
  <2>2. CASE m.src # i
    <3>1. m \in Granted /\ m.src \in Server \ {i}
      BY <1>1, <2>2
    <3>2. currentTerm'[m.src] = currentTerm[m.src] /\ votedFor'[m.src] = votedFor[m.src]
      BY <3>1
    <3> QED BY <3>1, <3>2 DEF ElectionInv, VotesHonoured
  <2> QED BY <2>1, <2>2
<1>5. VotesUnique'
  <2> SUFFICES ASSUME NEW m \in Granted', NEW n \in Granted', m.src = n.src, m.term = n.term
               PROVE  m.dst = n.dst
    BY DEF VotesUnique
  <2>1. CASE m \in Granted /\ n \in Granted
    BY <2>1 DEF ElectionInv, VotesUnique
  <2>2. CASE m \notin Granted \/ n \notin Granted
    <3>1. m.src = i /\ m.term = currentTerm'[i]
      BY <2>2
    <3> QED BY <1>3, <3>1
  <2> QED BY <2>1, <2>2
<1>6. OwnVote'
  BY DEF ElectionInv, OwnVote
<1>7. FlagsEarned'
  BY DEF ElectionInv, FlagsEarned
<1>8. LeaderElected'
  BY DEF ElectionInv, LeaderElected, VotesForMe, Majority
<1> QED BY <1>4, <1>5, <1>6, <1>7, <1>8 DEF ElectionInv

\* A step that touches neither terms, votes, offices nor flags.
LEMMA NoElection ==
  ASSUME ElectionInv, TypeOK', Granted' = Granted,
         UNCHANGED <<currentTerm, votedFor, state, votesFor>>
  PROVE  ElectionInv'
<1>1. VotesHonoured' /\ VotesUnique' /\ OwnVote' /\ FlagsEarned'
  BY DEF ElectionInv, VotesHonoured, VotesUnique, OwnVote, FlagsEarned
<1>2. LeaderElected'
  BY DEF ElectionInv, LeaderElected, VotesForMe, Majority
<1> QED BY <1>1, <1>2 DEF ElectionInv

LEMMA NotGranted ==
  ASSUME NEW ms, Send(ms),
         \A m \in ms : m.type = "RequestVoteResponse" => ~m.granted
  PROVE  Granted' = Granted
  BY DEF Send, Granted

LEMMA PeriodicElectionInv ==
  ASSUME ElectionInv, TypeOK', NEW i \in Server, NEW f \in Fault, Periodic(i, f)
  PROVE  ElectionInv'
<1> USE DEF persistent, progress
<1>1. CASE PeriodicLeader(i, f)
  <2>1. Granted' = Granted
    BY <1>1, NotGranted DEF PeriodicLeader, AppendEntriesTo, Granted
  <2> QED BY <1>1, <2>1, NoElection DEF PeriodicLeader
<1>2. CASE PeriodicWait(i, f)
  BY <1>2, NoElection DEF PeriodicWait, Granted
<1>3. CASE PeriodicElectionFails(i, f)
  BY <1>3, NoElection DEF PeriodicElectionFails, Granted
<1>4. CASE PeriodicElection(i, f)
  <2>1. Granted' = Granted
    BY <1>4, NotGranted DEF PeriodicElection, BecomeCandidate
  <2>2. /\ currentTerm[i] \in Nat /\ currentTerm'[i] = currentTerm[i] + 1
        /\ votedFor'[i] \in {i, Nil} /\ state'[i] = "candidate" /\ votesFor'[i] = {}
    BY <1>4 DEF PeriodicElection, BecomeCandidate, ElectionInv, TypeOK
  <2>3. \A k \in Server \ {i} :
          /\ currentTerm'[k] = currentTerm[k] /\ votedFor'[k] = votedFor[k]
          /\ state'[k] = state[k] /\ votesFor'[k] = votesFor[k]
    BY <1>4 DEF PeriodicElection, BecomeCandidate, ElectionInv, TypeOK
  <2> QED BY <2>1, <2>2, <2>3, OneServerMoves
<1> QED BY <1>1, <1>2, <1>3, <1>4 DEF Periodic

LEMMA StepDownElectionInv ==
  ASSUME ElectionInv, TypeOK', NEW i \in Server, NEW t \in Nat, currentTerm[i] < t,
         StepDown(i, t), UNCHANGED votesFor, Granted' = Granted
  PROVE  ElectionInv'
<1>1. currentTerm[i] \in Nat /\ currentTerm'[i] = t /\ state'[i] = "follower"
  BY DEF StepDown, ElectionInv, TypeOK
<1>2. \A k \in Server \ {i} :
        /\ currentTerm'[k] = currentTerm[k] /\ votedFor'[k] = votedFor[k]
        /\ state'[k] = state[k] /\ votesFor'[k] = votesFor[k]
  BY DEF StepDown, ElectionInv, TypeOK
<1> QED BY <1>1, <1>2, OneServerMoves

LEMMA RequestVoteElectionInv ==
  ASSUME ElectionInv, TypeOK', NEW m \in msgs, NEW i \in Server, NEW f \in Fault,
         RecvRequestVote(i, m, f)
  PROVE  ElectionInv'
<1> USE DEF persistent, progress
<1>1. m.src \in Server /\ m.term \in Nat /\ currentTerm[i] \in Nat
  BY MessageFields DEF ElectionInv, TypeOK
<1>2. CASE RequestVoteIgnored(i, m)
  <2>1. Granted' = Granted
    BY <1>2, NotGranted DEF RequestVoteIgnored, VoteReply
  <2> QED BY <1>2, <2>1, NoElection DEF RequestVoteIgnored
<1>3. CASE RequestVoteRefused(i, m)
  <2>1. Granted' = Granted
    BY <1>3, NotGranted DEF RequestVoteRefused, VoteReply
  <2>2. CASE currentTerm[i] < m.term /\ StepDown(i, m.term)
    BY <1>1, <1>3, <2>1, <2>2, StepDownElectionInv DEF RequestVoteRefused
  <2>3. CASE UNCHANGED <<currentTerm, votedFor, state, currentLeader, late>>
    BY <1>3, <2>1, <2>3, NoElection DEF RequestVoteRefused
  <2> QED BY <1>3, <2>2, <2>3 DEF RequestVoteRefused
<1>4. CASE RequestVoteGranted(i, m, f)
  <2>1. /\ currentTerm[i] <= m.term
        /\ currentTerm[i] = m.term => votedFor[i] = Nil
    BY <1>1, <1>4 DEF RequestVoteGranted, ShouldGrantVote
  <2>2. /\ currentTerm'[i] = m.term /\ state'[i] = "follower"
        /\ \A k \in Server \ {i} :
             /\ currentTerm'[k] = currentTerm[k] /\ votedFor'[k] = votedFor[k]
             /\ state'[k] = state[k] /\ votesFor'[k] = votesFor[k]
    BY <1>4 DEF RequestVoteGranted, ElectionInv, TypeOK
  <2>3. CASE f = "vote"
    <3>1. Granted' = Granted
      BY <1>4, <2>3, NotGranted DEF RequestVoteGranted
    <3> QED BY <2>1, <2>2, <3>1, OneServerMoves
  <2>4. CASE f # "vote"
    <3>1. Granted' = Granted \cup {VoteReply(i, m, m.term, TRUE)}
      BY <1>4, <2>4 DEF RequestVoteGranted, Send, Granted, VoteReply
    <3>2. votedFor'[i] = m.src
      BY <1>4, <2>4 DEF RequestVoteGranted, ElectionInv, TypeOK
    <3>3. \A n \in Granted' \ Granted :
            n.src = i /\ n.term = currentTerm'[i] /\ n.dst = votedFor'[i]
      BY <2>2, <3>1, <3>2 DEF VoteReply
    <3> QED BY <2>1, <2>2, <3>1, <3>3, OneServerMoves
  <2> QED BY <2>3, <2>4
<1> QED BY <1>2, <1>3, <1>4 DEF RecvRequestVote

LEMMA RequestVoteResponseElectionInv ==
  ASSUME ElectionInv, TypeOK', NEW m \in msgs, NEW i \in Server,
         RecvRequestVoteResponse(i, m), m.dst = i
  PROVE  ElectionInv'
<1> USE DEF persistent, progress, applied
<1>1. m.term \in Nat
  BY MessageFields DEF ElectionInv, TypeOK
<1>2. CASE currentTerm[i] < m.term /\ StepDown(i, m.term) /\ UNCHANGED <<votesFor, progress, msgs>>
  BY <1>1, <1>2, StepDownElectionInv DEF Granted
<1>3. ASSUME currentTerm[i] = m.term, m.granted,
             votesFor' = [votesFor EXCEPT ![i] = @ \cup {m.src}],
             IF Majority(Cardinality(VotesForMe(i, votesFor'[i])))
             THEN BecomeLeader(i)
             ELSE UNCHANGED <<state, currentLeader, late, progress, msgs>>,
             UNCHANGED <<currentTerm, votedFor>>
      PROVE  ElectionInv'
  <2>1. m \in Granted /\ state[i] = "candidate"
    BY <1>3 DEF Granted, RecvRequestVoteResponse
  <2>2. Granted' = Granted
    <3>1. CASE BecomeLeader(i)
      <4>1. Send({AppendEntriesTo(i, j, log[i], Len(log[i]) + 1, commitIdx[i]) :
                    j \in Server \ {i}})
        BY <3>1 DEF BecomeLeader
      <4>2. \A n \in {AppendEntriesTo(i, j, log[i], Len(log[i]) + 1, commitIdx[i]) :
                         j \in Server \ {i}} : n.type = "AppendEntries"
        <5>1. \A j : AppendEntriesTo(i, j, log[i], Len(log[i]) + 1, commitIdx[i]).type
                      = "AppendEntries"
          BY Zenon DEF AppendEntriesTo
        <5> QED BY <5>1, Zenon
      <4> QED BY <4>1, <4>2, NotGranted
    <3>2. CASE UNCHANGED msgs
      BY <3>2 DEF Granted
    <3> QED BY <1>3, <3>1, <3>2
  <2>3. /\ \A k \in Server \ {i} : state'[k] = state[k] /\ votesFor'[k] = votesFor[k]
        /\ votesFor'[i] = votesFor[i] \cup {m.src}
        /\ state'[i] # "follower"
        /\ state'[i] = "leader" => Majority(Cardinality(VotesForMe(i, votesFor'[i])))
    <3>1. /\ state \in [Server -> State] /\ votesFor \in [Server -> SUBSET Server]
      BY DEF ElectionInv, TypeOK
    <3>2. /\ votesFor'[i] = votesFor[i] \cup {m.src}
          /\ \A k \in Server \ {i} : votesFor'[k] = votesFor[k]
      BY <1>3, <3>1
    <3>3. CASE Majority(Cardinality(VotesForMe(i, votesFor'[i]))) /\ BecomeLeader(i)
      <4>1. state' = [state EXCEPT ![i] = "leader"]
        BY <3>3 DEF BecomeLeader
      <4> QED BY <3>1, <3>2, <3>3, <4>1
    <3>4. CASE state' = state
      BY <2>1, <3>2, <3>4
    <3> QED BY <1>3, <3>3, <3>4
  <2>4. VotesHonoured' /\ VotesUnique'
    BY <1>3, <2>2 DEF ElectionInv, VotesHonoured, VotesUnique
  <2>5. OwnVote'
    BY <1>3, <2>1, <2>3 DEF ElectionInv, OwnVote
  <2>6. FlagsEarned'
    BY <1>3, <2>1, <2>2, <2>3 DEF ElectionInv, FlagsEarned
  <2>7. LeaderElected'
    BY <1>3, <2>3 DEF ElectionInv, LeaderElected, VotesForMe, Majority
  <2> QED BY <2>4, <2>5, <2>6, <2>7 DEF ElectionInv
<1> QED BY <1>2, <1>3 DEF RecvRequestVoteResponse

LEMMA AppendEntriesElectionInv ==
  ASSUME ElectionInv, TypeOK', NEW m \in msgs, NEW i \in Server, NEW f \in Fault,
         RecvAppendEntries(i, m, f)
  PROVE  ElectionInv'
<1> USE DEF persistent, progress
<1>1. Granted' = Granted
  <2>1. CASE UNCHANGED msgs
    BY <2>1 DEF Granted
  <2>2. ASSUME NEW t, NEW s, NEW k, Send({AppendReply(i, m, t, s, k)})
        PROVE  Granted' = Granted
    BY <2>2, NotGranted DEF AppendReply
  <2> QED BY <2>1, <2>2
          DEF RecvAppendEntries, AppendEntriesStale, AppendEntriesMissing,
              AppendEntriesPrevConflict, AppendEntriesShutdown, AppendEntriesAccept,
              AppendEntriesAcceptFails
<1>2. m.term \in Nat /\ currentTerm[i] \in Nat
  BY MessageFields DEF ElectionInv, TypeOK
<1>3. CASE AppendEntriesStale(i, m)
  BY <1>1, <1>3, NoElection DEF RecvAppendEntries, AppendEntriesStale
<1>4. CASE FollowLeader(i, m)
  <2>1. /\ currentTerm'[i] = m.term /\ currentTerm[i] <= m.term
        /\ \A k \in Server \ {i} :
             /\ currentTerm'[k] = currentTerm[k] /\ votedFor'[k] = votedFor[k]
             /\ state'[k] = state[k] /\ votesFor'[k] = votesFor[k]
        /\ votesFor' = votesFor
        /\ currentTerm[i] = m.term => votedFor' = votedFor
    <3>1. votesFor' = votesFor
      BY DEF RecvAppendEntries
    <3>2. currentTerm'[i] = m.term /\ currentTerm[i] <= m.term
      BY <1>2, <1>4 DEF FollowLeader, ElectionInv, TypeOK
    <3>3. ASSUME NEW k \in Server \ {i}
          PROVE  currentTerm'[k] = currentTerm[k] /\ votedFor'[k] = votedFor[k] /\ state'[k] = state[k]
      BY <1>4 DEF FollowLeader, ElectionInv, TypeOK
    <3>4. currentTerm[i] = m.term => votedFor' = votedFor
      <4>1. SUFFICES ASSUME currentTerm[i] = m.term PROVE votedFor' = votedFor
        OBVIOUS
      <4>2. currentTerm[i] \in Nat /\ votedFor = [k \in Server |-> votedFor[k]]
        BY DEF ElectionInv, TypeOK
      <4>3. votedFor' = [votedFor EXCEPT ![i] = IF currentTerm[i] < m.term THEN Nil ELSE @]
        BY <1>4 DEF FollowLeader
      <4>4. ~(currentTerm[i] < m.term)
        BY <4>1, <4>2
      <4> QED BY <4>2, <4>3, <4>4
    <3> QED BY <3>1, <3>2, <3>3, <3>4
  <2>2. CASE state'[i] = "follower"
    BY <1>1, <2>1, <2>2, OneServerMoves
  <2>3. CASE state'[i] # "follower"
    <3>1. currentTerm[i] = m.term /\ state' = state
      BY <1>2, <1>4, <2>3 DEF FollowLeader, ElectionInv, TypeOK
    <3>2. currentTerm' = currentTerm
      BY <1>4, <3>1 DEF FollowLeader, ElectionInv, TypeOK
    <3> QED BY <1>1, <2>1, <3>1, <3>2, NoElection
  <2> QED BY <2>2, <2>3
<1> QED BY <1>3, <1>4
        DEF RecvAppendEntries, AppendEntriesMissing, AppendEntriesPrevConflict,
            AppendEntriesShutdown, AppendEntriesAccept, AppendEntriesAcceptFails

LEMMA AppendEntriesResponseElectionInv ==
  ASSUME ElectionInv, TypeOK', NEW m \in msgs, NEW i \in Server,
         RecvAppendEntriesResponse(i, m)
  PROVE  ElectionInv'
<1>1. m.term \in Nat
  BY MessageFields DEF ElectionInv, TypeOK
<1>2. CASE currentTerm[i] < m.term /\ StepDown(i, m.term) /\ UNCHANGED msgs
  BY <1>1, <1>2, StepDownElectionInv DEF RecvAppendEntriesResponse, Granted
<1>3. CASE (AppendRefused(i, m) \/ AppendAccepted(i, m))
           /\ UNCHANGED <<currentTerm, votedFor, state, currentLeader, late>>
  <2>1. Granted' = Granted
    BY <1>3, NotGranted DEF AppendRefused, AppendAccepted, AppendEntriesTo
  <2> QED BY <1>3, <2>1, NoElection DEF RecvAppendEntriesResponse
<1> QED BY <1>2, <1>3 DEF RecvAppendEntriesResponse

LEMMA NextElectionInv == ElectionInv /\ [Next]_vars => ElectionInv'
<1> SUFFICES ASSUME ElectionInv, [Next]_vars PROVE ElectionInv'
  OBVIOUS
<1>1. TypeOK'
  BY NextTypeOK DEF ElectionInv
<1>2. CASE \E i \in Server, f \in Fault : Periodic(i, f)
  BY <1>1, <1>2, PeriodicElectionInv
<1>3. CASE \E m \in Arriving, f \in Fault : Receive(m, f)
  <2>1. PICK m \in Arriving, f \in Fault : Receive(m, f)
    BY <1>3
  <2>2. m \in msgs /\ m.dst \in Server
    BY MessageFields DEF Arriving, ElectionInv, TypeOK
  <2> QED BY <1>1, <2>1, <2>2, RequestVoteElectionInv, RequestVoteResponseElectionInv,
             AppendEntriesElectionInv, AppendEntriesResponseElectionInv DEF Receive
<1>4. CASE \E i \in Server, v \in Value : RecvEntry(i, v)
  <2>1. PICK i \in Server, v \in Value : RecvEntry(i, v)
    BY <1>4
  <2>2. Granted' = Granted
    BY <2>1, NotGranted DEF RecvEntry, AppendEntriesTo
  <2> QED BY <1>1, <2>1, <2>2, NoElection DEF RecvEntry
<1>5. CASE \E i \in Crashing : Restart(i)
  <2>1. PICK i \in Server : Restart(i)
    BY <1>5, BoundsAssumption
  <2>2. /\ currentTerm' = currentTerm /\ votedFor' = votedFor /\ Granted' = Granted
        /\ state'[i] = "follower"
        /\ \A k \in Server \ {i} : state'[k] = state[k] /\ votesFor'[k] = votesFor[k]
    BY <2>1 DEF Restart, persistent, Granted, ElectionInv, TypeOK
  <2>3. currentTerm[i] <= currentTerm'[i]
    BY <2>2 DEF ElectionInv, TypeOK
  <2> QED BY <1>1, <2>2, <2>3, OneServerMoves
<1>6. CASE UNCHANGED vars
  BY <1>1, <1>6, NoElection DEF vars, Granted
<1> QED BY <1>2, <1>3, <1>4, <1>5, <1>6 DEF Next

\* At most one leader in a term, for any number of servers and whatever the
\* network loses, repeats or reorders, whoever restarts, and whether or not the
\* votes could be saved: what raft_recv_requestvote and raft_become_leader are for.
THEOREM OneLeaderPerTerm == Spec => []ElectionSafety
<1>1. Spec => []ElectionInv
  BY InitElectionInv, NextElectionInv, PTL DEF Spec
<1> QED BY <1>1, ElectionInvImpliesSafety, PTL

----------------------------------------------------------------------------
(***************************************************************************)
(* First who may say what (TenureInv), from the election invariant.        *)
(***************************************************************************)
Quorums == {Q \in SUBSET Server : Majority(Cardinality(Q))}

EntriesSent == {m \in msgs : m.type = "AppendEntries"}
Requested == {m \in msgs : m.type = "RequestVote"}
Acknowledged == {m \in msgs : m.type = "AppendEntriesResponse" /\ m.success}

\* raft_become_leader sends to every other node, so that messages tell who has led.
BecameLeader(i, t) == \E m \in EntriesSent : m.src = i /\ m.term = t

\* A server that voted for itself in a term answers nobody else in it.
SelfVote(i, t) ==
  /\ t <= currentTerm[i]
  /\ t = currentTerm[i] => votedFor[i] = i
  /\ \A g \in Granted : g.src = i => g.term # t
Backs(v, i, t) ==
  \/ v = i /\ SelfVote(i, t)
  \/ \E g \in Granted : g.src = v /\ g.dst = i /\ g.term = t
Won(i, t) == \E Q \in Quorums : \A v \in Q : Backs(v, i, t)

NotToSelf == \A m \in msgs : m.src # m.dst
TermsPassed == \A m \in msgs : m.term <= currentTerm[m.src]

\* Only who won a term sends entries in it, all of them from its log, and it is
\* no candidate of that term any more.
SentByLeaders ==
  \A m \in EntriesSent :
    /\ Won(m.src, m.term)
    /\ m.term = currentTerm[m.src] => state[m.src] # "candidate"
    /\ state[m.src] = "leader" /\ m.term = currentTerm[m.src]
         => m.prevIdx + Len(m.entries) <= Len(log[m.src])

LeadersSent == \A i \in Server : state[i] = "leader" => BecameLeader(i, currentTerm[i])

\* The log of a candidate is the one it asked votes for.
RequestsTrue ==
  \A m \in Requested :
    state[m.src] = "candidate" /\ m.term = currentTerm[m.src]
      => m.lastIdx = Len(log[m.src]) /\ m.lastTerm = LastTerm(log[m.src])

VotesAsked == \A g \in Granted : \E m \in Requested : m.src = g.dst /\ m.term = g.term

\* Only entries of a leader's log are acknowledged to it.
AcksTrue ==
  \A a \in Acknowledged :
    /\ BecameLeader(a.dst, a.term)
    /\ state[a.dst] = "leader" /\ a.term = currentTerm[a.dst] => a.idx <= Len(log[a.dst])

\* next_idx stays in the leader's log, match_idx is what the node acknowledged.
ProgressTrue ==
  \A i \in Server : state[i] = "leader" =>
    \A j \in Server \ {i} :
      /\ nextIdx[i][j] <= Len(log[i]) + 1
      /\ matchIdx[i][j] > 0 =>
           \E a \in Acknowledged :
             a.src = j /\ a.dst = i /\ a.term = currentTerm[i] /\ a.idx = matchIdx[i][j]

TenureInv ==
  /\ NotToSelf /\ TermsPassed /\ SentByLeaders /\ LeadersSent
  /\ RequestsTrue /\ VotesAsked /\ AcksTrue /\ ProgressTrue

----------------------------------------------------------------------------
LEMMA QuorumsMeet ==
  ASSUME NEW P \in Quorums, NEW Q \in Quorums
  PROVE  \E v \in Server : v \in P /\ v \in Q
  BY MajoritiesMeet DEF Quorums

\* A term has one winner, whoever has crashed or moved on since.
LEMMA OneWinner ==
  ASSUME ElectionInv, NotToSelf, NEW i \in Server, NEW j \in Server, NEW t,
         Won(i, t), Won(j, t)
  PROVE  i = j
<1>1. PICK P \in Quorums : \A v \in P : Backs(v, i, t)
  BY DEF Won
<1>2. PICK Q \in Quorums : \A v \in Q : Backs(v, j, t)
  BY DEF Won
<1>3. PICK v \in Server : v \in P /\ v \in Q
  BY QuorumsMeet
<1>4. Backs(v, i, t) /\ Backs(v, j, t)
  BY <1>1, <1>2, <1>3
<1> QED BY <1>4 DEF Backs, SelfVote, ElectionInv, VotesUnique

\* A leader never hears another leader of its own term.
LEMMA NoRival ==
  ASSUME ElectionInv, TenureInv, NEW m \in msgs, m.type = "AppendEntries",
         state[m.dst] = "leader"
  PROVE  m.term # currentTerm[m.dst]
<1> SUFFICES ASSUME m.term = currentTerm[m.dst] PROVE FALSE
  OBVIOUS
<1>1. m.src \in Server /\ m.dst \in Server /\ m.src # m.dst
  BY MessageFields DEF ElectionInv, TypeOK, TenureInv, NotToSelf
<1>2. PICK n \in EntriesSent : n.src = m.dst /\ n.term = currentTerm[m.dst]
  BY <1>1 DEF TenureInv, LeadersSent, BecameLeader
<1>3. Won(m.src, m.term) /\ Won(m.dst, m.term)
  BY <1>2 DEF TenureInv, SentByLeaders, EntriesSent
<1> QED BY <1>1, <1>3, OneWinner DEF TenureInv

\* The votes behind raft_become_leader are those of a majority.
LEMMA CountedWins ==
  ASSUME ElectionInv, TenureInv, NEW i \in Server, NEW m \in Granted, m.dst = i,
         m.term = currentTerm[i], state[i] = "candidate",
         Majority(Cardinality(VotesForMe(i, votesFor[i] \cup {m.src})))
  PROVE  Won(i, currentTerm[i])
<1> DEFINE Q == VotesForMe(i, votesFor[i] \cup {m.src})
<1>1. Q \in Quorums
  BY MessageFields DEF Quorums, VotesForMe, ElectionInv, TypeOK, Granted
<1>2. ASSUME NEW v \in Q, v # i PROVE Backs(v, i, currentTerm[i])
  BY <1>2 DEF VotesForMe, ElectionInv, FlagsEarned, Backs
<1>3. ASSUME i \in Q PROVE SelfVote(i, currentTerm[i])
  <2>1. votedFor[i] = i
    BY <1>3 DEF VotesForMe
  <2>2. ASSUME NEW g \in Granted, g.src = i, g.term = currentTerm[i] PROVE FALSE
    <3>1. g.dst = i
      BY <2>1, <2>2 DEF ElectionInv, VotesHonoured
    <3> QED BY <2>2, <3>1 DEF TenureInv, NotToSelf, Granted
  <2>3. currentTerm[i] \in Nat
    BY DEF ElectionInv, TypeOK
  <2> QED BY <2>1, <2>2, <2>3 DEF SelfVote
<1> QED BY <1>1, <1>2, <1>3 DEF Won, Backs

----------------------------------------------------------------------------
(* What a step of Raft comes to for the server i that takes it. *)
OthersKept(i) ==
  \A k \in Server \ {i} :
    /\ currentTerm'[k] = currentTerm[k] /\ votedFor'[k] = votedFor[k] /\ log'[k] = log[k]
    /\ state'[k] = state[k] /\ commitIdx'[k] = commitIdx[k]
    /\ nextIdx'[k] = nextIdx[k] /\ matchIdx'[k] = matchIdx[k]

TermKept(i) ==
  /\ currentTerm[i] <= currentTerm'[i]
  /\ currentTerm'[i] = currentTerm[i] /\ votedFor[i] # Nil => votedFor'[i] = votedFor[i]

\* What it sends it sends in its new term, to others, and only as what it is.
NewMessage(i, m) ==
  /\ m.src = i /\ m.dst # i /\ m.term = currentTerm'[i]
  /\ m.type = "AppendEntries" =>
       /\ state'[i] = "leader"
       /\ \E next \in 1 .. Len(log'[i]) + 1 :
            /\ m.prevIdx = next - 1 /\ m.prevTerm = TermAt(log'[i], next - 1)
            /\ m.entries = SubSeq(log'[i], next, Len(log'[i])) /\ m.commit = commitIdx'[i]
  /\ m.type = "RequestVote" =>
       /\ state'[i] = "candidate"
       /\ m.lastIdx = Len(log'[i]) /\ m.lastTerm = LastTerm(log'[i])
  /\ m \in Granted' =>
       /\ log' = log /\ state'[i] = "follower"
       /\ \E q \in Requested : q.src = m.dst /\ q.term = m.term /\ UpToDate(q, log[i])
  /\ m \in Acknowledged' =>
       \E q \in EntriesSent :
         /\ q.src = m.dst /\ q.dst = i /\ q.term = m.term
         /\ m.idx = q.prevIdx + Len(q.entries) /\ AppendEntriesAccept(i, q)

RoleMoves(i) ==
  \/ state'[i] = "follower"
  \/ /\ state'[i] = state[i] /\ currentTerm'[i] = currentTerm[i]
     /\ log'[i] = log[i] \/ state[i] = "leader"
  \/ state'[i] = "candidate" /\ currentTerm[i] < currentTerm'[i] /\ log'[i] = log[i]
  \/ /\ state[i] = "candidate" /\ state'[i] = "leader"
     /\ currentTerm'[i] = currentTerm[i] /\ log'[i] = log[i]
     /\ Won(i, currentTerm[i]) /\ BecameLeader(i, currentTerm[i])'

\* The entries of m that come to the log, or what log_pop leaves of it.
Rewritten(i, m) ==
  /\ ~PrevMissing(m, log[i]) /\ ~CommittedConflict(i, m)
  /\ \/ /\ PrevConflicts(m, log[i])
        /\ \E k \in m.prevIdx - 1 .. Len(log[i]) : log'[i] = Prefix(log[i], k)
     \/ /\ ~PrevConflicts(m, log[i])
        /\ \E n \in 0 .. Len(m.entries) : log'[i] = Merge(m, log[i], n)
     \/ /\ ~PrevConflicts(m, log[i]) /\ NumPresent(m, log[i]) < Len(m.entries)
        /\ \E k \in m.prevIdx + NumPresent(m, log[i]) .. Len(log[i]) :
             log'[i] = Prefix(log[i], k)

LogMoves(i) ==
  \/ log' = log
  \/ /\ state[i] = "leader" /\ state'[i] = "leader" /\ currentTerm' = currentTerm
     /\ \E v \in Value : log'[i] = Append(log[i], [term |-> currentTerm[i], value |-> v])
  \/ \E m \in EntriesSent :
       /\ m.dst = i /\ currentTerm[i] <= m.term /\ currentTerm'[i] = m.term
       /\ Rewritten(i, m)

ProgressMoves(i) ==
  state'[i] = "leader" => \A j \in Server \ {i} :
    /\ nextIdx'[i][j] <= Len(log'[i]) + 1
    /\ matchIdx'[i][j] > 0 =>
         \E a \in Acknowledged :
           a.src = j /\ a.dst = i /\ a.term = currentTerm'[i] /\ a.idx = matchIdx'[i][j]

Effects(i) ==
  /\ OthersKept(i) /\ TermKept(i) /\ RoleMoves(i) /\ LogMoves(i) /\ ProgressMoves(i)
  /\ msgs \subseteq msgs' /\ \A m \in msgs' \ msgs : NewMessage(i, m)

\* A message made by raft_send_appendentries is from the log of its sender.
LEMMA SentFromLog ==
  ASSUME ElectionInv, NEW i \in Server, NEW j \in Server \ {i}, NEW next \in Nat \ {0},
         next <= Len(log'[i]) + 1, state'[i] = "leader", currentTerm' = currentTerm,
         log'[i] \in Seq(Entry),
         NEW m, m = AppendEntriesTo(i, j, log'[i], next, commitIdx'[i])
  PROVE  NewMessage(i, m)
<1>1. Len(log'[i]) \in Nat
  BY LenProperties
<1>2. /\ m.type = "AppendEntries" /\ m.src = i /\ m.dst = j /\ m.term = currentTerm[i]
      /\ m.prevIdx = next - 1 /\ m.prevTerm = TermAt(log'[i], next - 1)
      /\ m.entries = SubSeq(log'[i], next, Len(log'[i])) /\ m.commit = commitIdx'[i]
  BY <1>1 DEF AppendEntriesTo
<1>3. m \notin Granted' /\ m \notin Acknowledged'
  BY <1>2 DEF Granted, Acknowledged
<1>4. next \in 1 .. Len(log'[i]) + 1
  BY <1>1
<1> QED BY <1>2, <1>3, <1>4 DEF NewMessage

\* A refusal says nothing but the term.
LEMMA Refusal ==
  ASSUME NEW i, NEW m, m.src = i, m.dst # i, m.term = currentTerm'[i],
         m.type \in {"RequestVoteResponse", "AppendEntriesResponse"},
         m.type = "RequestVoteResponse" => ~m.granted,
         m.type = "AppendEntriesResponse" => ~m.success,
         Send({m})
  PROVE  msgs \subseteq msgs' /\ \A n \in msgs' \ msgs : NewMessage(i, n)
<1>1. m.type # "AppendEntries" /\ m.type # "RequestVote" /\ m \notin Granted' /\ m \notin Acknowledged'
  BY DEF Granted, Acknowledged
<1>2. NewMessage(i, m)
  BY <1>1 DEF NewMessage
<1> QED BY <1>2 DEF Send

LEMMA NothingMoves ==
  ASSUME ElectionInv, TenureInv, NEW i \in Server,
         UNCHANGED <<currentTerm, votedFor, log, state, nextIdx, matchIdx>>
  PROVE  TermKept(i) /\ RoleMoves(i) /\ ProgressMoves(i)
<1>1. currentTerm[i] \in Nat
  BY DEF ElectionInv, TypeOK
<1>2. TermKept(i) /\ RoleMoves(i)
  BY <1>1 DEF TermKept, RoleMoves
<1>3. ProgressMoves(i)
  BY DEF ProgressMoves, TenureInv, ProgressTrue
<1> QED BY <1>2, <1>3

LEMMA PeriodicEffects ==
  ASSUME ElectionInv, TenureInv, NEW i \in Server, NEW f \in Fault, Periodic(i, f)
  PROVE  Effects(i)
<1> USE DEF persistent, progress, applied
<1>1. /\ currentTerm[i] \in Nat /\ log[i] \in Seq(Entry)
      /\ \A j \in Server : nextIdx[i][j] \in Nat \ {0}
  BY DEF ElectionInv, TypeOK
<1>2. UNCHANGED <<log, commitIdx, nextIdx, matchIdx>> /\ LogMoves(i)
  BY DEF Periodic, PeriodicLeader, PeriodicWait, PeriodicElection, PeriodicElectionFails,
         LogMoves
<1>3. CASE PeriodicLeader(i, f)
  <2>1. OthersKept(i) /\ TermKept(i) /\ RoleMoves(i)
    BY <1>1, <1>2, <1>3 DEF PeriodicLeader, OthersKept, TermKept, RoleMoves
  <2>2. ProgressMoves(i)
    BY <1>2, <1>3 DEF PeriodicLeader, ProgressMoves, TenureInv, ProgressTrue
  <2>3. ASSUME NEW j \in Server \ {i}
        PROVE  NewMessage(i, AppendEntriesTo(i, j, log[i], nextIdx[i][j], commitIdx[i]))
    <3>1. nextIdx[i][j] <= Len(log[i]) + 1 /\ state'[i] = "leader" /\ currentTerm' = currentTerm
      BY <1>3 DEF PeriodicLeader, TenureInv, ProgressTrue
    <3> QED BY <1>1, <1>2, <3>1, SentFromLog
  <2>4. msgs \subseteq msgs' /\ \A m \in msgs' \ msgs : NewMessage(i, m)
    BY <1>3, <2>3 DEF PeriodicLeader, Send
  <2> QED BY <1>2, <2>1, <2>2, <2>4 DEF Effects
<1>4. CASE PeriodicWait(i, f) \/ PeriodicElectionFails(i, f)
  <2>1. OthersKept(i) /\ TermKept(i) /\ RoleMoves(i) /\ ProgressMoves(i)
    BY <1>1, <1>2, <1>4 DEF PeriodicWait, PeriodicElectionFails, OthersKept, TermKept,
                            RoleMoves, ProgressMoves
  <2> QED BY <1>2, <1>4, <2>1 DEF PeriodicWait, PeriodicElectionFails, Effects
<1>5. CASE PeriodicElection(i, f)
  <2>1. state'[i] = "candidate" /\ currentTerm'[i] = currentTerm[i] + 1
    BY <1>5 DEF PeriodicElection, BecomeCandidate, ElectionInv, TypeOK
  <2>2. OthersKept(i)
    BY <1>2, <1>5 DEF PeriodicElection, BecomeCandidate, OthersKept, ElectionInv, TypeOK
  <2>3. TermKept(i) /\ RoleMoves(i) /\ ProgressMoves(i)
    BY <1>1, <1>2, <2>1 DEF TermKept, RoleMoves, ProgressMoves
  <2>4. \A m \in msgs' \ msgs : NewMessage(i, m)
    BY <1>2, <1>5, <2>1 DEF PeriodicElection, BecomeCandidate, Send, NewMessage, Granted,
                            Acknowledged
  <2> QED BY <1>2, <1>5, <2>2, <2>3, <2>4 DEF PeriodicElection, BecomeCandidate, Send, Effects
<1> QED BY <1>3, <1>4, <1>5 DEF Periodic

LEMMA RequestVoteEffects ==
  ASSUME ElectionInv, TenureInv, NEW m \in msgs, NEW i \in Server, m.dst = i, NEW f \in Fault,
         RecvRequestVote(i, m, f)
  PROVE  Effects(i)
<1> USE DEF persistent, progress, applied
<1>1. /\ m.src \in Server /\ m.src # i /\ m.term \in Nat /\ currentTerm[i] \in Nat
      /\ m \in Requested
  BY MessageFields DEF ElectionInv, TypeOK, TenureInv, NotToSelf, RecvRequestVote, Requested
<1>2. UNCHANGED <<log, commitIdx, nextIdx, matchIdx>> /\ LogMoves(i)
  BY DEF RecvRequestVote, RequestVoteIgnored, RequestVoteGranted, RequestVoteRefused, LogMoves
<1>3. OthersKept(i)
  <2>1. CASE UNCHANGED <<currentTerm, votedFor, state>>
    BY <1>2, <2>1 DEF OthersKept
  <2>2. CASE StepDown(i, m.term)
    BY <1>2, <2>2 DEF StepDown, OthersKept, ElectionInv, TypeOK
  <2>3. CASE RequestVoteGranted(i, m, f)
    BY <1>2, <2>3 DEF RequestVoteGranted, OthersKept, ElectionInv, TypeOK
  <2> QED BY <2>1, <2>2, <2>3 DEF RecvRequestVote, RequestVoteIgnored, RequestVoteRefused
<1>4. \A t : /\ VoteReply(i, m, t, FALSE).type = "RequestVoteResponse"
             /\ VoteReply(i, m, t, FALSE).src = i /\ VoteReply(i, m, t, FALSE).dst = m.src
             /\ VoteReply(i, m, t, FALSE).term = t /\ ~VoteReply(i, m, t, FALSE).granted
  BY DEF VoteReply
<1>5. CASE RequestVoteIgnored(i, m)
  <2>1. TermKept(i) /\ RoleMoves(i) /\ ProgressMoves(i)
    BY <1>2, <1>5, NothingMoves DEF RequestVoteIgnored
  <2>2. msgs \subseteq msgs' /\ \A n \in msgs' \ msgs : NewMessage(i, n)
    BY <1>1, <1>4, <1>5, Refusal DEF RequestVoteIgnored
  <2> QED BY <1>2, <1>3, <2>1, <2>2 DEF Effects
<1>6. CASE RequestVoteRefused(i, m)
  <2>1. CASE currentTerm[i] < m.term /\ StepDown(i, m.term)
    <3>1. currentTerm'[i] = m.term /\ state'[i] = "follower"
      BY <2>1 DEF StepDown, ElectionInv, TypeOK
    <3>2. TermKept(i) /\ RoleMoves(i) /\ ProgressMoves(i)
      BY <1>1, <2>1, <3>1 DEF TermKept, RoleMoves, ProgressMoves
    <3>3. msgs \subseteq msgs' /\ \A n \in msgs' \ msgs : NewMessage(i, n)
      <4>1. Send({VoteReply(i, m, m.term, FALSE)})
        BY <1>1, <1>6, <2>1 DEF RequestVoteRefused, Larger
      <4> QED BY <1>1, <1>4, <3>1, <4>1, Refusal
    <3> QED BY <1>2, <1>3, <3>2, <3>3 DEF Effects
  <2>2. CASE currentTerm[i] >= m.term
             /\ UNCHANGED <<currentTerm, votedFor, state, currentLeader, late>>
    <3>1. TermKept(i) /\ RoleMoves(i) /\ ProgressMoves(i)
      BY <1>2, <2>2, NothingMoves
    <3>2. msgs \subseteq msgs' /\ \A n \in msgs' \ msgs : NewMessage(i, n)
      <4>1. Send({VoteReply(i, m, currentTerm[i], FALSE)})
        <5>1. Larger(currentTerm[i], m.term) = currentTerm[i]
          BY <1>1, <2>2 DEF Larger
        <5> QED BY <1>6, <5>1 DEF RequestVoteRefused
      <4> QED BY <1>1, <1>4, <2>2, <4>1, Refusal
    <3> QED BY <1>2, <1>3, <3>1, <3>2 DEF Effects
  <2> QED BY <1>6, <2>1, <2>2 DEF RequestVoteRefused
<1>7. CASE RequestVoteGranted(i, m, f)
  <2>1. currentTerm'[i] = m.term /\ state'[i] = "follower"
    BY <1>7 DEF RequestVoteGranted, ElectionInv, TypeOK
  <2>2. TermKept(i) /\ RoleMoves(i) /\ ProgressMoves(i)
    BY <1>1, <1>7, <2>1 DEF TermKept, RoleMoves, ProgressMoves, RequestVoteGranted,
                            ShouldGrantVote
  <2>3. msgs \subseteq msgs' /\ msgs' \subseteq msgs \cup {VoteReply(i, m, m.term, TRUE)}
    BY <1>7 DEF RequestVoteGranted, Send
  <2>4. NewMessage(i, VoteReply(i, m, m.term, TRUE))
    <3>1. UpToDate(m, log[i])
      BY <1>7 DEF RequestVoteGranted, ShouldGrantVote
    <3> QED BY <1>1, <1>2, <2>1, <3>1 DEF NewMessage, VoteReply, Acknowledged
  <2> QED BY <1>2, <1>3, <2>2, <2>3, <2>4 DEF Effects
<1> QED BY <1>5, <1>6, <1>7 DEF RecvRequestVote

LEMMA RequestVoteResponseEffects ==
  ASSUME ElectionInv, TenureInv, NEW m \in msgs, NEW i \in Server, m.dst = i,
         RecvRequestVoteResponse(i, m)
  PROVE  Effects(i)
<1> USE DEF persistent, progress, applied
<1>1. /\ m.src \in Server /\ m.term \in Nat /\ currentTerm[i] \in Nat
      /\ log[i] \in Seq(Entry) /\ Len(log[i]) \in Nat
  BY MessageFields, LenProperties DEF ElectionInv, TypeOK
<1>2. log' = log /\ LogMoves(i) /\ state[i] = "candidate"
  BY DEF RecvRequestVoteResponse, LogMoves
<1>3. CASE currentTerm[i] < m.term /\ StepDown(i, m.term)
           /\ UNCHANGED <<votesFor, progress, msgs, applied>>
  <2>1. currentTerm'[i] = m.term /\ state'[i] = "follower"
    BY <1>3 DEF StepDown, ElectionInv, TypeOK
  <2>2. OthersKept(i)
    BY <1>2, <1>3 DEF StepDown, OthersKept, ElectionInv, TypeOK
  <2>3. TermKept(i) /\ RoleMoves(i) /\ ProgressMoves(i)
    BY <1>1, <1>3, <2>1 DEF TermKept, RoleMoves, ProgressMoves
  <2> QED BY <1>2, <1>3, <2>2, <2>3 DEF Effects
<1>4. CASE /\ currentTerm[i] = m.term /\ m.granted
           /\ Majority(Cardinality(VotesForMe(i, votesFor'[i]))) /\ BecomeLeader(i)
           /\ votesFor' = [votesFor EXCEPT ![i] = @ \cup {m.src}]
           /\ UNCHANGED <<currentTerm, votedFor, applied>>
  <2>1. state'[i] = "leader"
    BY <1>4 DEF BecomeLeader, ElectionInv, TypeOK
  <2>2. OthersKept(i) /\ TermKept(i)
    BY <1>1, <1>2, <1>4 DEF BecomeLeader, OthersKept, TermKept, ElectionInv, TypeOK
  <2>3. ProgressMoves(i)
    BY <1>1, <1>2, <1>4 DEF BecomeLeader, ProgressMoves, ElectionInv, TypeOK
  <2>4. Won(i, currentTerm[i])
    <3>1. votesFor'[i] = votesFor[i] \cup {m.src}
      BY <1>4 DEF ElectionInv, TypeOK
    <3>2. m \in Granted
      BY <1>4 DEF RecvRequestVoteResponse, Granted
    <3> QED BY <1>2, <1>4, <3>1, <3>2, CountedWins DEF VotesForMe
  <2>5. ASSUME NEW j \in Server \ {i}
        PROVE  NewMessage(i, AppendEntriesTo(i, j, log[i], Len(log[i]) + 1, commitIdx[i]))
    BY <1>1, <1>2, <1>4, <2>1, SentFromLog
  <2>6. msgs' = msgs \cup {AppendEntriesTo(i, j, log[i], Len(log[i]) + 1, commitIdx[i]) :
                             j \in Server \ {i}}
    BY <1>4 DEF BecomeLeader, Send
  <2>7. BecameLeader(i, currentTerm[i])'
    <3>1. PICK j \in Server : j # i
      <4>1. Server # {i}
        BY ServerAssumption, FS_Singleton
      <4> QED BY <4>1
    <3> DEFINE n == AppendEntriesTo(i, j, log[i], Len(log[i]) + 1, commitIdx[i])
    <3>2. n \in msgs'
      BY <2>6, <3>1
    <3>3. n.type = "AppendEntries" /\ n.src = i /\ n.term = currentTerm[i]
      BY DEF AppendEntriesTo
    <3> QED BY <1>4, <3>2, <3>3 DEF BecameLeader, EntriesSent
  <2>8. RoleMoves(i)
    BY <1>2, <1>4, <2>1, <2>4, <2>7 DEF RoleMoves
  <2> QED BY <1>2, <2>2, <2>3, <2>5, <2>6, <2>8 DEF Effects
<1>5. CASE /\ currentTerm[i] = m.term /\ m.granted
           /\ UNCHANGED <<state, currentLeader, late, progress, msgs, currentTerm, votedFor,
                          applied>>
  <2>1. OthersKept(i) /\ TermKept(i) /\ RoleMoves(i) /\ ProgressMoves(i)
    BY <1>1, <1>2, <1>5 DEF OthersKept, TermKept, RoleMoves, ProgressMoves
  <2> QED BY <1>2, <1>5, <2>1 DEF Effects
<1> QED BY <1>3, <1>4, <1>5 DEF RecvRequestVoteResponse

\* Whoever hears a leader of its own or a newer term is a follower from then on.
LEMMA FollowLeaderEffects ==
  ASSUME ElectionInv, TenureInv, NEW m \in EntriesSent, NEW i \in Server, m.dst = i,
         FollowLeader(i, m), UNCHANGED <<nextIdx, matchIdx>>
  PROVE  /\ TermKept(i) /\ RoleMoves(i) /\ ProgressMoves(i)
         /\ state'[i] = "follower" /\ currentTerm[i] <= m.term /\ currentTerm'[i] = m.term
         /\ \A k \in Server \ {i} :
              /\ currentTerm'[k] = currentTerm[k] /\ votedFor'[k] = votedFor[k]
              /\ state'[k] = state[k] /\ nextIdx'[k] = nextIdx[k] /\ matchIdx'[k] = matchIdx[k]
<1>1. m \in msgs /\ m.type = "AppendEntries" /\ m.term \in Nat /\ currentTerm[i] \in Nat
  BY MessageFields DEF EntriesSent, ElectionInv, TypeOK
<1>2. state[i] = "leader" => currentTerm[i] # m.term
  BY <1>1, NoRival
<1>3. state[i] \in State
  BY DEF ElectionInv, TypeOK
<1>4. state'[i] = "follower"
  BY <1>1, <1>2, <1>3 DEF FollowLeader, ElectionInv, TypeOK, State
<1>5. currentTerm[i] <= m.term /\ currentTerm'[i] = m.term
  BY DEF FollowLeader, ElectionInv, TypeOK
<1>6. currentTerm[i] = m.term => votedFor'[i] = votedFor[i]
  BY <1>1 DEF FollowLeader, ElectionInv, TypeOK
<1>7. TermKept(i) /\ RoleMoves(i) /\ ProgressMoves(i)
  BY <1>1, <1>4, <1>5, <1>6 DEF TermKept, RoleMoves, ProgressMoves
<1> QED BY <1>4, <1>5, <1>7 DEF FollowLeader, ElectionInv, TypeOK

LEMMA AppendEntriesEffects ==
  ASSUME ElectionInv, TenureInv, NEW m \in msgs, NEW i \in Server, m.dst = i, NEW f \in Fault,
         RecvAppendEntries(i, m, f)
  PROVE  Effects(i)
<1> USE DEF persistent, progress
<1>1. /\ m.src \in Server /\ m.src # i /\ m.term \in Nat /\ currentTerm[i] \in Nat
      /\ m \in EntriesSent /\ m.prevIdx \in Nat /\ m.entries \in Seq(Entry)
      /\ log[i] \in Seq(Entry) /\ Len(log[i]) \in Nat /\ Len(m.entries) \in Nat
  BY MessageFields, LenProperties
     DEF ElectionInv, TypeOK, TenureInv, NotToSelf, RecvAppendEntries, EntriesSent
<1>2. UNCHANGED <<nextIdx, matchIdx>>
  BY DEF RecvAppendEntries
<1>3. ASSUME NEW t, NEW k, t = currentTerm'[i], Send({AppendReply(i, m, t, FALSE, k)})
      PROVE  msgs \subseteq msgs' /\ \A n \in msgs' \ msgs : NewMessage(i, n)
  <2> DEFINE n == AppendReply(i, m, t, FALSE, k)
  <2>1. /\ n.type = "AppendEntriesResponse" /\ n.src = i /\ n.dst = m.src /\ n.term = t
        /\ n.success = FALSE
    BY DEF AppendReply
  <2>2. Send({n})
    BY <1>3
  <2> HIDE DEF n
  <2> QED BY <1>1, <1>3, <2>1, <2>2, Refusal
<1>4. CASE AppendEntriesStale(i, m)
  <2>1. UNCHANGED <<currentTerm, votedFor, log, state, commitIdx>>
    BY <1>4 DEF AppendEntriesStale
  <2>2. OthersKept(i) /\ TermKept(i) /\ RoleMoves(i) /\ LogMoves(i) /\ ProgressMoves(i)
    BY <1>2, <2>1, NothingMoves DEF OthersKept, LogMoves
  <2>3. msgs \subseteq msgs' /\ \A n \in msgs' \ msgs : NewMessage(i, n)
    BY <1>3, <1>4, <2>1 DEF AppendEntriesStale
  <2> QED BY <2>2, <2>3 DEF Effects
<1>5. ASSUME FollowLeader(i, m),
             \/ log' = log
             \/ (\E lg : log' = [log EXCEPT ![i] = lg]) /\ Rewritten(i, m),
             \/ commitIdx' = commitIdx
             \/ \E c : commitIdx' = [commitIdx EXCEPT ![i] = c],
             msgs \subseteq msgs', \A n \in msgs' \ msgs : NewMessage(i, n)
      PROVE  Effects(i)
  <2>1. /\ TermKept(i) /\ RoleMoves(i) /\ ProgressMoves(i)
        /\ currentTerm[i] <= m.term /\ currentTerm'[i] = m.term
        /\ \A k \in Server \ {i} :
             /\ currentTerm'[k] = currentTerm[k] /\ votedFor'[k] = votedFor[k]
             /\ state'[k] = state[k] /\ nextIdx'[k] = nextIdx[k] /\ matchIdx'[k] = matchIdx[k]
    BY <1>1, <1>2, <1>5, FollowLeaderEffects
  <2>2. OthersKept(i)
    BY <1>5, <2>1 DEF OthersKept, ElectionInv, TypeOK
  <2>3. LogMoves(i)
    BY <1>1, <1>5, <2>1 DEF LogMoves
  <2> QED BY <1>5, <2>1, <2>2, <2>3 DEF Effects
<1>6. FollowLeader(i, m) => currentTerm'[i] = m.term
  BY <1>1, <1>2, FollowLeaderEffects
<1>7. CASE AppendEntriesMissing(i, m)
  <2>1. msgs \subseteq msgs' /\ \A n \in msgs' \ msgs : NewMessage(i, n)
    BY <1>3, <1>6, <1>7 DEF AppendEntriesMissing
  <2> QED BY <1>5, <1>7, <2>1 DEF AppendEntriesMissing
<1>8. CASE AppendEntriesShutdown(i, m)
  BY <1>5, <1>8 DEF AppendEntriesShutdown
<1>9. CASE AppendEntriesPrevConflict(i, m, f)
  <2>1. msgs \subseteq msgs' /\ \A n \in msgs' \ msgs : NewMessage(i, n)
    <3>1. CASE UNCHANGED msgs
      BY <3>1
    <3>2. CASE Send({AppendReply(i, m, m.term, FALSE, m.prevIdx - 1)})
      BY <1>3, <1>6, <1>9, <3>2 DEF AppendEntriesPrevConflict
    <3> QED BY <1>9, <3>1, <3>2 DEF AppendEntriesPrevConflict
  <2>2. m.prevIdx \in 1 .. Len(log[i]) /\ ~PrevMissing(m, log[i])
    BY <1>1, <1>9 DEF AppendEntriesPrevConflict, PrevConflicts, PrevMissing
  <2>3. PICK k \in m.prevIdx - 1 .. Len(log[i]) : log' = [log EXCEPT ![i] = Prefix(@, k)]
    BY <1>1, <1>9, <2>2 DEF AppendEntriesPrevConflict
  <2>4. log'[i] = Prefix(log[i], k)
    BY <2>3 DEF ElectionInv, TypeOK
  <2>5. Rewritten(i, m)
    BY <1>9, <2>2, <2>4 DEF AppendEntriesPrevConflict, Rewritten
  <2> QED BY <1>5, <1>9, <2>1, <2>3, <2>5 DEF AppendEntriesPrevConflict
<1>10. CASE AppendEntriesAccept(i, m)
  <2>1. log' = [log EXCEPT ![i] = Merge(m, log[i], Len(m.entries))]
        /\ commitIdx' = [commitIdx EXCEPT ![i] = FollowedCommit(i, m, log'[i])]
    BY <1>10 DEF AppendEntriesAccept
  <2>2. Rewritten(i, m)
    <3>1. log'[i] = Merge(m, log[i], Len(m.entries)) /\ Len(m.entries) \in 0 .. Len(m.entries)
      BY <1>1, <2>1 DEF ElectionInv, TypeOK
    <3> QED BY <1>10, <3>1 DEF AppendEntriesAccept, Rewritten
  <2>3. msgs \subseteq msgs' /\ \A n \in msgs' \ msgs : NewMessage(i, n)
    <3> DEFINE n == AppendReply(i, m, m.term, TRUE, m.prevIdx + Len(m.entries))
    <3>1. /\ n.type = "AppendEntriesResponse" /\ n.src = i /\ n.dst = m.src /\ n.term = m.term
          /\ n.idx = m.prevIdx + Len(m.entries)
      BY DEF AppendReply
    <3>2. n \notin Granted'
      BY <3>1 DEF Granted
    <3>3. NewMessage(i, n)
      BY <1>1, <1>6, <1>10, <3>1, <3>2 DEF NewMessage, AppendEntriesAccept
    <3>4. Send({n})
      BY <1>10 DEF AppendEntriesAccept
    <3> QED BY <3>3, <3>4 DEF Send
  <2> QED BY <1>5, <1>10, <2>1, <2>2, <2>3 DEF AppendEntriesAccept
<1>11. CASE AppendEntriesAcceptFails(i, m)
  <2>1. NumPresent(m, log[i]) \in 0 .. Len(m.entries)
    BY <1>1, NumPresentType
  <2>2. CASE \E n \in NumPresent(m, log[i]) + 1 .. Len(m.entries) - 1 :
               log' = [log EXCEPT ![i] = Merge(m, @, n)]
    <3>1. PICK n \in NumPresent(m, log[i]) + 1 .. Len(m.entries) - 1 :
                 log' = [log EXCEPT ![i] = Merge(m, @, n)]
      BY <2>2
    <3> n \in 0 .. Len(m.entries)
      BY <1>1, <2>1
    <3>2. log'[i] = Merge(m, log[i], n)
      BY <3>1 DEF ElectionInv, TypeOK
    <3>3. Rewritten(i, m)
      BY <1>11, <3>2 DEF AppendEntriesAcceptFails, Rewritten
    <3> QED BY <1>5, <1>11, <3>1, <3>3 DEF AppendEntriesAcceptFails
  <2>3. CASE \E k \in m.prevIdx + NumPresent(m, log[i]) .. Len(log[i]) :
               log' = [log EXCEPT ![i] = Prefix(@, k)]
    <3>1. PICK k \in m.prevIdx + NumPresent(m, log[i]) .. Len(log[i]) :
                 log' = [log EXCEPT ![i] = Prefix(@, k)]
      BY <2>3
    <3>2. log'[i] = Prefix(log[i], k)
      BY <3>1 DEF ElectionInv, TypeOK
    <3>3. Rewritten(i, m)
      BY <1>11, <3>2 DEF AppendEntriesAcceptFails, Rewritten
    <3> QED BY <1>5, <1>11, <3>1, <3>3 DEF AppendEntriesAcceptFails
  <2> QED BY <1>11, <2>2, <2>3 DEF AppendEntriesAcceptFails
<1> QED BY <1>4, <1>7, <1>8, <1>9, <1>10, <1>11 DEF RecvAppendEntries

LEMMA AppendEntriesResponseEffects ==
  ASSUME ElectionInv, TenureInv, NEW m \in msgs, NEW i \in Server, m.dst = i,
         RecvAppendEntriesResponse(i, m)
  PROVE  Effects(i)
<1>1. /\ m.src \in Server /\ m.src # i /\ m.term \in Nat /\ m.idx \in Nat
      /\ currentTerm[i] \in Nat /\ log[i] \in Seq(Entry) /\ Len(log[i]) \in Nat
      /\ m.type = "AppendEntriesResponse"
  BY MessageFields, LenProperties
     DEF ElectionInv, TypeOK, TenureInv, NotToSelf, RecvAppendEntriesResponse
<1>2. log' = log /\ LogMoves(i) /\ state[i] = "leader"
  BY DEF RecvAppendEntriesResponse, LogMoves
<1>3. /\ nextIdx \in [Server -> [Server -> Nat \ {0}]]
      /\ matchIdx \in [Server -> [Server -> Nat]] /\ commitIdx \in [Server -> Nat]
  BY DEF ElectionInv, TypeOK
<1>4. \A j \in Server \ {i} :
        /\ nextIdx[i][j] <= Len(log[i]) + 1
        /\ matchIdx[i][j] > 0 =>
             \E a \in Acknowledged :
               a.src = j /\ a.dst = i /\ a.term = currentTerm[i] /\ a.idx = matchIdx[i][j]
  BY <1>2 DEF TenureInv, ProgressTrue
<1>5. CASE currentTerm[i] < m.term /\ StepDown(i, m.term)
           /\ UNCHANGED <<nextIdx, matchIdx, commitIdx, msgs>>
  <2>1. currentTerm'[i] = m.term /\ state'[i] = "follower"
    BY <1>5 DEF StepDown, ElectionInv, TypeOK
  <2>2. OthersKept(i)
    BY <1>2, <1>5 DEF StepDown, OthersKept, ElectionInv, TypeOK
  <2>3. TermKept(i) /\ RoleMoves(i) /\ ProgressMoves(i)
    BY <1>1, <1>5, <2>1 DEF TermKept, RoleMoves, ProgressMoves
  <2> QED BY <1>2, <1>5, <2>2, <2>3 DEF Effects
<1>6. ASSUME UNCHANGED <<currentTerm, votedFor, state>>
      PROVE  TermKept(i) /\ RoleMoves(i)
  BY <1>1, <1>2, <1>6 DEF TermKept, RoleMoves
<1>7. CASE AppendRefused(i, m)
           /\ UNCHANGED <<currentTerm, votedFor, state, currentLeader, late>>
  <2> DEFINE next == NextAfterRefusal(i, m)
  <2>1. next \in Nat \ {0} /\ next <= Len(log[i]) + 1
    <3>1. nextIdx[i][m.src] \in Nat \ {0} /\ nextIdx[i][m.src] <= Len(log[i]) + 1
      BY <1>1, <1>3, <1>4
    <3> QED BY <1>1, <3>1 DEF NextAfterRefusal, Larger, Smaller
  <2> HIDE DEF next
  <2>2. /\ nextIdx' = [nextIdx EXCEPT ![i][m.src] = next]
        /\ matchIdx' = matchIdx /\ commitIdx' = commitIdx
    BY <1>7 DEF AppendRefused, next
  <2>3. OthersKept(i)
    BY <1>2, <1>3, <1>7, <2>2 DEF OthersKept
  <2>4. nextIdx'[i][m.src] = next /\ \A j \in Server \ {m.src} : nextIdx'[i][j] = nextIdx[i][j]
    BY <1>1, <1>3, <2>2
  <2>5. ProgressMoves(i)
    BY <1>1, <1>2, <1>4, <1>7, <2>1, <2>2, <2>4 DEF ProgressMoves
  <2>6. msgs \subseteq msgs' /\ \A n \in msgs' \ msgs : NewMessage(i, n)
    <3>1. NewMessage(i, AppendEntriesTo(i, m.src, log[i], next, commitIdx[i]))
      BY <1>1, <1>2, <1>7, <2>1, <2>2, SentFromLog
    <3> QED BY <1>7, <2>4, <3>1 DEF AppendRefused, Send
  <2> QED BY <1>2, <1>6, <1>7, <2>3, <2>5, <2>6 DEF Effects
<1>8. CASE AppendAccepted(i, m)
           /\ UNCHANGED <<currentTerm, votedFor, state, currentLeader, late>>
           /\ currentTerm[i] = m.term
  <2>1. m.idx <= Len(log[i]) /\ m \in Acknowledged
    BY <1>1, <1>8 DEF AppendAccepted, Acknowledged
  <2>2. /\ nextIdx' = [nextIdx EXCEPT ![i][m.src] = m.idx + 1]
        /\ matchIdx' = [matchIdx EXCEPT ![i][m.src] = m.idx]
        /\ \E c : commitIdx' = [commitIdx EXCEPT ![i] = c]
    BY <1>8 DEF AppendAccepted
  <2>3. OthersKept(i)
    BY <1>2, <1>3, <1>8, <2>2 DEF OthersKept
  <2>4. /\ nextIdx'[i][m.src] = m.idx + 1 /\ matchIdx'[i][m.src] = m.idx
        /\ \A j \in Server \ {m.src} :
             nextIdx'[i][j] = nextIdx[i][j] /\ matchIdx'[i][j] = matchIdx[i][j]
    BY <1>1, <1>3, <2>2
  <2>5. ASSUME NEW j \in Server \ {i}
        PROVE  /\ nextIdx'[i][j] <= Len(log'[i]) + 1
               /\ matchIdx'[i][j] > 0 =>
                    \E a \in Acknowledged :
                      a.src = j /\ a.dst = i /\ a.term = currentTerm'[i] /\ a.idx = matchIdx'[i][j]
    <3>1. CASE j = m.src
      BY <1>1, <1>2, <1>8, <2>1, <2>4, <3>1
    <3>2. CASE j # m.src
      BY <1>2, <1>4, <1>8, <2>4, <3>2
    <3> QED BY <3>1, <3>2
  <2>6. ProgressMoves(i)
    BY <2>5 DEF ProgressMoves
  <2>7. msgs \subseteq msgs' /\ \A n \in msgs' \ msgs : NewMessage(i, n)
    <3>1. NewMessage(i, AppendEntriesTo(i, m.src, log[i], m.idx + 1, commitIdx'[i]))
      BY <1>1, <1>2, <1>8, <2>1, SentFromLog
    <3> QED BY <1>8, <3>1 DEF AppendAccepted, Send
  <2> QED BY <1>2, <1>6, <1>8, <2>3, <2>6, <2>7 DEF Effects
<1> QED BY <1>5, <1>7, <1>8 DEF RecvAppendEntriesResponse

LEMMA RecvEntryEffects ==
  ASSUME ElectionInv, TenureInv, NEW i \in Server, NEW v \in Value, RecvEntry(i, v)
  PROVE  Effects(i)
<1> USE DEF progress, applied
<1> DEFINE e == [term |-> currentTerm[i], value |-> v]
<1>1. /\ currentTerm[i] \in Nat /\ log[i] \in Seq(Entry) /\ Len(log[i]) \in Nat /\ e \in Entry
      /\ nextIdx \in [Server -> [Server -> Nat \ {0}]] /\ state[i] = "leader"
  BY LenProperties DEF ElectionInv, TypeOK, RecvEntry, Entry
<1>2. UNCHANGED <<currentTerm, votedFor, state, commitIdx, nextIdx, matchIdx>>
  BY DEF RecvEntry
<1>3. log'[i] = Append(log[i], e) /\ \A k \in Server \ {i} : log'[k] = log[k]
  BY DEF RecvEntry, ElectionInv, TypeOK
<1>4. log'[i] \in Seq(Entry) /\ Len(log'[i]) = Len(log[i]) + 1
  <2> HIDE DEF e
  <2> QED BY <1>1, <1>3, AppendProperties
<1>5. OthersKept(i) /\ TermKept(i) /\ RoleMoves(i) /\ LogMoves(i)
  <2>1. OthersKept(i) /\ TermKept(i)
    BY <1>1, <1>2, <1>3 DEF OthersKept, TermKept
  <2>2. RoleMoves(i)
    BY <1>1, <1>2 DEF RoleMoves
  <2>3. \E w \in Value : log'[i] = Append(log[i], [term |-> currentTerm[i], value |-> w])
    BY <1>3
  <2>4. LogMoves(i)
    BY <1>1, <1>2, <2>3 DEF LogMoves
  <2> QED BY <2>1, <2>2, <2>4
<1>6. ProgressMoves(i)
  <2>1. \A j \in Server \ {i} :
          /\ nextIdx[i][j] <= Len(log[i]) + 1
          /\ matchIdx[i][j] > 0 =>
               \E a \in Acknowledged :
                 a.src = j /\ a.dst = i /\ a.term = currentTerm[i] /\ a.idx = matchIdx[i][j]
    BY <1>1 DEF TenureInv, ProgressTrue
  <2>2. \A j \in Server \ {i} : nextIdx[i][j] \in Nat
    BY <1>1
  <2> QED BY <1>1, <1>2, <1>4, <2>1, <2>2 DEF ProgressMoves
<1>7. ASSUME NEW j \in Server \ {i}, nextIdx[i][j] = Len(log'[i])
      PROVE  NewMessage(i, AppendEntriesTo(i, j, log'[i], nextIdx[i][j], commitIdx[i]))
  <2>1. nextIdx[i][j] \in Nat \ {0} /\ nextIdx[i][j] <= Len(log'[i]) + 1
    BY <1>1, <1>4, <1>7
  <2> QED BY <1>1, <1>2, <1>4, <2>1, SentFromLog
<1>8. msgs' = msgs \cup {AppendEntriesTo(i, j, log'[i], nextIdx[i][j], commitIdx[i]) :
                           j \in {k \in Server \ {i} : nextIdx[i][k] = Len(log'[i])}}
  BY DEF RecvEntry, Send
<1> HIDE DEF e
<1>9. msgs \subseteq msgs' /\ \A n \in msgs' \ msgs : NewMessage(i, n)
  BY <1>7, <1>8
<1> QED BY <1>5, <1>6, <1>9 DEF Effects

LEMMA RestartEffects ==
  ASSUME ElectionInv, NEW i \in Server, Restart(i)
  PROVE  Effects(i)
<1> USE DEF persistent
<1>1. state'[i] = "follower" /\ currentTerm[i] \in Nat /\ UNCHANGED <<currentTerm, votedFor, log, msgs>>
  BY DEF Restart, ElectionInv, TypeOK
<1>2. OthersKept(i)
  BY DEF Restart, OthersKept, ElectionInv, TypeOK
<1>3. TermKept(i) /\ RoleMoves(i) /\ LogMoves(i) /\ ProgressMoves(i)
  BY <1>1 DEF TermKept, RoleMoves, LogMoves, ProgressMoves
<1> QED BY <1>1, <1>2, <1>3 DEF Effects

LEMMA NextEffects ==
  ASSUME ElectionInv, TenureInv, Next
  PROVE  \E i \in Server : Effects(i)
<1>1. CASE \E i \in Server, f \in Fault : Periodic(i, f)
  BY <1>1, PeriodicEffects
<1>2. CASE \E m \in Arriving, f \in Fault : Receive(m, f)
  <2>1. PICK m \in msgs, f \in Fault : Receive(m, f)
    BY <1>2 DEF Arriving
  <2>2. m.dst \in Server
    BY MessageFields DEF ElectionInv, TypeOK
  <2> QED BY <2>1, <2>2, RequestVoteEffects, RequestVoteResponseEffects, AppendEntriesEffects,
             AppendEntriesResponseEffects DEF Receive
<1>3. CASE \E i \in Server, v \in Value : RecvEntry(i, v)
  BY <1>3, RecvEntryEffects
<1>4. CASE \E i \in Crashing : Restart(i)
  BY <1>4, BoundsAssumption, RestartEffects
<1> QED BY <1>1, <1>2, <1>3, <1>4 DEF Next

----------------------------------------------------------------------------
\* What has been said and won stays so.
LEMMA NothingTakenBack ==
  ASSUME ElectionInv, TenureInv, ElectionInv', NotToSelf', NEW i \in Server, Effects(i)
  PROVE  /\ Granted \subseteq Granted' /\ EntriesSent \subseteq EntriesSent'
         /\ Requested \subseteq Requested' /\ Acknowledged \subseteq Acknowledged'
         /\ \A k \in Server : currentTerm[k] <= currentTerm'[k]
         /\ \A k, t : BecameLeader(k, t) => BecameLeader(k, t)'
         /\ \A k \in Server, t \in Nat : Won(k, t) => Won(k, t)'
<1>1. /\ Granted \subseteq Granted' /\ EntriesSent \subseteq EntriesSent'
      /\ Requested \subseteq Requested' /\ Acknowledged \subseteq Acknowledged'
  BY DEF Effects, Granted, EntriesSent, Requested, Acknowledged
<1>2. \A k \in Server : currentTerm[k] \in Nat /\ currentTerm'[k] \in Nat
  BY DEF ElectionInv, TypeOK
<1>3. \A k \in Server : currentTerm[k] <= currentTerm'[k]
  BY <1>2 DEF Effects, TermKept, OthersKept
<1>4. \A k, t : BecameLeader(k, t) => BecameLeader(k, t)'
  BY <1>1 DEF BecameLeader
<1>5. ASSUME NEW k \in Server, NEW t \in Nat, SelfVote(k, t)
      PROVE  SelfVote(k, t)'
  <2>1. t <= currentTerm'[k]
    BY <1>2, <1>3, <1>5 DEF SelfVote
  <2>2. t = currentTerm'[k] => currentTerm[k] = t /\ votedFor'[k] = k
    <3>1. t = currentTerm'[k] => currentTerm[k] = t /\ votedFor[k] = k
      BY <1>2, <1>3, <1>5 DEF SelfVote
    <3> QED BY <3>1, NilAssumption DEF Effects, TermKept, OthersKept
  <2>3. ASSUME NEW g \in Granted', g.src = k, g.term = t PROVE FALSE
    <3>1. g \in msgs' \ msgs
      BY <1>5, <2>3 DEF SelfVote, Granted
    <3>2. g.term = currentTerm'[k]
      BY <2>3, <3>1 DEF Effects, NewMessage
    <3>3. g.dst = k
      BY <2>2, <2>3, <3>2 DEF ElectionInv, VotesHonoured
    <3> QED BY <2>3, <3>1, <3>3 DEF NotToSelf
  <2> QED BY <2>1, <2>2, <2>3 DEF SelfVote
<1>6. ASSUME NEW k \in Server, NEW t \in Nat, Won(k, t)
      PROVE  Won(k, t)'
  <2>1. PICK Q \in Quorums : \A v \in Q : Backs(v, k, t)
    BY <1>6 DEF Won
  <2>2. \A v \in Q : Backs(v, k, t)'
    BY <1>1, <1>5, <2>1 DEF Backs
  <2> QED BY <2>2 DEF Won, Quorums
<1> QED BY <1>1, <1>3, <1>4, <1>6

\* A and b are the same up to n.
Agree(a, b, n) == n <= Len(a) /\ n <= Len(b) /\ \A x \in 1 .. n : a[x] = b[x]

\* A server that stays leader of its term only adds to its log.
LEMMA LeaderKeepsLog ==
  ASSUME ElectionInv, TenureInv, NEW i \in Server, LogMoves(i), state[i] = "leader",
         currentTerm'[i] = currentTerm[i]
  PROVE  Agree(log[i], log'[i], Len(log[i]))
<1>1. log[i] \in Seq(Entry) /\ Len(log[i]) \in Nat /\ currentTerm[i] \in Nat
  BY LenProperties DEF ElectionInv, TypeOK
<1>2. CASE log' = log
  BY <1>1, <1>2 DEF Agree
<1>3. CASE \E v \in Value : log'[i] = Append(log[i], [term |-> currentTerm[i], value |-> v])
  <2>1. PICK e \in Entry : log'[i] = Append(log[i], e)
    BY <1>1, <1>3 DEF Entry
  <2> QED BY <1>1, <2>1, AppendProperties DEF Agree
<1>4. CASE \E m \in EntriesSent : m.dst = i /\ currentTerm[i] <= m.term /\ currentTerm'[i] = m.term
  BY <1>4, NoRival DEF EntriesSent
<1> QED BY <1>2, <1>3, <1>4 DEF LogMoves

LEMMA EffectsTenureInv ==
  ASSUME ElectionInv, TenureInv, ElectionInv', NEW i \in Server, Effects(i)
  PROVE  TenureInv'
<1>1. NotToSelf'
  BY DEF NotToSelf, Effects, NewMessage, TenureInv
<1>2. /\ Granted \subseteq Granted' /\ EntriesSent \subseteq EntriesSent'
      /\ Requested \subseteq Requested' /\ Acknowledged \subseteq Acknowledged'
      /\ \A k \in Server : currentTerm[k] <= currentTerm'[k]
      /\ \A k, t : BecameLeader(k, t) => BecameLeader(k, t)'
      /\ \A k \in Server, t \in Nat : Won(k, t) => Won(k, t)'
  BY <1>1, NothingTakenBack
<1>3. \A m \in msgs' : m.src \in Server /\ m.dst \in Server /\ m.term \in Nat
  BY MessageFields DEF ElectionInv, TypeOK
<1>4. \A k \in Server : /\ currentTerm[k] \in Nat /\ currentTerm'[k] \in Nat
                        /\ Len(log[k]) \in Nat /\ Len(log'[k]) \in Nat
                        /\ log'[k] \in Seq(Entry)
  BY LenProperties DEF ElectionInv, TypeOK
<1>5. \A k \in Server \ {i} :
        /\ currentTerm'[k] = currentTerm[k] /\ votedFor'[k] = votedFor[k] /\ log'[k] = log[k]
        /\ state'[k] = state[k] /\ nextIdx'[k] = nextIdx[k] /\ matchIdx'[k] = matchIdx[k]
  BY DEF Effects, OthersKept
<1>6. \A m \in msgs' \ msgs : NewMessage(i, m)
  BY DEF Effects
<1>7. TermsPassed'
  <2> SUFFICES ASSUME NEW m \in msgs' PROVE m.term <= currentTerm'[m.src]
    BY DEF TermsPassed
  <2>1. CASE m \in msgs
    BY <1>2, <1>3, <1>4, <2>1 DEF TenureInv, TermsPassed
  <2>2. CASE m \notin msgs
    BY <1>3, <1>4, <1>6, <2>2 DEF NewMessage
  <2> QED BY <2>1, <2>2
<1>8. state[i] = "leader" /\ state'[i] = "leader" /\ currentTerm'[i] = currentTerm[i]
        => Len(log[i]) <= Len(log'[i])
  BY LeaderKeepsLog DEF Effects, Agree
<1>9. state'[i] = "leader" =>
        /\ currentTerm'[i] = currentTerm[i]
        /\ Won(i, currentTerm[i]) /\ BecameLeader(i, currentTerm[i])'
  <2>1. CASE state[i] = "leader" /\ currentTerm'[i] = currentTerm[i]
    BY <1>2, <2>1 DEF TenureInv, LeadersSent, SentByLeaders, BecameLeader
  <2> QED BY <2>1 DEF Effects, RoleMoves
<1>10. state'[i] = "leader" => state[i] = "leader" \/ state[i] = "candidate"
  BY DEF Effects, RoleMoves
<1>11. state[i] = "candidate" => ~BecameLeader(i, currentTerm[i])
  BY DEF TenureInv, SentByLeaders, BecameLeader
<1>12. state'[i] = "candidate" =>
         /\ log'[i] = log[i]
         /\ \/ state[i] = "candidate" /\ currentTerm'[i] = currentTerm[i]
            \/ currentTerm[i] < currentTerm'[i]
  BY DEF Effects, RoleMoves
<1>13. SentByLeaders'
  <2> SUFFICES ASSUME NEW m \in EntriesSent'
               PROVE  /\ Won(m.src, m.term)'
                      /\ m.term = currentTerm'[m.src] => state'[m.src] # "candidate"
                      /\ state'[m.src] = "leader" /\ m.term = currentTerm'[m.src]
                           => m.prevIdx + Len(m.entries) <= Len(log'[m.src])
    BY DEF SentByLeaders
  <2>1. m \in msgs' /\ m.type = "AppendEntries" /\ m.src \in Server /\ m.term \in Nat
    BY <1>3 DEF EntriesSent
  <2>2. CASE m \in EntriesSent
    <3>1. /\ Won(m.src, m.term) /\ m.term <= currentTerm[m.src]
          /\ m.term = currentTerm[m.src] => state[m.src] # "candidate"
          /\ state[m.src] = "leader" /\ m.term = currentTerm[m.src]
               => m.prevIdx + Len(m.entries) <= Len(log[m.src])
          /\ BecameLeader(m.src, m.term)
          /\ m.prevIdx + Len(m.entries) \in Nat
      <4>1. m.prevIdx \in Nat /\ Len(m.entries) \in Nat
        BY <2>1, MessageFields, LenProperties DEF ElectionInv, TypeOK
      <4> QED BY <2>2, <4>1 DEF TenureInv, SentByLeaders, TermsPassed, BecameLeader, EntriesSent
    <3>2. CASE m.src = i
      BY <1>2, <1>4, <1>8, <1>9, <1>10, <1>11, <1>12, <2>1, <3>1, <3>2
    <3>3. CASE m.src # i
      BY <1>2, <1>5, <2>1, <3>1, <3>3
    <3> QED BY <3>2, <3>3
  <2>3. CASE m \notin EntriesSent
    <3>1. NewMessage(i, m)
      BY <1>6, <2>1, <2>3 DEF EntriesSent
    <3>2. m.src = i /\ m.term = currentTerm'[i] /\ state'[i] = "leader"
      BY <2>1, <3>1 DEF NewMessage
    <3>3. PICK next \in 1 .. Len(log'[i]) + 1 :
            m.prevIdx = next - 1 /\ m.entries = SubSeq(log'[i], next, Len(log'[i]))
      BY <2>1, <3>1 DEF NewMessage
    <3>4. Len(m.entries) = Len(log'[i]) - next + 1
      BY <1>4, <3>3, SubSeqProperties
    <3>5. m.prevIdx + Len(m.entries) = Len(log'[i])
      BY <1>4, <3>3, <3>4
    <3> QED BY <1>2, <1>4, <1>9, <2>1, <3>2, <3>5
  <2> QED BY <2>2, <2>3
<1>14. LeadersSent'
  BY <1>2, <1>5, <1>9 DEF LeadersSent, TenureInv
<1>15. RequestsTrue'
  <2> SUFFICES ASSUME NEW m \in Requested', state'[m.src] = "candidate",
                      m.term = currentTerm'[m.src]
               PROVE  m.lastIdx = Len(log'[m.src]) /\ m.lastTerm = LastTerm(log'[m.src])
    BY DEF RequestsTrue
  <2>1. m \in msgs' /\ m.type = "RequestVote" /\ m.src \in Server
    BY <1>3 DEF Requested
  <2>2. CASE m \in Requested
    <3>1. /\ m.term <= currentTerm[m.src]
          /\ state[m.src] = "candidate" /\ m.term = currentTerm[m.src] =>
               m.lastIdx = Len(log[m.src]) /\ m.lastTerm = LastTerm(log[m.src])
      BY <2>2 DEF TenureInv, TermsPassed, RequestsTrue, Requested
    <3>2. CASE m.src = i
      <4>1. log'[i] = log[i] /\ state[i] = "candidate" /\ currentTerm'[i] = currentTerm[i]
        BY <1>4, <1>12, <3>1, <3>2
      <4> QED BY <3>1, <3>2, <4>1
    <3>3. CASE m.src # i
      BY <1>5, <2>1, <3>1, <3>3
    <3> QED BY <3>2, <3>3
  <2>3. CASE m \notin Requested
    <3>1. NewMessage(i, m)
      BY <1>6, <2>1, <2>3 DEF Requested
    <3> QED BY <2>1, <3>1 DEF NewMessage
  <2> QED BY <2>2, <2>3
<1>16. VotesAsked'
  <2> SUFFICES ASSUME NEW g \in Granted'
               PROVE  \E m \in Requested' : m.src = g.dst /\ m.term = g.term
    BY DEF VotesAsked
  <2>1. CASE g \in Granted
    BY <1>2, <2>1 DEF TenureInv, VotesAsked
  <2>2. CASE g \notin Granted
    <3>1. NewMessage(i, g)
      BY <1>6, <2>2 DEF Granted
    <3> QED BY <1>2, <3>1 DEF NewMessage
  <2> QED BY <2>1, <2>2
<1>17. AcksTrue'
  <2> SUFFICES ASSUME NEW a \in Acknowledged'
               PROVE  /\ BecameLeader(a.dst, a.term)'
                      /\ state'[a.dst] = "leader" /\ a.term = currentTerm'[a.dst]
                           => a.idx <= Len(log'[a.dst])
    BY DEF AcksTrue
  <2>1. a \in msgs' /\ a.type = "AppendEntriesResponse" /\ a.dst \in Server /\ a.idx \in Nat
    BY MessageFields DEF Acknowledged, ElectionInv, TypeOK
  <2>2. CASE a \in Acknowledged
    <3>1. /\ BecameLeader(a.dst, a.term)
          /\ state[a.dst] = "leader" /\ a.term = currentTerm[a.dst] => a.idx <= Len(log[a.dst])
      BY <2>2 DEF TenureInv, AcksTrue
    <3>2. CASE a.dst = i
      BY <1>2, <1>4, <1>8, <1>9, <1>10, <1>11, <2>1, <3>1, <3>2
    <3>3. CASE a.dst # i
      BY <1>2, <1>5, <2>1, <3>1, <3>3
    <3> QED BY <3>2, <3>3
  <2>3. CASE a \notin Acknowledged
    <3>1. NewMessage(i, a)
      BY <1>6, <2>1, <2>3 DEF Acknowledged
    <3>2. PICK q \in EntriesSent :
            q.src = a.dst /\ q.term = a.term /\ a.idx = q.prevIdx + Len(q.entries)
      BY <3>1 DEF NewMessage
    <3>3. BecameLeader(a.dst, a.term)
      BY <3>2 DEF BecameLeader
    <3>4. a.dst # i
      BY <3>1 DEF NewMessage
    <3>5. state[a.dst] = "leader" /\ a.term = currentTerm[a.dst] => a.idx <= Len(log[a.dst])
      BY <3>2 DEF TenureInv, SentByLeaders
    <3> QED BY <1>2, <1>5, <2>1, <3>3, <3>4, <3>5
  <2> QED BY <2>2, <2>3
<1>18. ProgressTrue'
  <2> SUFFICES ASSUME NEW k \in Server, state'[k] = "leader", NEW j \in Server \ {k}
               PROVE  /\ nextIdx'[k][j] <= Len(log'[k]) + 1
                      /\ matchIdx'[k][j] > 0 =>
                           \E a \in Acknowledged' :
                             /\ a.src = j /\ a.dst = k
                             /\ a.term = currentTerm'[k] /\ a.idx = matchIdx'[k][j]
    BY DEF ProgressTrue
  <2>1. CASE k = i
    BY <1>2, <2>1 DEF Effects, ProgressMoves
  <2>2. CASE k # i
    BY <1>2, <1>5, <2>2 DEF TenureInv, ProgressTrue
  <2> QED BY <2>1, <2>2
<1> QED BY <1>1, <1>7, <1>13, <1>14, <1>15, <1>16, <1>17, <1>18 DEF TenureInv

LEMMA InitTenureInv == Init => TenureInv
<1> SUFFICES ASSUME Init PROVE TenureInv
  OBVIOUS
<1>1. msgs = {} /\ \A i \in Server : state[i] = "follower"
  BY DEF Init
<1> QED BY <1>1 DEF TenureInv, NotToSelf, TermsPassed, SentByLeaders, LeadersSent, RequestsTrue,
       VotesAsked, AcksTrue, ProgressTrue, EntriesSent, Requested, Acknowledged, Granted

LEMMA NextTenureInv ==
  ASSUME ElectionInv, TenureInv, [Next]_vars
  PROVE  ElectionInv' /\ TenureInv'
<1>1. ElectionInv'
  BY NextElectionInv
<1>2. CASE Next
  BY <1>1, <1>2, NextEffects, EffectsTenureInv
<1>3. CASE UNCHANGED vars
  <2> USE DEF vars, EntriesSent, Requested, Acknowledged, Granted, BecameLeader
  <2>1. \A k, t : Won(k, t)' <=> Won(k, t)
    BY <1>3 DEF Won, Backs, SelfVote, Quorums
  <2>2. SentByLeaders'
    BY <1>3, <2>1 DEF TenureInv, SentByLeaders
  <2>3. NotToSelf' /\ TermsPassed' /\ LeadersSent'
    BY <1>3 DEF TenureInv, NotToSelf, TermsPassed, LeadersSent
  <2>4. RequestsTrue' /\ VotesAsked' /\ AcksTrue'
    BY <1>3 DEF TenureInv, RequestsTrue, VotesAsked, AcksTrue
  <2>5. ProgressTrue'
    BY <1>3 DEF TenureInv, ProgressTrue
  <2> QED BY <1>1, <2>2, <2>3, <2>4, <2>5 DEF TenureInv
<1> QED BY <1>1, <1>2, <1>3

LEMMA Tenure == Spec => [](ElectionInv /\ TenureInv)
<1> QED BY InitElectionInv, InitTenureInv, NextTenureInv, PTL DEF Spec

----------------------------------------------------------------------------
(* What raft_set_current_term and raft_vote persist, and who changes a log. *)

\* A prefix of a log, entry by entry.
LEMMA PrefixEntries ==
  ASSUME NEW a \in Seq(Entry), NEW n \in Nat, n <= Len(a)
  PROVE  Prefix(a, n) \in Seq(Entry) /\ Len(Prefix(a, n)) = n /\ Agree(a, Prefix(a, n), n)
<1>1. Prefix(a, n) \in Seq(Entry)
  BY SubSeqOfLog DEF Prefix
<1>2. Len(SubSeq(a, 1, n)) = n /\ \A x \in 1 .. n : SubSeq(a, 1, n)[x] = a[x]
  BY SubSeqProperties
<1> QED BY <1>1, <1>2 DEF Prefix, Agree

LEMMA AgreePrefix ==
  ASSUME NEW a \in Seq(Entry), NEW b \in Seq(Entry), NEW n \in Nat, Agree(a, b, n)
  PROVE  Prefix(a, n) = Prefix(b, n)
<1>1. n <= Len(a) /\ n <= Len(b) /\ \A x \in 1 .. n : a[x] = b[x]
  BY DEF Agree
<1>2. /\ Prefix(a, n) \in Seq(Entry) /\ Len(Prefix(a, n)) = n
      /\ Prefix(b, n) \in Seq(Entry) /\ Len(Prefix(b, n)) = n
      /\ \A x \in 1 .. n : Prefix(a, n)[x] = a[x] /\ Prefix(b, n)[x] = b[x]
  BY <1>1, PrefixEntries DEF Agree
<1> QED BY <1>1, <1>2, SeqEqual

LEMMA WholePrefix ==
  ASSUME NEW a \in Seq(Entry)
  PROVE  Prefix(a, Len(a)) = a
<1>1. /\ Prefix(a, Len(a)) \in Seq(Entry) /\ Len(Prefix(a, Len(a))) = Len(a) /\ Len(a) \in Nat
      /\ \A x \in 1 .. Len(a) : Prefix(a, Len(a))[x] = a[x]
  BY PrefixEntries, LenProperties DEF Agree
<1> QED BY <1>1, SeqEqual

\* No step, a restart included, gives a server a second vote in a term or takes
\* it back to an older one: raft_vote and raft_set_current_term.
THEOREM VotesAreKept == Spec => VoteKept
<1>1. ASSUME ElectionInv, TenureInv, Next, NEW i \in Server
      PROVE  /\ currentTerm[i] <= currentTerm'[i]
             /\ currentTerm'[i] = currentTerm[i] /\ votedFor[i] # Nil => votedFor'[i] = votedFor[i]
  <2>1. currentTerm[i] \in Nat
    BY <1>1 DEF ElectionInv, TypeOK
  <2>2. PICK k \in Server : Effects(k)
    BY <1>1, NextEffects
  <2> QED BY <2>1, <2>2 DEF Effects, TermKept, OthersKept
<1>2. ElectionInv /\ TenureInv /\ [Next]_vars =>
        [\A i \in Server :
           /\ currentTerm[i] <= currentTerm'[i]
           /\ currentTerm'[i] = currentTerm[i] /\ votedFor[i] # Nil
                => votedFor'[i] = votedFor[i]]_vars
  BY <1>1
<1> QED BY <1>2, Tenure, PTL DEF VoteKept, Spec

\* A leader only adds to its log while it stays one: no message of its own term
\* can reach raft_recv_appendentries of a leader.
THEOREM LeadersOnlyAppend == Spec => LeaderAppendOnly
<1>1. ASSUME ElectionInv, TenureInv, Next, NEW i \in Server,
             state[i] = "leader", state'[i] = "leader", currentTerm'[i] = currentTerm[i]
      PROVE  Prefix(log'[i], Len(log[i])) = log[i]
  <2>1. log[i] \in Seq(Entry) /\ log'[i] \in Seq(Entry) /\ Len(log[i]) \in Nat
    BY <1>1, NextElectionInv, LenProperties DEF ElectionInv, TypeOK
  <2>2. Agree(log[i], log'[i], Len(log[i]))
    <3>1. PICK k \in Server : Effects(k)
      BY <1>1, NextEffects
    <3>2. CASE k = i
      BY <1>1, <3>1, <3>2, LeaderKeepsLog DEF Effects
    <3>3. CASE k # i
      BY <2>1, <3>1, <3>3 DEF Effects, OthersKept, Agree
    <3> QED BY <3>2, <3>3
  <2> QED BY <2>1, <2>2, AgreePrefix, WholePrefix
<1>2. ElectionInv /\ TenureInv /\ [Next]_vars =>
        [\A i \in Server :
           state[i] = "leader" /\ state'[i] = "leader" /\ currentTerm'[i] = currentTerm[i]
             => Prefix(log'[i], Len(log[i])) = log[i]]_vars
  BY <1>1
<1> QED BY <1>2, Tenure, PTL DEF LeaderAppendOnly, Spec

----------------------------------------------------------------------------
(***************************************************************************)
(* Log matching.  The invariant speaks of a set H of logs, all those that  *)
(* some server has had so far: every log and every message is a piece of   *)
(* one of them.  H is not a variable: some such set exists in every        *)
(* reachable state, and the log a step leaves behind is all that has to be *)
(* added to it.                                                            *)
(***************************************************************************)
Holds(lg, k, t) == k \in 1 .. Len(lg) /\ lg[k].term = t

\* L is the log that m was made from by raft_send_appendentries.
Carries(m, L) ==
  /\ Len(L) = m.prevIdx + Len(m.entries)
  /\ m.prevTerm = TermAt(L, m.prevIdx)
  /\ \A x \in 1 .. Len(m.entries) : m.entries[x] = L[m.prevIdx + x]

\* Two entries of the same term have the same entries before the lower of them.
OneHistory(H) ==
  /\ H \subseteq Seq(Entry)
  /\ \A L \in H : \A n \in 0 .. Len(L) : Prefix(L, n) \in H
  /\ \A L \in H : \A x, y \in 1 .. Len(L) : x <= y => L[x].term <= L[y].term
  /\ \A L, M \in H : \A n \in 1 .. Len(L), k \in 1 .. Len(M) :
       k <= n /\ L[n].term = M[k].term => Agree(L, M, k)

EntriesLed(H) ==
  \A L \in H : \A n \in 1 .. Len(L) : \E j \in Server : BecameLeader(j, L[n].term)

LogsKept(H) ==
  \A i \in Server :
    log[i] \in H /\ \A n \in 1 .. Len(log[i]) : log[i][n].term <= currentTerm[i]

\* Nobody has an entry of a leader's term that the leader has not.
LeaderAhead(H) ==
  \A i \in Server : state[i] = "leader" =>
    \A L \in H : \A n \in 1 .. Len(L) :
      L[n].term = currentTerm[i] => Holds(log[i], n, currentTerm[i])

MessagesCarry(H) == \A m \in EntriesSent : \E L \in H : Carries(m, L)

\* What a message carries is not newer than the message, agrees with every entry
\* of its term, and is still in the log of a sender that leads.
MessageLogs(H) ==
  \A m \in EntriesSent, L \in H : Carries(m, L) =>
    /\ \A n \in 1 .. Len(L) : L[n].term <= m.term
    /\ \A M \in H : \A k \in 1 .. Len(M) :
         M[k].term = m.term => Agree(L, M, Smaller(Len(L), k))
    /\ state[m.src] = "leader" /\ currentTerm[m.src] = m.term
         => Agree(L, log[m.src], Len(L))

LogsInv(H) ==
  /\ OneHistory(H) /\ EntriesLed(H) /\ LogsKept(H) /\ LeaderAhead(H)
  /\ MessagesCarry(H) /\ MessageLogs(H)

----------------------------------------------------------------------------
\* The members of H, and the fields of what EntriesSent holds.
LEMMA LogFacts ==
  ASSUME NEW H, OneHistory(H), NEW L \in H
  PROVE  /\ L \in Seq(Entry) /\ Len(L) \in Nat
         /\ \A n \in 1 .. Len(L) : L[n] \in Entry /\ L[n].term \in Nat
<1>1. L \in Seq(Entry) /\ Len(L) \in Nat
  BY LenProperties DEF OneHistory
<1>2. \A n \in 1 .. Len(L) : L[n] \in Entry
  BY <1>1, ElementOfSeq
<1> QED BY <1>1, <1>2 DEF Entry

LEMMA SentFields ==
  ASSUME TypeOK, NEW m \in EntriesSent
  PROVE  /\ m \in msgs /\ m.type = "AppendEntries" /\ m.src \in Server /\ m.dst \in Server
         /\ m.term \in Nat /\ m.prevIdx \in Nat /\ m.prevTerm \in Nat /\ m.commit \in Nat
         /\ m.entries \in Seq(Entry) /\ Len(m.entries) \in Nat
  BY MessageFields, LenProperties DEF EntriesSent, TypeOK

\* Logs that agree up to their whole length are the same.
LEMMA AgreeWhole ==
  ASSUME NEW a \in Seq(Entry), NEW b \in Seq(Entry), Len(a) = Len(b), Agree(a, b, Len(a))
  PROVE  a = b
  BY SeqEqual, LenProperties DEF Agree

LEMMA SameTerm ==
  ASSUME NEW H, OneHistory(H), NEW L \in H, NEW M \in H, NEW k,
         k \in 1 .. Len(L), k \in 1 .. Len(M), L[k].term = M[k].term
  PROVE  Agree(L, M, k)
<1>1. k <= k /\ Len(L) \in Nat
  BY LogFacts
<1> QED BY <1>1 DEF OneHistory

\* A message carries one log only.
LEMMA CarriedOnce ==
  ASSUME NEW m, m.prevIdx \in Nat, Len(m.entries) \in Nat,
         NEW H, OneHistory(H), NEW L \in H, NEW M \in H, Carries(m, L), Carries(m, M)
  PROVE  L = M
<1>1. /\ m.prevIdx \in Nat /\ Len(m.entries) \in Nat
  OBVIOUS
<1>2. /\ L \in Seq(Entry) /\ Len(L) \in Nat /\ M \in Seq(Entry) /\ Len(M) = Len(L)
  BY LogFacts DEF Carries
<1>3. CASE Len(L) = 0
  BY <1>2, <1>3, AgreeWhole DEF Agree
<1>4. CASE Len(L) > 0
  <2>1. L[Len(L)].term = M[Len(L)].term
    <3>1. CASE Len(m.entries) = 0
      BY <1>1, <1>2, <1>4, <3>1 DEF Carries, TermAt
    <3>2. CASE Len(m.entries) > 0
      <4>1. Len(m.entries) \in 1 .. Len(m.entries) /\ Len(L) = m.prevIdx + Len(m.entries)
        BY <1>1, <3>2 DEF Carries
      <4>2. m.entries[Len(m.entries)] = L[Len(L)] /\ m.entries[Len(m.entries)] = M[Len(L)]
        BY <4>1 DEF Carries
      <4> QED BY <1>2, <4>2
    <3> QED BY <1>1, <3>1, <3>2
  <2>2. Agree(L, M, Len(L))
    <3>1. Len(L) \in 1 .. Len(L) /\ Len(L) \in 1 .. Len(M)
      BY <1>2, <1>4
    <3> QED BY <1>2, <2>1, <3>1, SameTerm
  <2> QED BY <1>2, <2>2, AgreeWhole
<1> QED BY <1>2, <1>3, <1>4

\* What raft_recv_appendentries finds in the log already is the same there.
LEMMA PresentAgrees ==
  ASSUME TypeOK, NEW m \in EntriesSent, NEW H, OneHistory(H), NEW L \in H, Carries(m, L),
         NEW lg \in H, ~PrevMissing(m, lg), ~PrevConflicts(m, lg)
  PROVE  /\ NumPresent(m, lg) \in 0 .. Len(m.entries)
         /\ Agree(lg, L, m.prevIdx + NumPresent(m, lg))
         /\ NumPresent(m, lg) < Len(m.entries) =>
              LET c == m.prevIdx + NumPresent(m, lg) + 1
              IN  c <= Len(L) /\ (c <= Len(lg) => lg[c].term # L[c].term)
<1> DEFINE p == NumPresent(m, lg)
<1>1. m.prevIdx \in Nat /\ Len(m.entries) \in Nat /\ Len(L) = m.prevIdx + Len(m.entries)
  BY SentFields DEF Carries
<1>2. /\ p \in 0 .. Len(m.entries) /\ Present(m, lg, p)
      /\ p < Len(m.entries) => ~Present(m, lg, p + 1)
  BY <1>1, NumPresentType
<1>3. Len(lg) \in Nat /\ m.prevIdx <= Len(lg)
  BY <1>1, LogFacts DEF PrevMissing
<1> HIDE DEF p
<1>4. \A x \in 1 .. Len(m.entries) : m.entries[x] = L[m.prevIdx + x]
  BY DEF Carries
<1>5. Agree(lg, L, m.prevIdx + p)
  <2>1. CASE p > 0
    <3>1. m.prevIdx + p <= Len(lg) /\ lg[m.prevIdx + p].term = m.entries[p].term
      BY <1>1, <1>2, <2>1 DEF Present
    <3>2. lg[m.prevIdx + p].term = L[m.prevIdx + p].term
      BY <1>2, <1>4, <2>1, <3>1
    <3>3. m.prevIdx + p \in 1 .. Len(lg) /\ m.prevIdx + p \in 1 .. Len(L)
      BY <1>1, <1>2, <1>3, <2>1, <3>1
    <3> QED BY <3>2, <3>3, SameTerm
  <2>2. CASE p = 0 /\ m.prevIdx > 0
    <3>1. lg[m.prevIdx].term = L[m.prevIdx].term
      BY <1>1, <1>3, <2>2 DEF PrevConflicts, Carries, TermAt
    <3>2. m.prevIdx \in 1 .. Len(lg) /\ m.prevIdx \in 1 .. Len(L)
      BY <1>1, <1>3, <2>2
    <3>3. Agree(lg, L, m.prevIdx)
      BY <3>1, <3>2, SameTerm
    <3> QED BY <1>1, <2>2, <3>3
  <2>3. CASE p = 0 /\ m.prevIdx = 0
    <3>1. m.prevIdx + p = 0
      BY <2>3
    <3>2. Len(L) \in Nat
      BY <1>1, <1>2
    <3>3. Agree(lg, L, 0)
      BY <1>3, <3>2 DEF Agree
    <3> QED BY <3>1, <3>3
  <2> QED BY <1>1, <1>2, <2>1, <2>2, <2>3
<1>6. ASSUME p < Len(m.entries)
      PROVE  /\ m.prevIdx + p + 1 <= Len(L)
             /\ m.prevIdx + p + 1 <= Len(lg) => lg[m.prevIdx + p + 1].term # L[m.prevIdx + p + 1].term
  <2>1. m.prevIdx + p + 1 <= Len(L)
    BY <1>1, <1>2, <1>6
  <2>2. PICK k \in 1 .. p + 1 :
          ~(m.prevIdx + k <= Len(lg) /\ lg[m.prevIdx + k].term = m.entries[k].term)
    BY <1>2, <1>6 DEF Present
  <2>3. k = p + 1
    <3>1. k \in 1 .. p => m.prevIdx + k <= Len(lg) /\ lg[m.prevIdx + k].term = m.entries[k].term
      BY <1>2 DEF Present
    <3> QED BY <1>2, <2>2, <3>1
  <2>4. m.entries[p + 1] = L[m.prevIdx + (p + 1)]
    <3>1. p + 1 \in 1 .. Len(m.entries)
      BY <1>1, <1>2, <1>6
    <3> QED BY <1>4, <3>1
  <2>5. m.prevIdx + (p + 1) = m.prevIdx + p + 1
    BY <1>1, <1>2
  <2> QED BY <2>1, <2>2, <2>3, <2>4, <2>5
<1> QED BY <1>2, <1>5, <1>6 DEF p

\* What the log becomes: what it was, or the beginning of the log that m carries.
LEMMA MergeCarried ==
  ASSUME TypeOK, NEW m \in EntriesSent, NEW H, OneHistory(H), NEW L \in H, Carries(m, L),
         NEW lg \in H, ~PrevMissing(m, lg), ~PrevConflicts(m, lg),
         NEW n \in 0 .. Len(m.entries)
  PROVE  /\ n <= NumPresent(m, lg) => Merge(m, lg, n) = lg
         /\ NumPresent(m, lg) < n => Merge(m, lg, n) = Prefix(L, m.prevIdx + n)
<1> DEFINE p == NumPresent(m, lg)
<1>1. /\ m.prevIdx \in Nat /\ m.entries \in Seq(Entry) /\ Len(m.entries) \in Nat
      /\ Len(L) = m.prevIdx + Len(m.entries)
      /\ \A x \in 1 .. Len(m.entries) : m.entries[x] = L[m.prevIdx + x]
  BY SentFields DEF Carries
<1>2. p \in 0 .. Len(m.entries) /\ Agree(lg, L, m.prevIdx + p)
  BY PresentAgrees
<1>3. lg \in Seq(Entry) /\ L \in Seq(Entry) /\ Len(lg) \in Nat
  BY LogFacts
<1>4. n <= p => Merge(m, lg, n) = lg
  BY DEF Merge
<1>5. ASSUME p < n PROVE Merge(m, lg, n) = Prefix(L, m.prevIdx + n)
  <2> DEFINE a == Prefix(lg, m.prevIdx + p)
  <2> DEFINE b == SubSeq(m.entries, p + 1, n)
  <2>1. Merge(m, lg, n) = a \o b
    <3>1. ~(n <= NumPresent(m, lg))
      BY <1>1, <1>2, <1>5
    <3> QED BY <3>1, Zenon DEF Merge
  <2> HIDE DEF p
  <2>2. m.prevIdx + p \in Nat /\ m.prevIdx + p <= Len(lg)
    BY <1>1, <1>2 DEF Agree
  <2>3. a \in Seq(Entry) /\ Len(a) = m.prevIdx + p
        /\ \A x \in 1 .. m.prevIdx + p : a[x] = lg[x]
    BY <1>3, <2>2, PrefixEntries DEF Agree
  <2>4. b \in Seq(Entry)
    BY <1>1, <1>2, <1>5, SubSeqOfLog
  <2>5. Len(b) = n - p /\ \A x \in 1 .. n - p : b[x] = m.entries[p + x]
    <3>1. p + 1 \in 1 .. Len(m.entries) + 1 /\ n \in p .. Len(m.entries)
      BY <1>1, <1>2, <1>5
    <3>2. Len(b) = n - (p + 1) + 1 /\ \A x \in 1 .. n - (p + 1) + 1 : b[x] = m.entries[(p + 1) + x - 1]
      BY <1>1, <1>2, <1>5, <3>1, SubSeqProperties
    <3>3. n - (p + 1) + 1 = n - p /\ \A x \in 1 .. n - p : (p + 1) + x - 1 = p + x
      BY <1>1, <1>2, <1>5
    <3> QED BY <3>2, <3>3
  <2> HIDE DEF a, b
  <2>6. a \o b \in Seq(Entry) /\ Len(a \o b) = m.prevIdx + n
        /\ \A x \in 1 .. m.prevIdx + n :
             (a \o b)[x] = IF x <= m.prevIdx + p THEN a[x] ELSE b[x - (m.prevIdx + p)]
    <3>1. Len(a) + Len(b) = m.prevIdx + n
      BY <1>1, <1>2, <1>5, <2>3, <2>5
    <3>2. /\ a \o b \in Seq(Entry) /\ Len(a \o b) = Len(a) + Len(b)
          /\ \A x \in 1 .. Len(a) + Len(b) :
               (a \o b)[x] = IF x <= Len(a) THEN a[x] ELSE b[x - Len(a)]
      BY <2>3, <2>4, ConcatProperties
    <3> QED BY <2>3, <3>1, <3>2
  <2> DEFINE c == Prefix(L, m.prevIdx + n)
  <2>7. c \in Seq(Entry) /\ Len(c) = m.prevIdx + n /\ \A x \in 1 .. m.prevIdx + n : c[x] = L[x]
    <3>1. m.prevIdx + n \in Nat /\ m.prevIdx + n <= Len(L)
      BY <1>1
    <3> QED BY <1>3, <3>1, PrefixEntries DEF Agree
  <2> HIDE DEF c
  <2>8. ASSUME NEW x \in 1 .. m.prevIdx + n PROVE (a \o b)[x] = c[x]
    <3>1. CASE x <= m.prevIdx + p
      <4>1. x \in 1 .. m.prevIdx + p
        BY <1>1, <1>2, <3>1
      <4>2. (a \o b)[x] = lg[x]
        BY <2>3, <2>6, <3>1, <4>1
      <4> QED BY <1>2, <2>7, <4>1, <4>2 DEF Agree
    <3>2. CASE x > m.prevIdx + p
      <4> DEFINE y == x - (m.prevIdx + p)
      <4>1. m.prevIdx \in Int /\ p \in Int /\ n \in Int /\ x \in Int /\ Len(m.entries) \in Int
        BY <1>1, <1>2
      <4>2. y \in Int /\ 1 <= y /\ y <= n - p /\ x = m.prevIdx + (p + y)
        BY <3>2, <4>1
      <4>3. 0 <= p /\ n <= Len(m.entries)
        BY <1>1, <1>2
      <4> HIDE DEF y
      <4>4. y \in 1 .. n - p /\ p + y \in 1 .. Len(m.entries)
        BY <4>1, <4>2, <4>3
      <4>5. (a \o b)[x] = b[y]
        BY <2>6, <3>2, <4>1 DEF y
      <4>6. b[y] = m.entries[p + y]
        BY <2>5, <4>4
      <4>7. m.entries[p + y] = L[x]
        BY <1>1, <4>2, <4>4
      <4> QED BY <2>7, <4>5, <4>6, <4>7
    <3>3. x <= m.prevIdx + p \/ x > m.prevIdx + p
      BY <1>1, <1>2
    <3> QED BY <3>1, <3>2, <3>3
  <2> QED BY <2>1, <2>6, <2>7, <2>8, SeqEqual DEF c
<1> QED BY <1>4, <1>5 DEF p

\* Once accepted, all that m carries is in the log.
LEMMA AcceptedAgrees ==
  ASSUME TypeOK, NEW m \in EntriesSent, NEW H, OneHistory(H), NEW L \in H, Carries(m, L),
         NEW lg \in H, ~PrevMissing(m, lg), ~PrevConflicts(m, lg)
  PROVE  Agree(Merge(m, lg, Len(m.entries)), L, Len(L))
<1>1. /\ m.prevIdx \in Nat /\ Len(m.entries) \in Nat /\ Len(L) = m.prevIdx + Len(m.entries)
      /\ L \in Seq(Entry) /\ Len(L) \in Nat
  BY SentFields, LogFacts DEF Carries
<1>2. NumPresent(m, lg) \in 0 .. Len(m.entries) /\ Agree(lg, L, m.prevIdx + NumPresent(m, lg))
  BY PresentAgrees
<1>3. Len(m.entries) \in 0 .. Len(m.entries)
  BY <1>1
<1>4. CASE Len(m.entries) <= NumPresent(m, lg)
  <2>1. NumPresent(m, lg) = Len(m.entries)
    BY <1>1, <1>2, <1>4
  <2> QED BY <1>1, <1>2, <1>3, <1>4, <2>1, MergeCarried
<1>5. CASE NumPresent(m, lg) < Len(m.entries)
  <2>1. Merge(m, lg, Len(m.entries)) = Prefix(L, Len(L))
    BY <1>1, <1>3, <1>5, MergeCarried
  <2>2. Prefix(L, Len(L)) = L
    BY <1>1, WholePrefix
  <2> QED BY <1>1, <2>1, <2>2 DEF Agree
<1> QED BY <1>1, <1>2, <1>4, <1>5

\* The log is cut and written to only after what it has of the message.
LEMMA RewrittenInHistory ==
  ASSUME TypeOK, NEW m \in EntriesSent, NEW H, OneHistory(H), NEW L \in H, Carries(m, L),
         NEW i \in Server, log[i] \in H, Rewritten(i, m)
  PROVE  \/ \E k \in 0 .. Len(log[i]) : log'[i] = Prefix(log[i], k)
         \/ \E k \in 0 .. Len(L) : log'[i] = Prefix(L, k)
<1>1. /\ m.prevIdx \in Nat /\ Len(m.entries) \in Nat /\ Len(L) = m.prevIdx + Len(m.entries)
      /\ log[i] \in Seq(Entry) /\ Len(log[i]) \in Nat
  BY SentFields, LogFacts DEF Carries
<1>2. ~PrevMissing(m, log[i])
  BY DEF Rewritten
<1>3. CASE /\ PrevConflicts(m, log[i])
           /\ \E k \in m.prevIdx - 1 .. Len(log[i]) : log'[i] = Prefix(log[i], k)
  <2>1. m.prevIdx - 1 \in Nat
    BY <1>1, <1>3 DEF PrevConflicts
  <2> QED BY <1>1, <1>3, <2>1
<1>4. CASE /\ ~PrevConflicts(m, log[i])
           /\ \E n \in 0 .. Len(m.entries) : log'[i] = Merge(m, log[i], n)
  <2>1. PICK n \in 0 .. Len(m.entries) : log'[i] = Merge(m, log[i], n)
    BY <1>4
  <2>2. NumPresent(m, log[i]) \in 0 .. Len(m.entries)
    BY <1>2, <1>4, PresentAgrees
  <2>3. CASE n <= NumPresent(m, log[i])
    <3>1. log'[i] = log[i]
      BY <1>2, <1>4, <2>1, <2>3, MergeCarried
    <3>2. log'[i] = Prefix(log[i], Len(log[i])) /\ Len(log[i]) \in 0 .. Len(log[i])
      BY <1>1, <3>1, WholePrefix
    <3> QED BY <3>2
  <2>4. CASE NumPresent(m, log[i]) < n
    <3>1. log'[i] = Prefix(L, m.prevIdx + n) /\ m.prevIdx + n \in 0 .. Len(L)
      BY <1>1, <1>2, <1>4, <2>1, <2>4, MergeCarried
    <3> QED BY <3>1
  <2> QED BY <2>2, <2>3, <2>4
<1>5. CASE /\ ~PrevConflicts(m, log[i])
           /\ \E k \in m.prevIdx + NumPresent(m, log[i]) .. Len(log[i]) : log'[i] = Prefix(log[i], k)
  <2>1. NumPresent(m, log[i]) \in Nat
    BY <1>1, <1>2, <1>5, PresentAgrees
  <2> QED BY <1>1, <1>5, <2>1
<1> QED BY <1>3, <1>4, <1>5 DEF Rewritten

----------------------------------------------------------------------------
\* raft_recv_entry: one more entry, of the leader's term.
Grown(i) ==
  /\ state[i] = "leader" /\ state'[i] = "leader" /\ currentTerm'[i] = currentTerm[i]
  /\ Len(log'[i]) = Len(log[i]) + 1 /\ Agree(log[i], log'[i], Len(log[i]))
  /\ log'[i][Len(log[i]) + 1].term = currentTerm[i]

\* A log that is not grown by a client is a piece of one that was there.
LEMMA NewLog ==
  ASSUME ElectionInv, TenureInv, TypeOK', NEW H, LogsInv(H), NEW i \in Server, Effects(i)
  PROVE  \/ log'[i] \in H /\ \A n \in 1 .. Len(log'[i]) : log'[i][n].term <= currentTerm'[i]
         \/ Grown(i)
<1>1. /\ OneHistory(H) /\ log[i] \in H /\ TypeOK
      /\ \A n \in 1 .. Len(log[i]) : log[i][n].term <= currentTerm[i]
  BY DEF LogsInv, LogsKept, ElectionInv
<1>2. /\ log[i] \in Seq(Entry) /\ Len(log[i]) \in Nat /\ currentTerm[i] \in Nat
      /\ \A n \in 1 .. Len(log[i]) : log[i][n].term \in Nat
  BY <1>1, LogFacts DEF TypeOK
<1>3. currentTerm[i] <= currentTerm'[i]
  BY DEF Effects, TermKept
<1>4. ASSUME NEW L \in H, NEW k \in 0 .. Len(L), log'[i] = Prefix(L, k),
             NEW t \in Nat, t <= currentTerm'[i], \A n \in 1 .. Len(L) : L[n].term <= t,
             currentTerm'[i] \in Nat
      PROVE  log'[i] \in H /\ \A n \in 1 .. Len(log'[i]) : log'[i][n].term <= currentTerm'[i]
  <2>1. log'[i] \in H
    BY <1>1, <1>4 DEF OneHistory
  <2>2. L \in Seq(Entry) /\ Len(L) \in Nat /\ \A n \in 1 .. Len(L) : L[n].term \in Nat
    BY <1>1, LogFacts
  <2>3. Len(log'[i]) = k /\ \A n \in 1 .. k : L[n] = log'[i][n]
    BY <1>4, <2>2, PrefixEntries DEF Agree
  <2> QED BY <1>4, <2>1, <2>2, <2>3
<1>5. CASE log' = log
  <2>1. currentTerm'[i] \in Nat
    BY DEF TypeOK
  <2> QED BY <1>1, <1>2, <1>3, <1>5, <2>1
<1>6. CASE /\ state[i] = "leader" /\ state'[i] = "leader" /\ currentTerm' = currentTerm
           /\ \E v \in Value : log'[i] = Append(log[i], [term |-> currentTerm[i], value |-> v])
  <2>1. PICK v \in Value : log'[i] = Append(log[i], [term |-> currentTerm[i], value |-> v])
    BY <1>6
  <2> DEFINE e == [term |-> currentTerm[i], value |-> v]
  <2>2. e \in Entry /\ e.term = currentTerm[i] /\ log'[i] = Append(log[i], e)
    BY <1>2, <2>1 DEF Entry
  <2> HIDE DEF e
  <2>3. /\ Len(log'[i]) = Len(log[i]) + 1 /\ log'[i][Len(log[i]) + 1] = e
        /\ \A x \in 1 .. Len(log[i]) : log'[i][x] = log[i][x]
    BY <1>2, <2>2, AppendProperties
  <2> QED BY <1>2, <1>6, <2>2, <2>3 DEF Grown, Agree
<1>7. CASE \E m \in EntriesSent :
             /\ m.dst = i /\ currentTerm[i] <= m.term /\ currentTerm'[i] = m.term
             /\ Rewritten(i, m)
  <2>1. PICK m \in EntriesSent :
             /\ m.dst = i /\ currentTerm[i] <= m.term /\ currentTerm'[i] = m.term
             /\ Rewritten(i, m)
    BY <1>7
  <2>2. PICK L \in H : Carries(m, L)
    BY DEF LogsInv, MessagesCarry
  <2>3. m.term \in Nat /\ \A n \in 1 .. Len(L) : L[n].term <= m.term
    BY <1>1, <2>2, SentFields DEF LogsInv, MessageLogs
  <2>4. CASE \E k \in 0 .. Len(log[i]) : log'[i] = Prefix(log[i], k)
    <3>1. currentTerm[i] <= currentTerm'[i] /\ currentTerm'[i] \in Nat
      BY <2>1, <2>3
    <3> QED BY <1>1, <1>2, <1>4, <2>4, <3>1
  <2>5. CASE \E k \in 0 .. Len(L) : log'[i] = Prefix(L, k)
    <3>1. m.term <= currentTerm'[i] /\ currentTerm'[i] \in Nat
      BY <2>1, <2>3
    <3> QED BY <1>4, <2>3, <2>5, <3>1
  <2> QED BY <1>1, <2>1, <2>2, <2>4, <2>5, RewrittenInHistory
<1> QED BY <1>5, <1>6, <1>7 DEF Effects, LogMoves

\* A leader's new entry keeps to the one history: nobody else has entries of its
\* term, and it has all of them.
LEMMA GrowHistory ==
  ASSUME ElectionInv, NEW H, LogsInv(H), NEW i \in Server, Grown(i), log'[i] \in Seq(Entry),
         NEW K, K = H \cup {log'[i]}
  PROVE  OneHistory(K)
<1> DEFINE lg == log[i]
<1> DEFINE new == log'[i]
<1> DEFINE t == currentTerm[i]
<1>1. /\ OneHistory(H) /\ lg \in H /\ t \in Nat
      /\ \A n \in 1 .. Len(lg) : lg[n].term <= t
  BY DEF LogsInv, LogsKept, ElectionInv, TypeOK
<1>2. /\ lg \in Seq(Entry) /\ Len(lg) \in Nat
      /\ \A n \in 1 .. Len(lg) : lg[n].term \in Nat
  BY <1>1, LogFacts
<1>3. /\ new \in Seq(Entry) /\ Len(new) = Len(lg) + 1 /\ Agree(lg, new, Len(lg))
      /\ new[Len(lg) + 1].term = t
  BY DEF Grown
<1>4. \A L \in H : \A n \in 1 .. Len(L) :
        L[n].term = t => n \in 1 .. Len(lg) /\ lg[n].term = t
  BY DEF LogsInv, LeaderAhead, Grown, Holds
<1>5. K = H \cup {new}
  OBVIOUS
<1> HIDE DEF lg, new, t
<1>6. \A x \in 1 .. Len(lg) : new[x] = lg[x]
  BY <1>3 DEF Agree
<1>7. K \subseteq Seq(Entry)
  BY <1>1, <1>3, <1>5 DEF OneHistory
<1>8. ASSUME NEW n \in 0 .. Len(new) PROVE Prefix(new, n) \in K
  <2>1. CASE n \in 0 .. Len(lg)
    <3>1. Agree(lg, new, n) /\ n \in Nat
      BY <1>2, <1>3, <2>1 DEF Agree
    <3>2. Prefix(lg, n) = Prefix(new, n)
      BY <1>2, <1>3, <3>1, AgreePrefix
    <3> QED BY <1>1, <1>5, <2>1, <3>2 DEF OneHistory
  <2>2. CASE n = Len(new)
    BY <1>3, <1>5, <2>2, WholePrefix
  <2> QED BY <1>2, <1>3, <2>1, <2>2
<1>9. ASSUME NEW x \in 1 .. Len(new), NEW y \in 1 .. Len(new), x <= y
      PROVE  new[x].term <= new[y].term
  <2>1. CASE y \in 1 .. Len(lg)
    <3>1. x \in 1 .. Len(lg)
      BY <1>2, <1>9, <2>1
    <3> QED BY <1>1, <1>6, <1>9, <2>1, <3>1 DEF OneHistory
  <2>2. CASE y = Len(lg) + 1 /\ x \in 1 .. Len(lg)
    BY <1>1, <1>3, <1>6, <2>2
  <2>3. CASE y = Len(lg) + 1 /\ x = Len(lg) + 1
    BY <1>1, <1>3, <2>3
  <2> QED BY <1>2, <1>3, <2>1, <2>2, <2>3
<1>10. ASSUME NEW L \in H, NEW n \in 1 .. Len(L), NEW k \in 1 .. Len(new), k <= n,
              L[n].term = new[k].term
       PROVE  Agree(L, new, k)
  <2>1. L \in Seq(Entry) /\ Len(L) \in Nat
    BY <1>1, LogFacts
  <2>2. CASE k \in 1 .. Len(lg)
    <3>1. Agree(L, lg, k)
      BY <1>1, <1>6, <1>10, <2>2 DEF OneHistory
    <3> QED BY <1>2, <1>3, <1>6, <2>2, <3>1 DEF Agree
  <2>3. CASE k = Len(lg) + 1
    BY <1>2, <1>3, <1>4, <1>10, <2>1, <2>3
  <2> QED BY <1>2, <1>3, <2>2, <2>3
<1>11. ASSUME NEW M \in H, NEW n \in 1 .. Len(new), NEW k \in 1 .. Len(M), k <= n,
              new[n].term = M[k].term
       PROVE  Agree(new, M, k)
  <2>1. M \in Seq(Entry) /\ Len(M) \in Nat
    BY <1>1, LogFacts
  <2>2. CASE n \in 1 .. Len(lg)
    <3>1. Agree(lg, M, k)
      BY <1>1, <1>6, <1>11, <2>2 DEF OneHistory
    <3> QED BY <1>2, <1>3, <1>6, <3>1, <2>1 DEF Agree
  <2>3. CASE n = Len(lg) + 1
    <3>1. k \in 1 .. Len(lg) /\ lg[k].term = M[k].term
      BY <1>3, <1>4, <1>11, <2>3
    <3>2. Agree(lg, M, k)
      BY <1>1, <3>1, SameTerm
    <3> QED BY <1>2, <1>3, <1>6, <3>1, <3>2 DEF Agree
  <2> QED BY <1>2, <1>3, <2>2, <2>3
<1>12. ASSUME NEW k \in 1 .. Len(new) PROVE Agree(new, new, k)
  BY <1>2, <1>3 DEF Agree
<1>13. \A L, M \in K : \A n \in 1 .. Len(L), k \in 1 .. Len(M) :
         k <= n /\ L[n].term = M[k].term => Agree(L, M, k)
  <2> SUFFICES ASSUME NEW L \in K, NEW M \in K, NEW n \in 1 .. Len(L), NEW k \in 1 .. Len(M),
                      k <= n, L[n].term = M[k].term
               PROVE  Agree(L, M, k)
    OBVIOUS
  <2>1. CASE L \in H /\ M \in H
    BY <1>1, <2>1 DEF OneHistory
  <2>2. CASE L \in H /\ M = new
    BY <1>10, <2>2
  <2>3. CASE L = new /\ M \in H
    BY <1>11, <2>3
  <2>4. CASE L = new /\ M = new
    BY <1>12, <2>4
  <2> QED BY <1>5, <2>1, <2>2, <2>3, <2>4
<1>14. \A L \in K : /\ \A n \in 0 .. Len(L) : Prefix(L, n) \in K
                    /\ \A x, y \in 1 .. Len(L) : x <= y => L[x].term <= L[y].term
  BY <1>1, <1>5, <1>8, <1>9 DEF OneHistory
<1> QED BY <1>7, <1>13, <1>14 DEF OneHistory

\* No step makes an entry that a new leader would not have seen: the servers of
\* its majority have left the older terms.
LEMMA FirstOfTerm ==
  ASSUME ElectionInv, TenureInv, NEW H, EntriesLed(H), NEW i \in Server,
         state[i] = "candidate", Won(i, currentTerm[i]),
         NEW L \in H, NEW n \in 1 .. Len(L)
  PROVE  L[n].term # currentTerm[i]
<1> SUFFICES ASSUME L[n].term = currentTerm[i] PROVE FALSE
  OBVIOUS
<1>1. PICK j \in Server : BecameLeader(j, currentTerm[i])
  BY DEF EntriesLed
<1>2. PICK m \in EntriesSent : m.src = j /\ m.term = currentTerm[i]
  BY <1>1 DEF BecameLeader
<1>3. Won(j, currentTerm[i]) /\ (currentTerm[i] = currentTerm[j] => state[j] # "candidate")
  BY <1>2 DEF TenureInv, SentByLeaders
<1>4. j = i
  BY <1>3, OneWinner DEF TenureInv
<1> QED BY <1>3, <1>4

\* raft_send_appendentries takes what it sends from the log as it is then.
LEMMA NewEntriesMessage ==
  ASSUME TypeOK', NEW i \in Server, Effects(i), NEW m \in EntriesSent', m \notin EntriesSent
  PROVE  /\ m.src = i /\ m.term = currentTerm'[i] /\ state'[i] = "leader"
         /\ Carries(m, log'[i]) /\ m.commit = commitIdx'[i]
<1> DEFINE new == log'[i]
<1>1. NewMessage(i, m) /\ m.type = "AppendEntries"
  BY DEF EntriesSent, Effects
<1>2. PICK next \in 1 .. Len(new) + 1 :
        /\ m.prevIdx = next - 1 /\ m.prevTerm = TermAt(new, next - 1)
        /\ m.entries = SubSeq(new, next, Len(new)) /\ m.commit = commitIdx'[i]
  BY <1>1 DEF NewMessage
<1>3. new \in Seq(Entry) /\ Len(new) \in Nat /\ next \in Int
  BY LenProperties DEF TypeOK
<1> HIDE DEF new
<1>4. \A x \in next .. Len(new) : new[x] \in Entry
  BY <1>3, ElementOfSeq
<1>5. /\ Len(m.entries) = IF next <= Len(new) THEN Len(new) - next + 1 ELSE 0
      /\ \A x \in 1 .. Len(new) - next + 1 : m.entries[x] = new[next + x - 1]
  BY <1>2, <1>3, <1>4, SubSeqProperties
<1>6. Len(m.entries) = Len(new) - next + 1
  BY <1>3, <1>5
<1>7. Carries(m, new)
  BY <1>2, <1>3, <1>5, <1>6 DEF Carries
<1> QED BY <1>1, <1>2, <1>7 DEF NewMessage, new

\* What a message carries was there when it was sent.
LEMMA OldCarried ==
  ASSUME TypeOK, NEW H, LogsInv(H), NEW K, H \subseteq K, OneHistory(K),
         NEW m \in EntriesSent, NEW L \in K, Carries(m, L)
  PROVE  L \in H
<1>1. PICK M \in H : Carries(m, M)
  BY DEF LogsInv, MessagesCarry
<1>2. m.prevIdx \in Nat /\ Len(m.entries) \in Nat
  BY SentFields
<1> QED BY <1>1, <1>2, CarriedOnce

LEMMA EffectsLogsInv ==
  ASSUME ElectionInv, TenureInv, ElectionInv', TenureInv', NEW H, LogsInv(H),
         NEW i \in Server, Effects(i), NEW K, K = H \cup {log'[i]}
  PROVE  LogsInv(K)'
<1> DEFINE new == log'[i]
<1>1. /\ OneHistory(H) /\ TypeOK /\ TypeOK' /\ LogsInv(H)
      /\ \A j \in Server : log[j] \in H
      /\ EntriesLed(H) /\ LogsKept(H) /\ LeaderAhead(H) /\ MessagesCarry(H) /\ MessageLogs(H)
  BY DEF LogsInv, LogsKept, ElectionInv
<1>2. \A j \in Server :
        /\ log[j] \in Seq(Entry) /\ Len(log[j]) \in Nat /\ currentTerm[j] \in Nat
        /\ log'[j] \in Seq(Entry) /\ Len(log'[j]) \in Nat /\ currentTerm'[j] \in Nat
        /\ \A n \in 1 .. Len(log[j]) : log[j][n].term \in Nat
  <2>1. \A j \in Server : log'[j] \in Seq(Entry) /\ currentTerm'[j] \in Nat /\ currentTerm[j] \in Nat
    BY <1>1 DEF TypeOK
  <2> QED BY <1>1, <2>1, LogFacts, LenProperties
<1>3. \/ K = H /\ \A n \in 1 .. Len(new) : new[n].term <= currentTerm'[i]
      \/ Grown(i)
  <2>1. \/ log'[i] \in H /\ \A n \in 1 .. Len(log'[i]) : log'[i][n].term <= currentTerm'[i]
        \/ Grown(i)
    BY <1>1, NewLog
  <2>2. ASSUME log'[i] \in H PROVE K = H
    <3>1. \A x : x \in K <=> x \in H
      BY <2>2, Zenon
    <3> QED BY <3>1, Zenon
  <2> QED BY <2>1, <2>2
<1>4. OneHistory(K)
  BY <1>1, <1>2, <1>3, GrowHistory
<1>5. /\ EntriesSent \subseteq EntriesSent'
      /\ \A k \in Server : currentTerm[k] <= currentTerm'[k]
      /\ \A k, t : BecameLeader(k, t) => BecameLeader(k, t)'
  BY NothingTakenBack DEF TenureInv
<1>6. \A k \in Server \ {i} :
        currentTerm'[k] = currentTerm[k] /\ log'[k] = log[k] /\ state'[k] = state[k]
  BY DEF Effects, OthersKept
<1>7. Grown(i) => /\ currentTerm'[i] = currentTerm[i] /\ state[i] = "leader"
                  /\ Len(new) = Len(log[i]) + 1 /\ new[Len(log[i]) + 1].term = currentTerm[i]
                  /\ \A x \in 1 .. Len(log[i]) : new[x] = log[i][x]
  BY DEF Grown, Agree
<1>8. EntriesLed(K)'
  <2> SUFFICES ASSUME NEW L \in K, NEW n \in 1 .. Len(L)
               PROVE  \E j \in Server : BecameLeader(j, L[n].term)'
    BY DEF EntriesLed
  <2>1. CASE L \in H
    BY <1>1, <1>5, <2>1 DEF EntriesLed
  <2>2. CASE L = new /\ Grown(i) /\ n \in 1 .. Len(log[i])
    <3>1. L[n].term = log[i][n].term
      BY <1>7, <2>2
    <3> QED BY <1>1, <1>5, <2>2, <3>1 DEF EntriesLed
  <2>3. CASE L = new /\ Grown(i) /\ n = Len(log[i]) + 1
    BY <1>5, <1>7, <2>3 DEF TenureInv, LeadersSent
  <2> QED BY <1>2, <1>3, <1>7, <2>1, <2>2, <2>3
<1>9. LogsKept(K)'
  <2> SUFFICES ASSUME NEW j \in Server
               PROVE  /\ log'[j] \in K
                      /\ \A n \in 1 .. Len(log'[j]) : log'[j][n].term <= currentTerm'[j]
    BY DEF LogsKept
  <2>1. CASE j # i
    BY <1>1, <1>6, <2>1 DEF LogsKept
  <2>2. CASE j = i /\ Grown(i)
    <3>1. new \in K /\ \A n \in 1 .. Len(log[i]) : log[i][n].term <= currentTerm[i]
      BY <1>1 DEF LogsKept
    <3> HIDE DEF new
    <3>2. ASSUME NEW n \in 1 .. Len(new) PROVE new[n].term <= currentTerm'[i]
      <4>1. CASE n \in 1 .. Len(log[i])
        BY <1>7, <2>2, <3>1, <4>1
      <4>2. CASE n = Len(log[i]) + 1
        BY <1>2, <1>7, <2>2, <4>2
      <4> QED BY <1>2, <1>7, <2>2, <4>1, <4>2
    <3> QED BY <2>2, <3>1, <3>2 DEF new
  <2>3. CASE j = i /\ ~Grown(i)
    BY <1>3, <2>3
  <2> QED BY <2>1, <2>2, <2>3
<1>10. state[i] = "leader" /\ currentTerm'[i] = currentTerm[i] => Agree(log[i], new, Len(log[i]))
  BY LeaderKeepsLog DEF Effects
<1>11. LeaderAhead(K)'
  <2> SUFFICES ASSUME NEW j \in Server, state'[j] = "leader", NEW L \in K, NEW n \in 1 .. Len(L),
                      L[n].term = currentTerm'[j]
               PROVE  Holds(log'[j], n, currentTerm'[j])
    BY DEF LeaderAhead
  <2>1. CASE L \in H /\ j # i
    BY <1>1, <1>6, <2>1 DEF LeaderAhead
  <2>2. CASE L \in H /\ j = i /\ state[i] = "leader" /\ currentTerm'[i] = currentTerm[i]
    <3>1. Holds(log[i], n, currentTerm[i])
      BY <1>1, <2>2 DEF LeaderAhead
    <3> QED BY <1>2, <1>10, <2>2, <3>1 DEF Holds, Agree
  <2>3. CASE L \in H /\ j = i /\ ~(state[i] = "leader" /\ currentTerm'[i] = currentTerm[i])
    <3>1. state[i] = "candidate" /\ currentTerm'[i] = currentTerm[i] /\ Won(i, currentTerm[i])
      BY <2>3 DEF Effects, RoleMoves
    <3> QED BY <1>1, <2>3, <3>1, FirstOfTerm
  <2>4. CASE L = new /\ j = i
    BY <1>2, <2>4 DEF Holds
  <2>5. CASE L = new /\ j # i /\ Grown(i) /\ n \in 1 .. Len(log[i])
    <3>1. log[i][n].term = currentTerm[j] /\ state[j] = "leader" /\ log[i] \in H
      BY <1>1, <1>6, <1>7, <2>5
    <3> QED BY <1>1, <1>6, <2>5, <3>1 DEF LeaderAhead
  <2>6. CASE L = new /\ j # i /\ Grown(i) /\ n = Len(log[i]) + 1
    <3>1. currentTerm[j] = currentTerm[i] /\ state[j] = "leader" /\ state[i] = "leader"
      BY <1>6, <1>7, <2>6
    <3> QED BY <2>6, <3>1, ElectionInvImpliesSafety DEF ElectionSafety
  <2> QED BY <1>2, <1>3, <1>7, <2>1, <2>2, <2>3, <2>4, <2>5, <2>6
<1>12. ASSUME NEW m \in EntriesSent', m \notin EntriesSent
       PROVE  /\ m.src = i /\ m.term = currentTerm'[i] /\ state'[i] = "leader" /\ Carries(m, new)
  BY <1>1, <1>12, NewEntriesMessage
<1>13. MessagesCarry(K)'
  <2> SUFFICES ASSUME NEW m \in EntriesSent' PROVE \E L \in K : Carries(m, L)
    BY DEF MessagesCarry
  <2>1. CASE m \in EntriesSent
    BY <1>1, <2>1 DEF MessagesCarry
  <2> QED BY <1>12, <2>1
<1>14. MessageLogs(K)'
  <2> SUFFICES ASSUME NEW m \in EntriesSent', NEW L \in K, Carries(m, L)
               PROVE  /\ \A n \in 1 .. Len(L) : L[n].term <= m.term
                      /\ \A M \in K : \A k \in 1 .. Len(M) :
                           M[k].term = m.term => Agree(L, M, Smaller(Len(L), k))
                      /\ state'[m.src] = "leader" /\ currentTerm'[m.src] = m.term
                           => Agree(L, log'[m.src], Len(L))
    BY DEF MessageLogs
  <2>1. L \in Seq(Entry) /\ Len(L) \in Nat
    BY <1>4, LogFacts
  <2>2. CASE m \in EntriesSent
    <3>1. L \in H
      <4>1. H \subseteq K
        OBVIOUS
      <4> QED BY <1>1, <1>4, <2>2, <4>1, OldCarried
    <3>2. /\ \A n \in 1 .. Len(L) : L[n].term <= m.term
          /\ \A M \in H : \A k \in 1 .. Len(M) :
               M[k].term = m.term => Agree(L, M, Smaller(Len(L), k))
          /\ state[m.src] = "leader" /\ currentTerm[m.src] = m.term
               => Agree(L, log[m.src], Len(L))
      BY <1>1, <2>2, <3>1 DEF MessageLogs
    <3>3. m.src \in Server /\ BecameLeader(m.src, m.term) /\ Won(m.src, m.term)
      BY <1>1, <2>2, SentFields DEF BecameLeader, TenureInv, SentByLeaders
    <3>4. m.term = currentTerm[m.src] => state[m.src] # "candidate"
      BY <2>2 DEF TenureInv, SentByLeaders
    <3>5. ASSUME NEW M \in K, NEW k \in 1 .. Len(M), M[k].term = m.term
          PROVE  Agree(L, M, Smaller(Len(L), k))
      <4>1. CASE M \in H
        BY <3>2, <3>5, <4>1
      <4>2. CASE M = new /\ Grown(i) /\ k \in 1 .. Len(log[i])
        <5>1. Agree(L, log[i], Smaller(Len(L), k))
          BY <1>1, <1>7, <3>2, <3>5, <4>2
        <5>2. Smaller(Len(L), k) \in Nat /\ Smaller(Len(L), k) <= k
          BY <1>2, <2>1, <4>2 DEF Smaller
        <5>3. Len(log[i]) <= Len(new) /\ k <= Len(log[i])
          BY <1>2, <1>7, <4>2
        <5> HIDE DEF new
        <5>4. M = new /\ \A x \in 1 .. Len(log[i]) : new[x] = log[i][x]
          BY <1>2, <1>7, <4>2
        <5>5. PICK c : c = Smaller(Len(L), k)
          OBVIOUS
        <5>6. c \in Nat /\ c <= Len(log[i]) /\ c <= Len(new)
          BY <1>2, <4>2, <5>2, <5>3, <5>5
        <5>7. ASSUME NEW x \in 1 .. c PROVE L[x] = M[x]
          <6>1. x \in 1 .. Len(log[i])
            BY <1>2, <5>6
          <6> QED BY <5>1, <5>4, <5>5, <6>1 DEF Agree
        <5> QED BY <5>1, <5>4, <5>5, <5>6, <5>7 DEF Agree
      <4>3. CASE M = new /\ Grown(i) /\ k = Len(log[i]) + 1
        <5>1. m.term = currentTerm[i] /\ state[i] = "leader"
          BY <1>7, <3>5, <4>3
        <5>2. Won(i, currentTerm[i])
          BY <5>1 DEF TenureInv, LeadersSent, SentByLeaders, BecameLeader
        <5>3. m.src = i
          BY <3>3, <5>1, <5>2, OneWinner DEF TenureInv
        <5>4. Agree(L, log[i], Len(L))
          BY <3>2, <5>1, <5>3
        <5> QED BY <1>2, <1>7, <2>1, <4>3, <5>4 DEF Agree, Smaller
      <4> QED BY <1>2, <1>3, <1>7, <4>1, <4>2, <4>3
    <3>6. ASSUME state'[m.src] = "leader", currentTerm'[m.src] = m.term
          PROVE  Agree(L, log'[m.src], Len(L))
      <4>1. CASE m.src # i
        BY <1>6, <3>2, <3>3, <3>6, <4>1
      <4>2. CASE m.src = i
        <5>1. state[i] = "leader" /\ currentTerm'[i] = currentTerm[i]
          BY <3>4, <3>6, <4>2 DEF Effects, RoleMoves
        <5> QED BY <1>2, <1>10, <2>1, <3>2, <3>6, <4>2, <5>1 DEF Agree
      <4> QED BY <4>1, <4>2
    <3> QED BY <3>2, <3>5, <3>6
  <2>3. CASE m \notin EntriesSent
    <3>1. /\ m.src = i /\ m.term = currentTerm'[i] /\ state'[i] = "leader" /\ Carries(m, new)
      BY <1>12, <2>3
    <3>2. L = new
      <4>1. new \in K /\ m.prevIdx \in Nat /\ Len(m.entries) \in Nat
        BY <1>1, MessageFields, LenProperties DEF EntriesSent, TypeOK
      <4> QED BY <1>4, <3>1, <4>1, CarriedOnce
    <3>3. \A n \in 1 .. Len(L) : L[n].term <= m.term
      BY <1>9, <3>1, <3>2 DEF LogsKept
    <3>4. ASSUME NEW M \in K, NEW k \in 1 .. Len(M), M[k].term = m.term
          PROVE  Agree(L, M, Smaller(Len(L), k))
      <4>1. k \in 1 .. Len(new) /\ new[k].term = m.term
        BY <1>11, <3>1, <3>4 DEF LeaderAhead, Holds
      <4>2. Agree(L, M, k)
        BY <1>4, <3>2, <3>4, <4>1, SameTerm
      <4>3. Smaller(Len(L), k) = k
        BY <2>1, <3>2, <4>1 DEF Smaller
      <4> QED BY <4>2, <4>3
    <3>5. Agree(L, log'[m.src], Len(L))
      BY <2>1, <3>1, <3>2 DEF Agree
    <3> QED BY <3>3, <3>4, <3>5
  <2> QED BY <2>2, <2>3
<1> QED BY <1>4, <1>8, <1>9, <1>11, <1>13, <1>14 DEF LogsInv, OneHistory

----------------------------------------------------------------------------
InitialHistory == {<<>>}

LEMMA InitLogsInv == Init => LogsInv(InitialHistory)
<1> SUFFICES ASSUME Init PROVE LogsInv(InitialHistory)
  OBVIOUS
<1>1. /\ msgs = {} /\ \A i \in Server : state[i] = "follower" /\ log[i] = <<>>
  BY DEF Init
<1>2. <<>> \in Seq(Entry) /\ Len(<<>>) = 0
  BY EmptySeq
<1>3. Prefix(<<>>, 0) = <<>>
  BY <1>2, WholePrefix
<1>4. OneHistory(InitialHistory)
  BY <1>2, <1>3 DEF OneHistory, InitialHistory
<1>5. EntriesLed(InitialHistory) /\ LogsKept(InitialHistory) /\ LeaderAhead(InitialHistory)
  BY <1>1, <1>2 DEF EntriesLed, LogsKept, LeaderAhead, InitialHistory
<1>6. MessagesCarry(InitialHistory) /\ MessageLogs(InitialHistory)
  BY <1>1 DEF MessagesCarry, MessageLogs, EntriesSent
<1> QED BY <1>4, <1>5, <1>6 DEF LogsInv

LEMMA SameLogsInv ==
  ASSUME NEW H, LogsInv(H), UNCHANGED vars
  PROVE  LogsInv(H)'
<1> USE DEF vars, EntriesSent, BecameLeader
<1>1. OneHistory(H)' /\ LogsKept(H)' /\ LeaderAhead(H)'
  BY DEF LogsInv, LogsKept, LeaderAhead
<1>2. EntriesLed(H)'
  BY DEF LogsInv, EntriesLed
<1>3. MessagesCarry(H)'
  BY DEF LogsInv, MessagesCarry
<1>4. MessageLogs(H)'
  BY DEF LogsInv, MessageLogs
<1> QED BY <1>1, <1>2, <1>3, <1>4 DEF LogsInv

MatchingInv == \E H \in SUBSET Seq(Entry) : LogsInv(H)

LEMMA NextMatchingInv ==
  ASSUME ElectionInv, TenureInv, MatchingInv, [Next]_vars
  PROVE  MatchingInv'
<1>1. PICK H \in SUBSET Seq(Entry) : LogsInv(H)
  BY DEF MatchingInv
<1>2. ElectionInv' /\ TenureInv'
  BY NextTenureInv
<1>3. CASE Next
  <2>1. PICK i \in Server : Effects(i)
    BY <1>3, NextEffects
  <2>2. PICK K : K = H \cup {log'[i]}
    OBVIOUS
  <2>3. LogsInv(K)'
    BY <1>1, <1>2, <2>1, <2>2, EffectsLogsInv
  <2>4. K \in SUBSET Seq(Entry)
    BY <2>3 DEF LogsInv, OneHistory
  <2> QED BY <2>3, <2>4 DEF MatchingInv
<1>4. CASE UNCHANGED vars
  <2>1. LogsInv(H)'
    BY <1>1, <1>4, SameLogsInv
  <2> QED BY <2>1 DEF MatchingInv
<1> QED BY <1>3, <1>4

LEMMA InitMatchingInv == Init => MatchingInv
<1>1. InitialHistory \in SUBSET Seq(Entry)
  BY EmptySeq DEF InitialHistory
<1> QED BY <1>1, InitLogsInv DEF MatchingInv

LEMMA Matching == Spec => [](ElectionInv /\ TenureInv /\ MatchingInv)
<1> QED BY InitElectionInv, InitTenureInv, InitMatchingInv, NextTenureInv, NextMatchingInv, PTL
        DEF Spec

\* Two logs with an entry of the same term at the same index are the same up to
\* it, whatever is lost, repeated or reordered, whoever restarts and whichever
\* callback fails: raft_recv_appendentries compares terms only, and that is enough.
THEOREM LogsMatch == Spec => []LogMatching
<1>1. ASSUME ElectionInv, MatchingInv, NEW i \in Server, NEW j \in Server,
             NEW k \in 1 .. Smaller(Len(log[i]), Len(log[j])), log[i][k].term = log[j][k].term
      PROVE  Prefix(log[i], k) = Prefix(log[j], k)
  <2>1. PICK H \in SUBSET Seq(Entry) : LogsInv(H)
    BY <1>1 DEF MatchingInv
  <2>2. OneHistory(H) /\ log[i] \in H /\ log[j] \in H
    BY <2>1 DEF LogsInv, LogsKept
  <2>3. log[i] \in Seq(Entry) /\ log[j] \in Seq(Entry) /\ Len(log[i]) \in Nat /\ Len(log[j]) \in Nat
    BY <2>2, LogFacts
  <2>4. k \in 1 .. Len(log[i]) /\ k \in 1 .. Len(log[j]) /\ k \in Nat
    BY <2>3 DEF Smaller
  <2>5. Agree(log[i], log[j], k)
    BY <1>1, <2>2, <2>4, SameTerm
  <2> QED BY <2>3, <2>4, <2>5, AgreePrefix
<1>2. ElectionInv /\ MatchingInv => LogMatching
  BY <1>1 DEF LogMatching
<1> QED BY <1>2, Matching, PTL

----------------------------------------------------------------------------
(***************************************************************************)
(* What is committed.  Over the one history H an entry (k, t), the one at  *)
(* index k of term t, is either kept by every log of a later term or lost: *)
(* some majority has left term t without acknowledging it, so that it can  *)
(* never be committed.                                                     *)
(***************************************************************************)
\* Server v has told the leader of t that it holds entries up to k, or led itself.
Acked(v, k, t) ==
  \/ BecameLeader(v, t)
  \/ \E a \in Acknowledged : a.src = v /\ a.term = t /\ k <= a.idx

Lost(k, t) == \E Q \in Quorums : \A v \in Q : t < currentTerm[v] /\ ~Acked(v, k, t)

\* What L, a log of term u, has of the entries of older terms.
Keeps(H, L, u) ==
  \A M \in H : \A k \in 1 .. Len(M) :
    M[k].term < u => Holds(L, k, M[k].term) \/ Lost(k, M[k].term)

EntriesKeep(H) == \A L \in H : \A n \in 1 .. Len(L) : Keeps(H, L, L[n].term)
SendersKeep(H) == \A m \in EntriesSent, L \in H : Carries(m, L) => Keeps(H, L, m.term)
LeadersKeep(H) == \A i \in Server : state[i] = "leader" => Keeps(H, log[i], currentTerm[i])

\* What a server has acknowledged it still has.
AckersKeep(H) ==
  \A v \in Server : \A M \in H : \A k \in 1 .. Len(M) :
    Acked(v, k, M[k].term) => Holds(log[v], k, M[k].term) \/ Lost(k, M[k].term)

\* What who votes for a candidate has acknowledged the candidate has.
VotersKeep(H) ==
  \A g \in Granted : state[g.dst] = "candidate" /\ currentTerm[g.dst] = g.term =>
    \A M \in H : \A k \in 1 .. Len(M) :
      M[k].term < g.term /\ Acked(g.src, k, M[k].term)
        => Holds(log[g.dst], k, M[k].term) \/ Lost(k, M[k].term)

KeepInv(H) ==
  EntriesKeep(H) /\ SendersKeep(H) /\ LeadersKeep(H) /\ AckersKeep(H) /\ VotersKeep(H)

\* K ends in an entry that a majority has acknowledged in its own term.
Committed(K) == K # <<>> /\ \E Q \in Quorums : \A v \in Q : Acked(v, Len(K), LastTerm(K))

\* Of the first c entries of L, seen in term t, all are before a committed one.
CommitSound(H, L, c, t) ==
  /\ c <= Len(L)
  /\ c > 0 => \E K \in H : Committed(K) /\ LastTerm(K) <= t /\ Agree(K, L, c)

CommitInv(H) ==
  /\ \A i \in Server : CommitSound(H, log[i], commitIdx[i], currentTerm[i])
  /\ \A m \in EntriesSent, L \in H : Carries(m, L) => CommitSound(H, L, m.commit, m.term)

----------------------------------------------------------------------------
\* Nobody acknowledges entries of a term it has left, so what is lost is so for good.
LEMMA AckedLater ==
  ASSUME ElectionInv, TenureInv, ElectionInv', TenureInv', NEW i \in Server, Effects(i),
         NEW v \in Server, NEW k, NEW t \in Nat, t < currentTerm[v], Acked(v, k, t)'
  PROVE  Acked(v, k, t)
<1>1. /\ \A u \in Server : currentTerm[u] \in Nat /\ currentTerm'[u] \in Nat
      /\ currentTerm[v] <= currentTerm'[v]
  BY NothingTakenBack DEF ElectionInv, TypeOK, TenureInv
<1>2. ASSUME NEW m \in msgs', m.src = v, m.term = t PROVE m \in msgs
  <2> SUFFICES ASSUME m \notin msgs PROVE FALSE
    OBVIOUS
  <2>1. m.src = i /\ m.term = currentTerm'[i]
    BY DEF Effects, NewMessage
  <2> QED BY <1>1, <1>2, <2>1
<1> QED BY <1>2 DEF Acked, BecameLeader, EntriesSent, Acknowledged

LEMMA StaysAcked ==
  ASSUME ElectionInv, TenureInv, ElectionInv', TenureInv', NEW i \in Server, Effects(i)
  PROVE  \A v, k, t : Acked(v, k, t) => Acked(v, k, t)'
<1>1. Acknowledged \subseteq Acknowledged' /\ \A v, t : BecameLeader(v, t) => BecameLeader(v, t)'
  BY NothingTakenBack DEF TenureInv
<1> QED BY <1>1 DEF Acked

LEMMA StaysLost ==
  ASSUME ElectionInv, TenureInv, ElectionInv', TenureInv', NEW i \in Server, Effects(i),
         NEW k, NEW t \in Nat, Lost(k, t)
  PROVE  Lost(k, t)'
<1>1. PICK Q \in Quorums : \A v \in Q : t < currentTerm[v] /\ ~Acked(v, k, t)
  BY DEF Lost
<1>2. \A v \in Server : /\ currentTerm[v] \in Nat /\ currentTerm'[v] \in Nat
                        /\ currentTerm[v] <= currentTerm'[v]
  BY NothingTakenBack DEF ElectionInv, TypeOK, TenureInv
<1>3. ASSUME NEW v \in Q PROVE t < currentTerm'[v] /\ ~Acked(v, k, t)'
  BY <1>1, <1>2, AckedLater DEF Quorums
<1> QED BY <1>3 DEF Lost, Quorums

\* Who wins a term has a majority that is in it.
LEMMA WinnersInTerm ==
  ASSUME ElectionInv, TenureInv, NEW j \in Server, NEW u \in Nat, Won(j, u)
  PROVE  \E Q \in Quorums : \A v \in Q : v \in Server /\ u <= currentTerm[v]
<1>1. PICK Q \in Quorums : \A v \in Q : Backs(v, j, u)
  BY DEF Won
<1>2. ASSUME NEW v \in Q PROVE v \in Server /\ u <= currentTerm[v]
  BY <1>1 DEF Quorums, Backs, SelfVote, TenureInv, TermsPassed, Granted
<1> QED BY <1>2

\* Nobody but its leader can have acknowledged the entry it is just appending.
LEMMA NewEntryUnacked ==
  ASSUME ElectionInv, TenureInv, NEW i \in Server, state[i] = "leader",
         NEW v \in Server, Acked(v, Len(log[i]) + 1, currentTerm[i])
  PROVE  v = i
<1>1. Won(i, currentTerm[i]) /\ Len(log[i]) \in Nat
  BY LenProperties DEF TenureInv, LeadersSent, SentByLeaders, BecameLeader, ElectionInv, TypeOK
<1>2. \A j \in Server : BecameLeader(j, currentTerm[i]) => j = i
  BY <1>1, OneWinner DEF TenureInv, SentByLeaders, BecameLeader
<1>3. ASSUME NEW a \in Acknowledged, a.term = currentTerm[i], Len(log[i]) + 1 <= a.idx
      PROVE  FALSE
  <2>1. a.dst \in Server /\ a.idx \in Nat
    BY MessageFields DEF Acknowledged, ElectionInv, TypeOK
  <2>2. a.dst = i
    BY <1>2, <1>3, <2>1 DEF TenureInv, AcksTrue
  <2>3. a.idx <= Len(log[i])
    BY <1>3, <2>2 DEF TenureInv, AcksTrue
  <2> QED BY <1>1, <1>3, <2>1, <2>3
<1> QED BY <1>2, <1>3 DEF Acked

\* An entry that is appended when a later term has been won is lost from the start.
LEMMA NewEntryLost ==
  ASSUME ElectionInv, TenureInv, NEW i \in Server, state[i] = "leader",
         NEW j \in Server, NEW u \in Nat, currentTerm[i] < u, Won(j, u)
  PROVE  Lost(Len(log[i]) + 1, currentTerm[i])
<1>1. PICK Q \in Quorums : \A v \in Q : v \in Server /\ u <= currentTerm[v]
  BY WinnersInTerm
<1>2. ASSUME NEW v \in Q
      PROVE  currentTerm[i] < currentTerm[v] /\ ~Acked(v, Len(log[i]) + 1, currentTerm[i])
  <2>1. currentTerm[i] < currentTerm[v]
    BY <1>1 DEF ElectionInv, TypeOK
  <2>2. v # i
    BY <2>1 DEF ElectionInv, TypeOK
  <2> QED BY <1>1, <2>1, <2>2, NewEntryUnacked
<1> QED BY <1>2 DEF Lost

\* What a majority has acknowledged is not lost.
LEMMA CommittedNotLost ==
  ASSUME NEW K, Committed(K)
  PROVE  ~Lost(Len(K), LastTerm(K))
  BY QuorumsMeet DEF Committed, Lost

----------------------------------------------------------------------------
Known(H, k, t) == \E M \in H : k \in 1 .. Len(M) /\ M[k].term = t

\* The entries of the logs after a step are those before it and the one a client
\* has just given the leader.
LEMMA EntryOrigin ==
  ASSUME ElectionInv, TenureInv, TypeOK', NEW H, LogsInv(H), NEW i \in Server, Effects(i),
         NEW K, K = H \cup {log'[i]}, NEW M \in K, NEW k \in 1 .. Len(M)
  PROVE  \/ Known(H, k, M[k].term)
         \/ /\ Grown(i) /\ M = log'[i]
            /\ k = Len(log[i]) + 1 /\ M[k].term = currentTerm[i] /\ state[i] = "leader"
<1>1. log'[i] \in H \/ Grown(i)
  BY NewLog
<1>2. OneHistory(H) /\ log[i] \in H
  BY DEF LogsInv, LogsKept
<1>3. Len(log[i]) \in Nat
  BY <1>2, LogFacts
<1>4. CASE M \in H
  BY <1>4 DEF Known
<1>5. CASE M = log'[i] /\ Grown(i)
  <2>1. CASE k \in 1 .. Len(log[i])
    <3>1. M[k].term = log[i][k].term
      BY <1>5, <2>1 DEF Grown, Agree
    <3> QED BY <1>2, <2>1, <3>1 DEF Known
  <2>2. CASE k = Len(log[i]) + 1
    BY <1>5, <2>2 DEF Grown
  <2> QED BY <1>3, <1>5, <2>1, <2>2 DEF Grown
<1> QED BY <1>1, <1>4, <1>5

LEMMA KnownKept ==
  ASSUME NEW H, NEW L, NEW u, Keeps(H, L, u), NEW k, NEW t, Known(H, k, t), t < u
  PROVE  Holds(L, k, t) \/ Lost(k, t)
  BY DEF Keeps, Known

LEMMA KnownTerm ==
  ASSUME NEW H, OneHistory(H), NEW k, NEW t, Known(H, k, t)
  PROVE  k \in Nat \ {0} /\ t \in Nat
<1>1. PICK M \in H : k \in 1 .. Len(M) /\ M[k].term = t
  BY DEF Known
<1> QED BY <1>1, LogFacts

\* A log of a term that has a winner goes on keeping what is older.
LEMMA KeepsOn ==
  ASSUME ElectionInv, TenureInv, ElectionInv', TenureInv', NEW H, LogsInv(H),
         NEW i \in Server, Effects(i), NEW K, K = H \cup {log'[i]},
         NEW L, NEW u \in Nat, Keeps(H, L, u), NEW j \in Server, Won(j, u)
  PROVE  Keeps(K, L, u)'
<1> SUFFICES ASSUME NEW M \in K, NEW k \in 1 .. Len(M), M[k].term < u
             PROVE  Holds(L, k, M[k].term) \/ Lost(k, M[k].term)'
  BY DEF Keeps
<1>1. TypeOK' /\ OneHistory(H)
  BY DEF ElectionInv, LogsInv
<1>2. CASE Known(H, k, M[k].term)
  <2>1. M[k].term \in Nat
    BY <1>1, <1>2, KnownTerm
  <2>2. Holds(L, k, M[k].term) \/ Lost(k, M[k].term)
    BY <1>2, KnownKept
  <2> QED BY <2>1, <2>2, StaysLost
<1>3. CASE k = Len(log[i]) + 1 /\ M[k].term = currentTerm[i] /\ state[i] = "leader"
  <2>1. Lost(k, M[k].term) /\ M[k].term \in Nat
    BY <1>3, NewEntryLost DEF ElectionInv, TypeOK
  <2> QED BY <2>1, StaysLost
<1> QED BY <1>1, <1>2, <1>3, EntryOrigin

LEMMA KeepsMore ==
  ASSUME NEW K, NEW a, NEW b, NEW u, Keeps(K, a, u)', Agree(a, b, Len(a)),
         Len(a) \in Nat, Len(b) \in Nat
  PROVE  Keeps(K, b, u)'
  BY DEF Keeps, Holds, Agree

\* Who wins a term has every entry that a majority may have acknowledged before.
LEMMA WinnerKeeps ==
  ASSUME ElectionInv, TenureInv, NEW H, LogsInv(H), AckersKeep(H), VotersKeep(H),
         NEW i \in Server, state[i] = "candidate", Won(i, currentTerm[i])
  PROVE  Keeps(H, log[i], currentTerm[i])
<1> SUFFICES ASSUME NEW M \in H, NEW k \in 1 .. Len(M), M[k].term < currentTerm[i],
                    ~Holds(log[i], k, M[k].term), ~Lost(k, M[k].term)
             PROVE  FALSE
  BY DEF Keeps
<1>1. PICK Q \in Quorums : \A v \in Q : Backs(v, i, currentTerm[i])
  BY DEF Won
<1>2. M[k].term \in Nat /\ currentTerm[i] \in Nat
  BY LogFacts DEF LogsInv, ElectionInv, TypeOK
<1>3. ASSUME NEW v \in Q PROVE M[k].term < currentTerm[v] /\ ~Acked(v, k, M[k].term)
  <2>1. v \in Server /\ currentTerm[v] \in Nat
    BY DEF Quorums, ElectionInv, TypeOK
  <2>2. CASE v = i
    BY <2>2 DEF AckersKeep
  <2>3. CASE \E g \in Granted : g.src = v /\ g.dst = i /\ g.term = currentTerm[i]
    <3>1. PICK g \in Granted : g.src = v /\ g.dst = i /\ g.term = currentTerm[i]
      BY <2>3
    <3>2. currentTerm[i] <= currentTerm[v]
      BY <3>1 DEF TenureInv, TermsPassed, Granted
    <3>3. ~Acked(v, k, M[k].term)
      BY <3>1 DEF VotersKeep
    <3> QED BY <1>2, <2>1, <3>2, <3>3
  <2> QED BY <1>1, <2>2, <2>3 DEF Backs
<1> QED BY <1>3 DEF Lost

----------------------------------------------------------------------------
LEMMA EntriesKeepOn ==
  ASSUME ElectionInv, TenureInv, ElectionInv', TenureInv', NEW H, LogsInv(H), KeepInv(H),
         NEW i \in Server, Effects(i), NEW K, K = H \cup {log'[i]}
  PROVE  EntriesKeep(K)'
<1>1. /\ OneHistory(H) /\ log[i] \in H /\ TypeOK' /\ EntriesLed(H)
      /\ log'[i] \in Seq(Entry)
  BY DEF LogsInv, LogsKept, ElectionInv, TypeOK
<1>2. Len(log[i]) \in Nat /\ Len(log'[i]) \in Nat
  BY <1>1, LogFacts, LenProperties
<1>3. ASSUME NEW L \in H, NEW n \in 1 .. Len(L) PROVE Keeps(K, L, L[n].term)'
  <2>1. PICK j \in Server : BecameLeader(j, L[n].term)
    BY <1>1 DEF EntriesLed
  <2>2. Won(j, L[n].term)
    BY <2>1 DEF BecameLeader, TenureInv, SentByLeaders
  <2>3. Keeps(H, L, L[n].term) /\ L[n].term \in Nat
    BY <1>1, LogFacts DEF KeepInv, EntriesKeep
  <2> QED BY <2>2, <2>3, KeepsOn
<1>4. ASSUME Grown(i), NEW b, b = log'[i], NEW n \in 1 .. Len(b) PROVE Keeps(K, b, b[n].term)'
  <2> PICK a : a = log[i]
    OBVIOUS
  <2>1. Agree(a, b, Len(a)) /\ Len(b) = Len(a) + 1 /\ b[Len(a) + 1].term = currentTerm[i]
        /\ state[i] = "leader"
    BY <1>4 DEF Grown
  <2>2. CASE n \in 1 .. Len(a)
    <3>1. Keeps(K, a, a[n].term)'
      BY <1>1, <1>3, <2>2
    <3>2. a[n].term = b[n].term
      BY <2>1, <2>2 DEF Agree
    <3>3. Keeps(K, a, b[n].term)'
      BY <3>1, <3>2
    <3> QED BY <1>2, <2>1, <3>3, KeepsMore
  <2>3. CASE n = Len(a) + 1
    <3>1. Keeps(H, a, b[n].term) /\ b[n].term \in Nat
      BY <2>1, <2>3 DEF KeepInv, LeadersKeep, ElectionInv, TypeOK
    <3>2. Won(i, b[n].term)
      BY <2>1, <2>3 DEF TenureInv, LeadersSent, SentByLeaders, BecameLeader
    <3>3. Keeps(K, a, b[n].term)'
      BY <3>1, <3>2, KeepsOn
    <3> QED BY <1>2, <2>1, <3>3, KeepsMore
  <2> QED BY <1>2, <2>1, <2>2, <2>3
<1>5. log'[i] \in H \/ Grown(i)
  BY <1>1, NewLog
<1>6. ASSUME NEW L \in K, NEW n \in 1 .. Len(L) PROVE Keeps(K, L, L[n].term)'
  <2>1. CASE L \in H
    BY <1>3, <2>1
  <2>2. CASE L = log'[i] /\ Grown(i)
    BY <1>4, <2>2
  <2> QED BY <1>5, <2>1, <2>2
<1> QED BY <1>6 DEF EntriesKeep

LEMMA LeadersKeepOn ==
  ASSUME ElectionInv, TenureInv, ElectionInv', TenureInv', NEW H, LogsInv(H), KeepInv(H),
         NEW i \in Server, Effects(i), NEW K, K = H \cup {log'[i]}
  PROVE  LeadersKeep(K)'
<1> SUFFICES ASSUME NEW j \in Server, state'[j] = "leader",
                    NEW b, b = log'[j], NEW u, u = currentTerm'[j]
             PROVE  Keeps(K, b, u)'
  BY DEF LeadersKeep
<1> PICK a : a = log[j]
  OBVIOUS
<1>1. Len(a) \in Nat /\ Len(b) \in Nat /\ u \in Nat
  BY LenProperties DEF ElectionInv, TypeOK
<1>2. Keeps(H, a, u) /\ Won(j, u) /\ Agree(a, b, Len(a))
  <2>1. CASE state[j] = "leader" /\ currentTerm'[j] = currentTerm[j]
    <3>1. Keeps(H, a, u)
      BY <2>1 DEF KeepInv, LeadersKeep
    <3>2. Won(j, u)
      BY <2>1 DEF TenureInv, LeadersSent, SentByLeaders, BecameLeader
    <3>3. Agree(a, b, Len(a))
      <4>1. CASE j = i
        BY <2>1, <4>1, LeaderKeepsLog DEF Effects
      <4>2. CASE j # i
        BY <1>1, <4>2 DEF Effects, OthersKept, Agree
      <4> QED BY <4>1, <4>2
    <3> QED BY <3>1, <3>2, <3>3
  <2>2. CASE ~(state[j] = "leader" /\ currentTerm'[j] = currentTerm[j])
    <3>1. j = i
      BY <2>2 DEF Effects, OthersKept
    <3>2. /\ state[i] = "candidate" /\ currentTerm'[i] = currentTerm[i]
          /\ Won(i, currentTerm[i]) /\ log'[i] = log[i]
      BY <2>2, <3>1 DEF Effects, RoleMoves
    <3>3. Keeps(H, log[i], currentTerm[i])
      BY <3>2, WinnerKeeps DEF KeepInv
    <3> QED BY <1>1, <3>1, <3>2, <3>3 DEF Agree
  <2> QED BY <2>1, <2>2
<1>3. Keeps(K, a, u)'
  BY <1>1, <1>2, KeepsOn
<1> QED BY <1>1, <1>2, <1>3, KeepsMore

LEMMA SendersKeepOn ==
  ASSUME ElectionInv, TenureInv, ElectionInv', TenureInv', NEW H, LogsInv(H), KeepInv(H),
         NEW i \in Server, Effects(i), NEW K, K = H \cup {log'[i]}, LogsInv(K)'
  PROVE  SendersKeep(K)'
<1> SUFFICES ASSUME NEW m \in EntriesSent', NEW L \in K, Carries(m, L)
             PROVE  Keeps(K, L, m.term)'
  BY DEF SendersKeep
<1>1. OneHistory(K) /\ H \subseteq K /\ TypeOK /\ TypeOK' /\ log'[i] \in K
  BY DEF LogsInv, OneHistory, ElectionInv
<1>2. CASE m \in EntriesSent
  <2>1. L \in H
    BY <1>1, <1>2, OldCarried
  <2>2. Keeps(H, L, m.term) /\ Won(m.src, m.term)
    BY <1>2, <2>1 DEF KeepInv, SendersKeep, TenureInv, SentByLeaders
  <2>3. m.src \in Server /\ m.term \in Nat
    BY <1>1, <1>2, SentFields
  <2> QED BY <2>2, <2>3, KeepsOn
<1>3. CASE m \notin EntriesSent
  <2>1. /\ m.term = currentTerm'[i] /\ state'[i] = "leader" /\ Carries(m, log'[i])
    BY <1>1, <1>3, NewEntriesMessage
  <2>2. L = log'[i]
    <3>1. m.prevIdx \in Nat /\ Len(m.entries) \in Nat
      BY <1>1, MessageFields, LenProperties DEF EntriesSent, TypeOK
    <3> QED BY <1>1, <2>1, <3>1, CarriedOnce
  <2>3. LeadersKeep(K)'
    BY LeadersKeepOn
  <2> QED BY <2>1, <2>2, <2>3 DEF LeadersKeep
<1> QED BY <1>2, <1>3

----------------------------------------------------------------------------
\* raft_recv_appendentries takes entries off a log only from the first that differs
\* from the sender's on, and never a committed one.
LEMMA RewriteConflict ==
  ASSUME TypeOK, NEW m \in EntriesSent, NEW H, OneHistory(H), NEW L \in H, Carries(m, L),
         NEW i \in Server, log[i] \in H, Rewritten(i, m)
  PROVE  \/ Agree(log[i], log'[i], Len(log[i]))
         \/ \E c \in 1 .. Len(log[i]) :
              /\ c <= Len(L) /\ log[i][c].term # L[c].term
              /\ commitIdx[i] < c /\ Agree(log[i], log'[i], c - 1)
<1> DEFINE lg == log[i]
<1> DEFINE p == NumPresent(m, lg)
<1> DEFINE Cut(c) == /\ c \in 1 .. Len(lg) /\ c <= Len(L) /\ lg[c].term # L[c].term
                     /\ commitIdx[i] < c /\ Agree(lg, log'[i], c - 1)
<1> SUFFICES Agree(lg, log'[i], Len(lg)) \/ \E c : Cut(c)
  OBVIOUS
<1>1. /\ m.prevIdx \in Nat /\ Len(m.entries) \in Nat /\ Len(L) = m.prevIdx + Len(m.entries)
      /\ lg \in Seq(Entry) /\ Len(lg) \in Nat /\ L \in Seq(Entry) /\ Len(L) \in Nat
      /\ commitIdx[i] \in Nat
  BY SentFields, LogFacts DEF Carries, TypeOK
<1>2. ~PrevMissing(m, lg) /\ ~CommittedConflict(i, m)
  BY DEF Rewritten
<1>3. ~PrevConflicts(m, lg) =>
        /\ p \in 0 .. Len(m.entries) /\ Agree(lg, L, m.prevIdx + p)
        /\ p < Len(m.entries) =>
             /\ m.prevIdx + p + 1 <= Len(L)
             /\ m.prevIdx + p + 1 <= Len(lg)
                  => lg[m.prevIdx + p + 1].term # L[m.prevIdx + p + 1].term
  BY <1>2, PresentAgrees
<1>4. ~PrevConflicts(m, lg) /\ p < Len(m.entries) /\ m.prevIdx + p + 1 <= Len(lg)
        => commitIdx[i] < m.prevIdx + p + 1
  BY <1>1, <1>2, <1>3 DEF CommittedConflict, EntryConflicts
<1>5. ASSUME NEW b \in Seq(Entry), NEW j \in Nat, j <= Len(b), log'[i] = Prefix(b, j)
      PROVE  Agree(b, log'[i], j)
  BY <1>5, PrefixEntries
<1> HIDE DEF lg, p
<1>6. CASE /\ PrevConflicts(m, lg)
           /\ \E k \in m.prevIdx - 1 .. Len(lg) : log'[i] = Prefix(lg, k)
  <2>1. PICK k \in m.prevIdx - 1 .. Len(lg) : log'[i] = Prefix(lg, k)
    BY <1>6
  <2>2. m.prevIdx \in 1 .. Len(lg) /\ lg[m.prevIdx].term # L[m.prevIdx].term
    BY <1>1, <1>6 DEF PrevConflicts, Carries, TermAt
  <2>3. commitIdx[i] < m.prevIdx
    BY <1>1, <1>2, <1>6 DEF CommittedConflict, lg
  <2>4. Agree(lg, log'[i], k)
    BY <1>1, <1>5, <2>1, <2>2
  <2>5. Agree(lg, log'[i], m.prevIdx - 1)
    BY <1>1, <2>1, <2>2, <2>4 DEF Agree
  <2> QED BY <1>1, <2>2, <2>3, <2>5
<1>7. CASE ~PrevConflicts(m, lg) /\ \E n \in 0 .. Len(m.entries) : log'[i] = Merge(m, lg, n)
  <2>1. PICK n \in 0 .. Len(m.entries) : log'[i] = Merge(m, lg, n)
    BY <1>7
  <2>2. CASE n <= p
    <3>1. log'[i] = lg
      BY <1>2, <1>7, <2>1, <2>2, MergeCarried DEF lg, p
    <3> QED BY <1>1, <3>1 DEF Agree
  <2>3. CASE p < n
    <3>1. log'[i] = Prefix(L, m.prevIdx + n)
      BY <1>2, <1>7, <2>1, <2>3, MergeCarried DEF lg, p
    <3>2. Agree(L, log'[i], m.prevIdx + n)
      BY <1>1, <1>5, <3>1
    <3>3. Agree(lg, log'[i], m.prevIdx + p)
      BY <1>1, <1>3, <1>7, <2>3, <3>2 DEF Agree
    <3>4. CASE m.prevIdx + p + 1 <= Len(lg)
      <4>1. Cut(m.prevIdx + p + 1)
        BY <1>1, <1>3, <1>4, <1>7, <2>3, <3>3, <3>4
      <4> QED BY <4>1
    <3>5. CASE ~(m.prevIdx + p + 1 <= Len(lg))
      <4>1. m.prevIdx + p = Len(lg)
        BY <1>1, <1>3, <1>7, <3>5 DEF Agree
      <4> QED BY <3>3, <4>1
    <3> QED BY <3>4, <3>5
  <2> QED BY <1>1, <1>3, <1>7, <2>2, <2>3
<1>8. CASE /\ ~PrevConflicts(m, lg) /\ p < Len(m.entries)
           /\ \E k \in m.prevIdx + p .. Len(lg) : log'[i] = Prefix(lg, k)
  <2>1. PICK k \in m.prevIdx + p .. Len(lg) : log'[i] = Prefix(lg, k)
    BY <1>8
  <2>2. k \in Nat /\ Agree(lg, log'[i], k)
    BY <1>1, <1>3, <1>5, <1>8, <2>1
  <2>3. CASE m.prevIdx + p + 1 <= Len(lg)
    <3>1. m.prevIdx + p \in Nat /\ m.prevIdx + p <= k
      BY <1>1, <1>3, <1>8, <2>1
    <3>2. Agree(lg, log'[i], m.prevIdx + p)
      BY <1>1, <2>2, <3>1 DEF Agree
    <3>3. Cut(m.prevIdx + p + 1)
      BY <1>1, <1>3, <1>4, <1>8, <2>3, <3>2
    <3> QED BY <3>3
  <2>4. CASE ~(m.prevIdx + p + 1 <= Len(lg))
    <3>1. k = Len(lg)
      BY <1>1, <1>3, <1>8, <2>1, <2>4
    <3> QED BY <2>2, <3>1
  <2> QED BY <2>3, <2>4
<1> QED BY <1>6, <1>7, <1>8 DEF Rewritten, lg, p

\* Above an entry that the sender of m has not nothing was committed: its log would
\* have kept it.
LEMMA ConflictLost ==
  ASSUME ElectionInv, NEW H, LogsInv(H), SendersKeep(H),
         NEW m \in EntriesSent, NEW L \in H, Carries(m, L),
         NEW i \in Server, currentTerm[i] <= m.term,
         NEW c \in 1 .. Len(log[i]), c <= Len(L), log[i][c].term # L[c].term,
         NEW k, NEW t, c <= k, Known(H, k, t), Holds(log[i], k, t)
  PROVE  Lost(k, t)
<1>1. /\ OneHistory(H) /\ log[i] \in H /\ TypeOK /\ MessageLogs(H)
      /\ \A n \in 1 .. Len(log[i]) : log[i][n].term <= currentTerm[i]
  BY DEF LogsInv, LogsKept, ElectionInv
<1>2. /\ k \in Nat \ {0} /\ t \in Nat /\ m.term \in Nat /\ currentTerm[i] \in Nat
      /\ Len(log[i]) \in Nat /\ Len(L) \in Nat
  BY <1>1, KnownTerm, SentFields, LogFacts DEF TypeOK
<1>3. k \in 1 .. Len(log[i]) /\ log[i][k].term = t /\ t <= currentTerm[i]
  BY <1>1 DEF Holds
<1>4. CASE t < m.term
  <2>1. Holds(L, k, t) \/ Lost(k, t)
    BY <1>4, KnownKept DEF SendersKeep
  <2>2. ~Holds(L, k, t)
    <3> SUFFICES ASSUME Holds(L, k, t) PROVE FALSE
      OBVIOUS
    <3>1. k \in 1 .. Len(L) /\ log[i][k].term = L[k].term
      BY <1>3 DEF Holds
    <3>2. Agree(log[i], L, k)
      BY <1>1, <1>3, <3>1, SameTerm
    <3> QED BY <1>2, <3>2 DEF Agree
  <2> QED BY <2>1, <2>2
<1>5. CASE t = m.term
  <2>1. PICK M \in H : k \in 1 .. Len(M) /\ M[k].term = t
    BY DEF Known
  <2>2. Agree(L, M, Smaller(Len(L), k))
    BY <1>1, <1>5, <2>1 DEF MessageLogs
  <2>3. Agree(log[i], M, k)
    BY <1>1, <1>3, <2>1, SameTerm
  <2>4. c <= Smaller(Len(L), k) /\ c <= k /\ c \in Nat \ {0} /\ Smaller(Len(L), k) \in Nat
    BY <1>2 DEF Smaller
  <2> HIDE DEF Smaller
  <2>5. L[c] = M[c] /\ log[i][c] = M[c]
    BY <1>2, <2>2, <2>3, <2>4 DEF Agree
  <2> QED BY <2>5
<1> QED BY <1>2, <1>3, <1>4, <1>5

\* What a server has and is not lost it still has after its step.
LEMMA HeldOn ==
  ASSUME ElectionInv, TenureInv, ElectionInv', TenureInv', NEW H, LogsInv(H), SendersKeep(H),
         NEW i \in Server, Effects(i), NEW k, NEW t, Known(H, k, t),
         Holds(log[i], k, t), ~Lost(k, t)'
  PROVE  Holds(log'[i], k, t)
<1>1. /\ OneHistory(H) /\ log[i] \in H /\ TypeOK /\ MessagesCarry(H) /\ log'[i] \in Seq(Entry)
  BY DEF LogsInv, LogsKept, ElectionInv, TypeOK
<1>2. /\ k \in Nat \ {0} /\ t \in Nat /\ Len(log[i]) \in Nat /\ Len(log'[i]) \in Nat
      /\ k \in 1 .. Len(log[i])
  BY <1>1, KnownTerm, LogFacts, LenProperties DEF Holds
<1>3. ~Lost(k, t)
  BY <1>2, StaysLost
<1>4. ASSUME NEW n \in Nat, k <= n, Agree(log[i], log'[i], n) PROVE Holds(log'[i], k, t)
  BY <1>2, <1>4 DEF Agree, Holds
<1>5. CASE log' = log
  BY <1>5
<1>6. CASE state[i] = "leader" /\ currentTerm' = currentTerm
  <2>1. LogMoves(i) /\ currentTerm'[i] = currentTerm[i]
    BY <1>6 DEF Effects
  <2>2. Agree(log[i], log'[i], Len(log[i]))
    BY <1>6, <2>1, LeaderKeepsLog
  <2> QED BY <1>2, <1>4, <2>2
<1>7. CASE \E m \in EntriesSent :
             m.dst = i /\ currentTerm[i] <= m.term /\ currentTerm'[i] = m.term /\ Rewritten(i, m)
  <2>1. PICK m \in EntriesSent : currentTerm[i] <= m.term /\ Rewritten(i, m)
    BY <1>7
  <2>2. PICK L \in H : Carries(m, L)
    BY <1>1 DEF MessagesCarry
  <2>3. CASE Agree(log[i], log'[i], Len(log[i]))
    BY <1>2, <1>4, <2>3
  <2>4. CASE \E c \in 1 .. Len(log[i]) :
               /\ c <= Len(L) /\ log[i][c].term # L[c].term
               /\ commitIdx[i] < c /\ Agree(log[i], log'[i], c - 1)
    <3>1. PICK c \in 1 .. Len(log[i]) :
            /\ c <= Len(L) /\ log[i][c].term # L[c].term /\ Agree(log[i], log'[i], c - 1)
      BY <2>4
    <3>2. ~(c <= k)
      BY <1>3, <2>1, <2>2, <3>1, ConflictLost
    <3> QED BY <1>2, <1>4, <3>1, <3>2
  <2> QED BY <1>1, <2>1, <2>2, <2>3, <2>4, RewriteConflict
<1> QED BY <1>5, <1>6, <1>7 DEF Effects, LogMoves

\* Who acknowledges entries has just put them into its log.
LEMMA AcknowledgedHeld ==
  ASSUME ElectionInv, TenureInv, ElectionInv', NEW H, LogsInv(H),
         NEW i \in Server, Effects(i), NEW a \in Acknowledged', a \notin Acknowledged,
         NEW k, NEW t, Known(H, k, t), a.term = t, k <= a.idx
  PROVE  a.src = i /\ Holds(log'[i], k, t)
<1>1. /\ OneHistory(H) /\ log[i] \in H /\ TypeOK /\ MessagesCarry(H) /\ MessageLogs(H)
  BY DEF LogsInv, LogsKept, ElectionInv
<1>2. NewMessage(i, a)
  BY DEF Acknowledged, Effects
<1>3. PICK q \in EntriesSent :
        q.term = t /\ a.idx = q.prevIdx + Len(q.entries) /\ AppendEntriesAccept(i, q)
  BY <1>2 DEF NewMessage
<1>4. PICK L \in H : Carries(q, L)
  BY <1>1 DEF MessagesCarry
<1>5. Agree(Merge(q, log[i], Len(q.entries)), L, Len(L))
  BY <1>1, <1>3, <1>4, AcceptedAgrees DEF AppendEntriesAccept
<1>6. log'[i] = Merge(q, log[i], Len(q.entries))
  BY <1>1, <1>3 DEF AppendEntriesAccept, TypeOK
<1>7. PICK M \in H : k \in 1 .. Len(M) /\ M[k].term = t
  BY DEF Known
<1>8. Agree(L, M, Smaller(Len(L), k))
  BY <1>1, <1>3, <1>4, <1>7 DEF MessageLogs
<1>9. k \in Nat \ {0} /\ Len(L) \in Nat /\ k <= Len(L) /\ Smaller(Len(L), k) = k
  <2>1. k \in Nat \ {0} /\ Len(L) \in Nat /\ k <= Len(L)
    BY <1>1, <1>3, <1>4, KnownTerm, LogFacts DEF Carries
  <2> QED BY <2>1 DEF Smaller
<1>10. Agree(L, M, k) /\ Agree(log'[i], L, Len(L))
  BY <1>5, <1>6, <1>8, <1>9
<1>11. Holds(log'[i], k, t)
  <2> PICK b : b = log'[i]
    OBVIOUS
  <2>1. b \in Seq(Entry) /\ Len(b) \in Nat
    BY LenProperties DEF ElectionInv, TypeOK
  <2>2. Holds(b, k, t)
    BY <1>7, <1>9, <1>10, <2>1 DEF Agree, Holds
  <2> QED BY <2>2
<1> QED BY <1>2, <1>11 DEF NewMessage

LEMMA AckersKeepOn ==
  ASSUME ElectionInv, TenureInv, ElectionInv', TenureInv', NEW H, LogsInv(H), KeepInv(H),
         NEW i \in Server, Effects(i), NEW K, K = H \cup {log'[i]}, LogsInv(K)'
  PROVE  AckersKeep(K)'
<1> SUFFICES ASSUME NEW v \in Server, NEW M \in K, NEW k \in 1 .. Len(M),
                    NEW t, t = M[k].term, Acked(v, k, t)', ~Lost(k, t)'
             PROVE  Holds(log'[v], k, t)
  BY DEF AckersKeep
<1>1. /\ OneHistory(H) /\ TypeOK' /\ LeaderAhead(K)' /\ SendersKeep(H)
  BY DEF LogsInv, ElectionInv, KeepInv
<1>2. CASE v = i /\ M = log'[i]
  BY <1>2 DEF Holds
<1>3. CASE BecameLeader(v, t)' /\ ~Acked(v, k, t)
  <2>1. PICK m \in EntriesSent' : m.src = v /\ m.term = t
    BY <1>3 DEF BecameLeader
  <2>2. m \notin EntriesSent
    BY <1>3, <2>1 DEF Acked, BecameLeader
  <2>3. v = i /\ t = currentTerm'[i] /\ state'[i] = "leader"
    BY <1>1, <2>1, <2>2, NewEntriesMessage
  <2> QED BY <1>1, <2>3 DEF LeaderAhead
<1>4. CASE ~BecameLeader(v, t)' /\ ~Acked(v, k, t)
  <2>1. PICK a \in Acknowledged' : a.src = v /\ a.term = t /\ k <= a.idx
    BY <1>4 DEF Acked
  <2>2. a \notin Acknowledged
    BY <1>4, <2>1 DEF Acked
  <2>3. a.src = i
    BY <2>2 DEF Acknowledged, Effects, NewMessage
  <2>4. CASE Known(H, k, t)
    BY <2>1, <2>2, <2>4, AcknowledgedHeld
  <2>5. CASE M = log'[i]
    BY <1>2, <2>1, <2>3, <2>5
  <2> QED BY <1>1, <2>4, <2>5, EntryOrigin
<1>5. CASE Acked(v, k, t)
  <2>1. CASE Known(H, k, t)
    <3>1. ~Lost(k, t)
      BY <1>1, <2>1, KnownTerm, StaysLost
    <3>2. Holds(log[v], k, t)
      BY <1>5, <2>1, <3>1 DEF KeepInv, AckersKeep, Known
    <3>3. CASE v = i
      BY <1>1, <2>1, <3>2, <3>3, HeldOn
    <3>4. CASE v # i
      BY <3>2, <3>4 DEF Effects, OthersKept
    <3> QED BY <3>3, <3>4
  <2>2. CASE /\ M = log'[i] /\ k = Len(log[i]) + 1 /\ t = currentTerm[i]
             /\ state[i] = "leader"
    BY <1>2, <1>5, <2>2, NewEntryUnacked
  <2> QED BY <1>1, <2>1, <2>2, EntryOrigin
<1> QED BY <1>3, <1>4, <1>5

\* What __should_grant_vote compares is enough: a log that is as up to date as one
\* with an entry has the entry too, or it is lost.
LEMMA UpToDateKeeps ==
  ASSUME NEW H, OneHistory(H), EntriesKeep(H), NEW A \in H, NEW B \in H,
         NEW k, NEW t, Holds(A, k, t),
         \/ LastTerm(A) < LastTerm(B)
         \/ LastTerm(A) = LastTerm(B) /\ Len(A) <= Len(B)
  PROVE  Holds(B, k, t) \/ Lost(k, t)
<1>1. /\ Len(A) \in Nat /\ Len(B) \in Nat /\ k \in 1 .. Len(A) /\ A[k].term = t
      /\ \A n \in 1 .. Len(A) : A[n].term \in Nat
      /\ \A n \in 1 .. Len(B) : B[n].term \in Nat
  BY LogFacts DEF Holds
<1>2. Len(A) \in 1 .. Len(A) /\ LastTerm(A) = A[Len(A)].term
  BY <1>1 DEF LastTerm, TermAt
<1>3. t \in Nat /\ t <= A[Len(A)].term
  <2>1. k <= Len(A)
    BY <1>1
  <2> QED BY <1>1, <1>2, <2>1 DEF OneHistory
<1>4. CASE LastTerm(A) < LastTerm(B)
  <2>1. Len(B) \in 1 .. Len(B) /\ LastTerm(B) = B[Len(B)].term
    BY <1>1, <1>2, <1>4 DEF LastTerm, TermAt
  <2>2. t < B[Len(B)].term
    BY <1>1, <1>2, <1>3, <1>4, <2>1
  <2>3. Keeps(H, B, B[Len(B)].term)
    BY <2>1 DEF EntriesKeep
  <2> QED BY <1>1, <2>2, <2>3 DEF Keeps
<1>5. CASE LastTerm(A) = LastTerm(B) /\ Len(A) <= Len(B)
  <2>1. Len(B) \in 1 .. Len(B)
    BY <1>1, <1>5
  <2>2. B[Len(B)].term = A[Len(A)].term
    BY <1>2, <1>5, <2>1 DEF LastTerm, TermAt
  <2>3. Agree(B, A, Len(A))
    BY <1>2, <1>5, <2>1, <2>2 DEF OneHistory
  <2> QED BY <1>1, <2>3 DEF Agree, Holds
<1> QED BY <1>4, <1>5

LEMMA VotersKeepOn ==
  ASSUME ElectionInv, TenureInv, ElectionInv', TenureInv', NEW H, LogsInv(H), KeepInv(H),
         NEW i \in Server, Effects(i), NEW K, K = H \cup {log'[i]}, LogsInv(K)'
  PROVE  VotersKeep(K)'
<1> SUFFICES ASSUME NEW g \in Granted', state'[g.dst] = "candidate",
                    currentTerm'[g.dst] = g.term, NEW M \in K, NEW k \in 1 .. Len(M),
                    NEW t, t = M[k].term, t < g.term, Acked(g.src, k, t)', ~Lost(k, t)'
             PROVE  Holds(log'[g.dst], k, t)
  BY DEF VotersKeep
<1>1. /\ OneHistory(H) /\ TypeOK /\ TypeOK' /\ g.src \in Server /\ g.dst \in Server
      /\ \A s \in Server : log[s] \in H
      /\ \A s \in Server : currentTerm[s] \in Nat /\ currentTerm'[s] \in Nat
  BY MessageFields DEF LogsInv, LogsKept, ElectionInv, TypeOK, Granted
<1>2. g.term \in Nat /\ g.term <= currentTerm'[g.src]
  BY <1>1 DEF TenureInv, TermsPassed, Granted
<1>3. CASE /\ Grown(i) /\ k = Len(log[i]) + 1 /\ t = currentTerm[i] /\ state[i] = "leader"
  <2>1. currentTerm'[i] = t
    BY <1>3 DEF Grown
  <2>2. g.src # i /\ t < currentTerm[g.src]
    BY <1>1, <1>2, <1>3, <2>1 DEF Effects, OthersKept
  <2>3. Acked(g.src, k, t)
    BY <1>1, <1>3, <2>2, AckedLater
  <2> QED BY <1>1, <1>3, <2>2, <2>3, NewEntryUnacked
<1>4. CASE Known(H, k, t) /\ g \in Granted
  <2>1. t \in Nat /\ ~Lost(k, t)
    BY <1>1, <1>4, KnownTerm, StaysLost
  <2>2. g.term <= currentTerm[g.src]
    BY <1>4 DEF TenureInv, TermsPassed, Granted
  <2>3. Acked(g.src, k, t)
    BY <1>1, <1>2, <2>1, <2>2, AckedLater
  <2>4. PICK m \in Requested : m.src = g.dst /\ m.term = g.term
    BY <1>4 DEF TenureInv, VotesAsked
  <2>5. g.term <= currentTerm[g.dst]
    BY <2>4 DEF TenureInv, TermsPassed, Requested
  <2>6. /\ state[g.dst] = "candidate" /\ currentTerm[g.dst] = g.term
        /\ log'[g.dst] = log[g.dst]
    <3>1. CASE g.dst = i
      <4>1. ~(currentTerm[i] < currentTerm'[i])
        BY <1>1, <2>5, <3>1
      <4> QED BY <3>1, <4>1 DEF Effects, RoleMoves
    <3>2. CASE g.dst # i
      BY <1>1, <3>2 DEF Effects, OthersKept
    <3> QED BY <3>1, <3>2
  <2>7. Holds(log[g.dst], k, t)
    BY <1>4, <2>1, <2>3, <2>6 DEF KeepInv, VotersKeep, Known
  <2> QED BY <2>6, <2>7
<1>5. CASE Known(H, k, t) /\ g \notin Granted
  <2>1. t \in Nat /\ ~Lost(k, t)
    BY <1>1, <1>5, KnownTerm, StaysLost
  <2>2. g \notin msgs
    BY <1>5 DEF Granted
  <2>3. NewMessage(i, g)
    BY <2>2 DEF Granted, Effects
  <2>4. /\ g.src = i /\ g.dst # i /\ log' = log
        /\ \E q \in Requested : q.src = g.dst /\ q.term = g.term /\ UpToDate(q, log[i])
    BY <2>3 DEF NewMessage
  <2>5. PICK q \in Requested : q.src = g.dst /\ q.term = g.term /\ UpToDate(q, log[i])
    BY <2>4
  <2>6. state[g.dst] = "candidate" /\ currentTerm[g.dst] = g.term
    BY <1>1, <2>4 DEF Effects, OthersKept
  <2>7. q.lastIdx = Len(log[g.dst]) /\ q.lastTerm = LastTerm(log[g.dst])
    BY <2>5, <2>6 DEF TenureInv, RequestsTrue
  <2>8. Holds(log[i], k, t)
    <3>1. AckersKeep(K)'
      BY AckersKeepOn
    <3> QED BY <2>4, <3>1 DEF AckersKeep
  <2>9. log[i] # <<>>
    BY <2>8 DEF Holds
  <2>10. Holds(log[g.dst], k, t)
    BY <1>1, <2>1, <2>5, <2>7, <2>8, <2>9, UpToDateKeeps DEF UpToDate, KeepInv
  <2> QED BY <2>4, <2>10
<1> QED BY <1>1, <1>3, <1>4, <1>5, EntryOrigin

LEMMA EffectsKeepInv ==
  ASSUME ElectionInv, TenureInv, ElectionInv', TenureInv', NEW H, LogsInv(H), KeepInv(H),
         NEW i \in Server, Effects(i), NEW K, K = H \cup {log'[i]}, LogsInv(K)'
  PROVE  KeepInv(K)'
<1>1. EntriesKeep(K)' /\ SendersKeep(K)' /\ LeadersKeep(K)'
  BY EntriesKeepOn, SendersKeepOn, LeadersKeepOn
<1>2. AckersKeep(K)' /\ VotersKeep(K)'
  BY AckersKeepOn, VotersKeepOn
<1> QED BY <1>1, <1>2 DEF KeepInv

----------------------------------------------------------------------------
\* What a step does to the commit index of the server i that takes it.
CommitMoves(i) ==
  \/ commitIdx'[i] = commitIdx[i]
  \/ Restart(i)
  \/ \E q \in EntriesSent :
       q.dst = i /\ currentTerm[i] <= q.term /\ currentTerm'[i] = q.term
         /\ AppendEntriesAccept(i, q)
  \/ /\ state[i] = "leader" /\ state'[i] = "leader" /\ UNCHANGED <<log, currentTerm>>
     /\ commitIdx'[i] \in 1 .. Len(log[i])
     /\ CommitByCounting(i, commitIdx'[i], matchIdx'[i])

LEMMA ReceiveMoves ==
  ASSUME ElectionInv, TenureInv, NEW m \in msgs, NEW f \in Fault, Receive(m, f)
  PROVE  CommitMoves(m.dst)
<1> USE DEF persistent, applied
<1>1. /\ m.dst \in Server /\ m.src \in Server /\ m.term \in Nat /\ commitIdx \in [Server -> Nat]
      /\ currentTerm \in [Server -> Nat]
  BY MessageFields DEF ElectionInv, TypeOK
<1>2. CASE RecvRequestVote(m.dst, m, f)
  BY <1>2 DEF RecvRequestVote, RequestVoteIgnored, RequestVoteGranted, RequestVoteRefused,
              CommitMoves
<1>3. CASE RecvRequestVoteResponse(m.dst, m)
  BY <1>3 DEF RecvRequestVoteResponse, CommitMoves
<1>4. CASE RecvAppendEntries(m.dst, m, f)
  <2>1. CASE AppendEntriesAccept(m.dst, m)
    <3>1. m \in EntriesSent
      BY <1>4 DEF RecvAppendEntries, EntriesSent
    <3>2. currentTerm[m.dst] <= m.term /\ currentTerm'[m.dst] = m.term
      BY <1>1, <2>1 DEF AppendEntriesAccept, FollowLeader
    <3> QED BY <2>1, <3>1, <3>2 DEF CommitMoves
  <2>2. CASE commitIdx' = commitIdx
    BY <2>2 DEF CommitMoves
  <2> QED BY <1>4, <2>1, <2>2 DEF RecvAppendEntries, AppendEntriesStale,
        AppendEntriesMissing, AppendEntriesPrevConflict, AppendEntriesShutdown,
        AppendEntriesAcceptFails
<1>5. CASE RecvAppendEntriesResponse(m.dst, m)
  <2>1. CASE commitIdx' = commitIdx
    BY <2>1 DEF CommitMoves
  <2>2. CASE AppendAccepted(m.dst, m) /\ UNCHANGED <<currentTerm, state>>
    <3>1. CASE CommitByCounting(m.dst, m.idx, matchIdx'[m.dst])
      <4>1. commitIdx'[m.dst] = m.idx
        BY <1>1, <2>2, <3>1 DEF AppendAccepted
      <4>2. m.idx \in Nat /\ commitIdx[m.dst] \in Nat
        BY <1>1, <1>5, MessageFields DEF ElectionInv, TypeOK, RecvAppendEntriesResponse
      <4>3. m.idx \in 1 .. Len(log[m.dst])
        BY <2>2, <3>1, <4>2, LenProperties
           DEF AppendAccepted, CommitByCounting, ElectionInv, TypeOK
      <4> QED BY <1>5, <2>2, <3>1, <4>1, <4>3 DEF RecvAppendEntriesResponse, CommitMoves
    <3>2. CASE ~CommitByCounting(m.dst, m.idx, matchIdx'[m.dst])
      BY <1>1, <2>2, <3>2 DEF AppendAccepted, CommitMoves
    <3> QED BY <3>1, <3>2
  <2> QED BY <1>5, <2>1, <2>2 DEF RecvAppendEntriesResponse, AppendRefused
<1> QED BY <1>2, <1>3, <1>4, <1>5 DEF Receive

LEMMA NextMoves ==
  ASSUME ElectionInv, TenureInv, Next
  PROVE  \E i \in Server : Effects(i) /\ CommitMoves(i)
<1> USE DEF persistent, applied
<1>1. CASE \E i \in Server, f \in Fault : Periodic(i, f)
  <2>1. PICK i \in Server, f \in Fault : Periodic(i, f)
    BY <1>1
  <2>2. commitIdx' = commitIdx
    BY <2>1 DEF Periodic, PeriodicLeader, PeriodicWait, PeriodicElection, PeriodicElectionFails
  <2> QED BY <2>1, <2>2, PeriodicEffects DEF CommitMoves
<1>2. CASE \E m \in Arriving, f \in Fault : Receive(m, f)
  <2>1. PICK m \in msgs, f \in Fault : Receive(m, f)
    BY <1>2 DEF Arriving
  <2>2. m.dst \in Server
    BY MessageFields DEF ElectionInv, TypeOK
  <2>3. Effects(m.dst)
    BY <2>1, <2>2, RequestVoteEffects, RequestVoteResponseEffects, AppendEntriesEffects,
       AppendEntriesResponseEffects DEF Receive
  <2> QED BY <2>1, <2>2, <2>3, ReceiveMoves
<1>3. CASE \E i \in Server, v \in Value : RecvEntry(i, v)
  <2>1. PICK i \in Server, v \in Value : RecvEntry(i, v)
    BY <1>3
  <2>2. commitIdx' = commitIdx
    BY <2>1 DEF RecvEntry
  <2> QED BY <2>1, <2>2, RecvEntryEffects DEF CommitMoves
<1>4. CASE \E i \in Crashing : Restart(i)
  BY <1>4, BoundsAssumption, RestartEffects DEF CommitMoves
<1> QED BY <1>1, <1>2, <1>3, <1>4 DEF Next

----------------------------------------------------------------------------
LEMMA CommitSoundOn ==
  ASSUME ElectionInv, TenureInv, ElectionInv', TenureInv', NEW i \in Server, Effects(i),
         NEW H, NEW K, H \subseteq K, OneHistory(H), NEW L, NEW c, NEW t \in Nat, NEW u \in Nat,
         t <= u, CommitSound(H, L, c, t)
  PROVE  CommitSound(K, L, c, u)'
<1> SUFFICES ASSUME c > 0
             PROVE  \E C \in K : Committed(C)' /\ LastTerm(C) <= u /\ Agree(C, L, c)
  BY DEF CommitSound
<1>1. PICK C \in H : Committed(C) /\ LastTerm(C) <= t /\ Agree(C, L, c)
  BY DEF CommitSound
<1>2. Committed(C)'
  BY <1>1, StaysAcked DEF Committed, Quorums
<1>3. LastTerm(C) \in Nat
  BY LogFacts DEF LastTerm, TermAt
<1> QED BY <1>1, <1>2, <1>3

LEMMA CommitSoundElsewhere ==
  ASSUME NEW H, NEW a, NEW b, NEW c \in Nat, NEW t, CommitSound(H, a, c, t), Agree(a, b, c)
  PROVE  CommitSound(H, b, c, t)
<1>1. \A C : Agree(C, a, c) => Agree(C, b, c)
  BY DEF Agree
<1> QED BY <1>1 DEF CommitSound, Agree

\* No step takes a committed entry out of a log or changes it.
LEMMA CommittedKept ==
  ASSUME ElectionInv, TenureInv, TypeOK', NEW H, LogsInv(H), CommitInv(H),
         NEW i \in Server, Effects(i)
  PROVE  Agree(log[i], log'[i], commitIdx[i])
<1>1. /\ OneHistory(H) /\ log[i] \in H /\ TypeOK /\ MessagesCarry(H)
      /\ Len(log[i]) \in Nat /\ commitIdx[i] \in Nat /\ commitIdx[i] <= Len(log[i])
  BY LenProperties DEF LogsInv, LogsKept, ElectionInv, TypeOK, CommitInv, CommitSound
<1>2. ASSUME NEW n \in Nat, commitIdx[i] <= n, Agree(log[i], log'[i], n)
      PROVE  Agree(log[i], log'[i], commitIdx[i])
  <2> PICK b : b = log'[i]
    OBVIOUS
  <2>1. Len(b) \in Nat
    BY LenProperties DEF TypeOK
  <2> QED BY <1>1, <1>2, <2>1 DEF Agree
<1>3. CASE log' = log
  BY <1>1, <1>3 DEF Agree
<1>4. CASE state[i] = "leader" /\ currentTerm' = currentTerm
  <2>1. LogMoves(i) /\ currentTerm'[i] = currentTerm[i]
    BY <1>4 DEF Effects
  <2> QED BY <1>1, <1>2, <1>4, <2>1, LeaderKeepsLog
<1>5. CASE \E m \in EntriesSent :
             m.dst = i /\ currentTerm[i] <= m.term /\ currentTerm'[i] = m.term /\ Rewritten(i, m)
  <2>1. PICK m \in EntriesSent : Rewritten(i, m)
    BY <1>5
  <2>2. PICK L \in H : Carries(m, L)
    BY <1>1 DEF MessagesCarry
  <2>3. CASE Agree(log[i], log'[i], Len(log[i]))
    BY <1>1, <1>2, <2>3
  <2>4. CASE \E c \in 1 .. Len(log[i]) :
               /\ c <= Len(L) /\ log[i][c].term # L[c].term
               /\ commitIdx[i] < c /\ Agree(log[i], log'[i], c - 1)
    <3>1. PICK c \in 1 .. Len(log[i]) : commitIdx[i] < c /\ Agree(log[i], log'[i], c - 1)
      BY <2>4
    <3>2. c - 1 \in Nat /\ commitIdx[i] <= c - 1
      BY <1>1, <3>1
    <3> QED BY <1>2, <3>1, <3>2
  <2> QED BY <1>1, <2>1, <2>2, <2>3, <2>4, RewriteConflict
<1> QED BY <1>3, <1>4, <1>5 DEF Effects, LogMoves

\* The nodes that raft_recv_appendentries_response counts have all acknowledged the
\* leader's entry: it is committed.
LEMMA CountingCommits ==
  ASSUME ElectionInv, TenureInv, ElectionInv', TenureInv', NEW H, LogsInv(H),
         NEW i \in Server, Effects(i), state[i] = "leader", state'[i] = "leader",
         UNCHANGED <<log, currentTerm>>, NEW c \in 1 .. Len(log[i]),
         CommitByCounting(i, c, matchIdx'[i])
  PROVE  CommitSound(H, log[i], c, currentTerm[i])'
<1> DEFINE K == Prefix(log[i], c)
           S == {j \in Server \ {i} : c <= matchIdx'[i][j]}
           Q == S \cup {i}
<1>1. /\ log[i] \in Seq(Entry) /\ Len(log[i]) \in Nat /\ c \in Nat \ {0} /\ c <= Len(log[i])
      /\ currentTerm[i] \in Nat /\ \A j \in Server : matchIdx'[i][j] \in Nat
  BY LenProperties DEF ElectionInv, TypeOK
<1>2. K \in Seq(Entry) /\ Len(K) = c /\ Agree(log[i], K, c) /\ K \in H
  BY <1>1, PrefixEntries DEF LogsInv, LogsKept, OneHistory
<1>3. LastTerm(K) = currentTerm[i]
  <2>1. LastTerm(K) = K[c].term /\ K[c] = log[i][c]
    BY <1>1, <1>2 DEF LastTerm, TermAt, Agree
  <2> QED BY <2>1 DEF CommitByCounting
<1>4. Q \in Quorums
  <2>1. IsFiniteSet(S) /\ i \notin S
    BY ServerAssumption, FS_Subset
  <2>2. Cardinality(Q) = Cardinality(S) + 1 /\ Cardinality(S) \in Nat
    BY <2>1, FS_AddElement, FS_CardinalityType
  <2>3. Cardinality(Server) \div 2 < 1 + Cardinality(S) /\ Cardinality(Server) \in Nat
    BY ServerAssumption, FS_CardinalityType DEF CommitByCounting
  <2> HIDE DEF S
  <2>4. Majority(Cardinality(Q))
    BY <2>2, <2>3 DEF Majority
  <2> QED BY <2>4 DEF Quorums, S
<1>5. ASSUME NEW j \in Q PROVE Acked(j, c, currentTerm[i])'
  <2>1. CASE j = i
    <3>1. BecameLeader(i, currentTerm[i])'
      BY DEF TenureInv, LeadersSent
    <3> QED BY <2>1, <3>1 DEF Acked
  <2>2. CASE j \in S
    <3>1. j \in Server \ {i} /\ matchIdx'[i][j] > 0 /\ c <= matchIdx'[i][j]
      BY <1>1, <2>2
    <3>2. PICK a \in Acknowledged :
            a.src = j /\ a.term = currentTerm'[i] /\ a.idx = matchIdx'[i][j]
      BY <3>1 DEF Effects, ProgressMoves
    <3>3. a \in Acknowledged'
      BY <3>2, NothingTakenBack DEF TenureInv
    <3> QED BY <3>1, <3>2, <3>3 DEF Acked
  <2> QED BY <2>1, <2>2
<1> HIDE DEF K, Q
<1>6. PICK C : C = K
  OBVIOUS
<1>7. C # <<>> /\ Len(C) = c /\ LastTerm(C) = currentTerm[i] /\ C \in H /\ Agree(C, log[i], c)
  BY <1>1, <1>2, <1>3, <1>6 DEF Agree
<1>8. Committed(C)'
  BY <1>4, <1>5, <1>7 DEF Committed, Quorums
<1> QED BY <1>1, <1>7, <1>8 DEF CommitSound

\* What raft_recv_appendentries lets the commit index follow to is before the
\* committed entry the sender knew of.
LEMMA FollowingCommits ==
  ASSUME ElectionInv, TenureInv, ElectionInv', TenureInv', NEW H, LogsInv(H), CommitInv(H),
         NEW i \in Server, NEW q \in EntriesSent, currentTerm'[i] = q.term,
         AppendEntriesAccept(i, q)
  PROVE  \/ commitIdx'[i] = commitIdx[i]
         \/ \E b : b = log'[i] /\ CommitSound(H, b, commitIdx'[i], q.term)
<1> PICK b : b = log'[i]
  OBVIOUS
<1>1. /\ OneHistory(H) /\ log[i] \in H /\ TypeOK /\ MessagesCarry(H)
      /\ b \in Seq(Entry) /\ Len(b) \in Nat /\ commitIdx[i] \in Nat /\ q.commit \in Nat
  BY LenProperties, SentFields DEF LogsInv, LogsKept, ElectionInv, TypeOK
<1>2. PICK L \in H : Carries(q, L)
  BY <1>1 DEF MessagesCarry
<1>3. CommitSound(H, L, q.commit, q.term) /\ Len(L) \in Nat
  BY <1>1, <1>2, LogFacts DEF CommitInv
<1>4. b = Merge(q, log[i], Len(q.entries)) /\ commitIdx'[i] = FollowedCommit(i, q, b)
  BY <1>1 DEF AppendEntriesAccept, TypeOK
<1>5. Agree(b, L, Len(L))
  BY <1>1, <1>2, <1>4, AcceptedAgrees DEF AppendEntriesAccept
<1>6. CASE ~(commitIdx[i] < q.commit)
  BY <1>4, <1>6 DEF FollowedCommit
<1>7. CASE commitIdx[i] < q.commit
  <2>1. q.commit <= Len(L) /\ q.commit <= Len(b) /\ Agree(L, b, q.commit)
    BY <1>1, <1>3, <1>5 DEF CommitSound, Agree
  <2>2. Smaller(Larger(Len(b), 1), q.commit) = q.commit
    BY <1>1, <2>1 DEF Smaller, Larger
  <2>3. commitIdx'[i] = q.commit
    BY <1>4, <1>7, <2>2 DEF FollowedCommit
  <2>4. CommitSound(H, b, q.commit, q.term)
    BY <1>1, <1>3, <2>1, CommitSoundElsewhere
  <2> QED BY <2>3, <2>4
<1> QED BY <1>6, <1>7

LEMMA EffectsCommitInv ==
  ASSUME ElectionInv, TenureInv, ElectionInv', TenureInv', NEW H, LogsInv(H), CommitInv(H),
         NEW i \in Server, Effects(i), CommitMoves(i),
         NEW K, K = H \cup {log'[i]}, LogsInv(K)'
  PROVE  CommitInv(K)'
<1>1. /\ OneHistory(H) /\ OneHistory(K) /\ H \subseteq K /\ TypeOK /\ TypeOK' /\ log'[i] \in K
      /\ \A j \in Server : /\ currentTerm[j] \in Nat /\ currentTerm'[j] \in Nat
                           /\ currentTerm[j] <= currentTerm'[j]
                           /\ commitIdx[j] \in Nat
  BY NothingTakenBack DEF LogsInv, OneHistory, ElectionInv, TypeOK, TenureInv
<1>2. ASSUME NEW j \in Server, NEW a, a = log[j], NEW c, c = commitIdx[j],
             NEW t, t = currentTerm'[j]
      PROVE  CommitSound(K, a, c, t)'
  <2>1. CommitSound(H, a, c, currentTerm[j])
    BY <1>2 DEF CommitInv
  <2> QED BY <1>1, <1>2, <2>1, CommitSoundOn
<1>3. ASSUME NEW j \in Server, j # i
      PROVE  CommitSound(K, log[j], commitIdx[j], currentTerm[j])'
  <2>1. log'[j] = log[j] /\ commitIdx'[j] = commitIdx[j]
    BY <1>3 DEF Effects, OthersKept
  <2>2. PICK a, c, t : a = log'[j] /\ c = commitIdx'[j] /\ t = currentTerm'[j]
    OBVIOUS
  <2>3. CommitSound(K, a, c, t)'
    BY <1>2, <2>1, <2>2
  <2> QED BY <2>2, <2>3
<1>4. CommitSound(K, log[i], commitIdx[i], currentTerm[i])'
  <2> SUFFICES ASSUME NEW b, b = log'[i], NEW c, c = commitIdx'[i], NEW t, t = currentTerm'[i]
               PROVE  CommitSound(K, b, c, t)'
    OBVIOUS
  <2>1. CASE c = commitIdx[i]
    <3> PICK a : a = log[i]
      OBVIOUS
    <3>1. CommitSound(K, a, c, t)'
      BY <1>2, <2>1
    <3>2. Agree(a, b, c)
      BY <1>1, <2>1, CommittedKept
    <3>3. \A C : Agree(C, a, c) => Agree(C, b, c)
      BY <3>2 DEF Agree
    <3> QED BY <3>1, <3>2, <3>3 DEF CommitSound, Agree
  <2>2. CASE Restart(i)
    <3>1. c = 0
      BY <1>1, <2>2 DEF Restart, TypeOK
    <3>2. Len(b) \in Nat
      BY <1>1, LenProperties DEF TypeOK
    <3> QED BY <3>1, <3>2 DEF CommitSound
  <2>3. CASE \E q \in EntriesSent :
               q.dst = i /\ currentTerm[i] <= q.term /\ currentTerm'[i] = q.term
                 /\ AppendEntriesAccept(i, q)
    <3>1. PICK q \in EntriesSent : currentTerm'[i] = q.term /\ AppendEntriesAccept(i, q)
      BY <2>3
    <3>2. CASE CommitSound(H, b, c, q.term)
      BY <1>1, <3>1, <3>2, CommitSoundOn
    <3> QED BY <2>1, <3>1, <3>2, FollowingCommits
  <2>4. CASE /\ state[i] = "leader" /\ state'[i] = "leader" /\ UNCHANGED <<log, currentTerm>>
             /\ c \in 1 .. Len(log[i]) /\ CommitByCounting(i, c, matchIdx'[i])
    <3>1. CommitSound(H, log[i], c, currentTerm[i])'
      BY <2>4, CountingCommits
    <3>2. CommitSound(H, b, c, t)'
      BY <3>1
    <3> QED BY <1>1, <3>2 DEF CommitSound
  <2> QED BY <2>1, <2>2, <2>3, <2>4 DEF CommitMoves
<1>5. ASSUME NEW m \in EntriesSent', NEW L \in K, Carries(m, L)
      PROVE  CommitSound(K, L, m.commit, m.term)'
  <2>1. CASE m \in EntriesSent
    <3>1. L \in H /\ m.term \in Nat
      BY <1>1, <1>5, <2>1, OldCarried, SentFields
    <3>2. CommitSound(H, L, m.commit, m.term)
      BY <1>5, <2>1, <3>1 DEF CommitInv
    <3> QED BY <1>1, <3>1, <3>2, CommitSoundOn
  <2>2. CASE m \notin EntriesSent
    <3>1. /\ m.term = currentTerm'[i] /\ Carries(m, log'[i]) /\ m.commit = commitIdx'[i]
      BY <1>1, <2>2, NewEntriesMessage
    <3>2. m.prevIdx \in Nat /\ Len(m.entries) \in Nat
      BY <1>1, MessageFields, LenProperties DEF EntriesSent, TypeOK
    <3>3. L = log'[i]
      BY <1>1, <1>5, <3>1, <3>2, CarriedOnce
    <3>4. CommitSound(K, log[i], commitIdx[i], currentTerm[i])'
      BY <1>4
    <3> QED BY <3>1, <3>3, <3>4
  <2> QED BY <2>1, <2>2
<1> QED BY <1>3, <1>4, <1>5 DEF CommitInv

----------------------------------------------------------------------------
ConsensusInv == \E H \in SUBSET Seq(Entry) : LogsInv(H) /\ KeepInv(H) /\ CommitInv(H)

LEMMA InitConsensusInv == Init => ConsensusInv
<1> SUFFICES ASSUME Init PROVE KeepInv(InitialHistory) /\ CommitInv(InitialHistory)
  BY EmptySeq, InitLogsInv DEF ConsensusInv, InitialHistory
<1> USE DEF InitialHistory
<1>1. msgs = {} /\ EntriesSent = {} /\ Acknowledged = {} /\ Granted = {}
  BY DEF Init, EntriesSent, Acknowledged, Granted
<1>2. \A L \in InitialHistory : Len(L) = 0
  BY EmptySeq
<1>3. \A i \in Server : log[i] = <<>> /\ commitIdx[i] = 0 /\ state[i] = "follower"
  BY DEF Init
<1>4. KeepInv(InitialHistory)
  BY <1>1, <1>2, <1>3 DEF KeepInv, EntriesKeep, SendersKeep, LeadersKeep, AckersKeep, VotersKeep
<1>5. CommitInv(InitialHistory)
  BY <1>1, <1>2, <1>3, EmptySeq DEF CommitInv, CommitSound
<1> QED BY <1>4, <1>5

LEMMA SameConsensusInv ==
  ASSUME NEW H, LogsInv(H), KeepInv(H), CommitInv(H), UNCHANGED vars
  PROVE  LogsInv(H)' /\ KeepInv(H)' /\ CommitInv(H)'
<1>1. /\ LogsInv(H)' /\ msgs' = msgs /\ log' = log /\ currentTerm' = currentTerm
      /\ state' = state /\ commitIdx' = commitIdx
  BY SameLogsInv DEF vars
<1>2. EntriesSent' = EntriesSent /\ Acknowledged' = Acknowledged /\ Granted' = Granted
  BY <1>1 DEF EntriesSent, Acknowledged, Granted
<1>3. \A v, k, t : Acked(v, k, t)' <=> Acked(v, k, t)
  BY <1>2 DEF Acked, BecameLeader
<1>4. \A k, t : Lost(k, t)' <=> Lost(k, t)
  BY <1>1, <1>3 DEF Lost, Quorums
<1>5. \A L, u : Keeps(H, L, u)' <=> Keeps(H, L, u)
  BY <1>4 DEF Keeps
<1>6. \A K : Committed(K)' <=> Committed(K)
  BY <1>3 DEF Committed, Quorums
<1>7. \A L, c, t : CommitSound(H, L, c, t)' <=> CommitSound(H, L, c, t)
  BY <1>6 DEF CommitSound
<1>8. EntriesKeep(H)' /\ SendersKeep(H)' /\ LeadersKeep(H)'
  BY <1>1, <1>2, <1>5 DEF KeepInv, EntriesKeep, SendersKeep, LeadersKeep
<1>9. AckersKeep(H)' /\ VotersKeep(H)'
  BY <1>1, <1>2, <1>3, <1>4 DEF KeepInv, AckersKeep, VotersKeep
<1>10. CommitInv(H)'
  BY <1>1, <1>2, <1>7 DEF CommitInv
<1> QED BY <1>1, <1>8, <1>9, <1>10 DEF KeepInv

LEMMA NextConsensusInv ==
  ASSUME ElectionInv, TenureInv, ConsensusInv, [Next]_vars
  PROVE  ConsensusInv'
<1>1. PICK H \in SUBSET Seq(Entry) : LogsInv(H) /\ KeepInv(H) /\ CommitInv(H)
  BY DEF ConsensusInv
<1>2. ElectionInv' /\ TenureInv'
  BY NextTenureInv
<1>3. CASE Next
  <2>1. PICK i \in Server : Effects(i) /\ CommitMoves(i)
    BY <1>3, NextMoves
  <2>2. PICK K : K = H \cup {log'[i]}
    OBVIOUS
  <2>3. LogsInv(K)'
    BY <1>1, <1>2, <2>1, <2>2, EffectsLogsInv
  <2>4. KeepInv(K)'
    BY <1>1, <1>2, <2>1, <2>2, <2>3, EffectsKeepInv
  <2>5. CommitInv(K)'
    BY <1>1, <1>2, <2>1, <2>2, <2>3, EffectsCommitInv
  <2>6. K \in SUBSET Seq(Entry)
    BY <2>3 DEF LogsInv, OneHistory
  <2> QED BY <2>3, <2>4, <2>5, <2>6 DEF ConsensusInv
<1>4. CASE UNCHANGED vars
  <2>1. LogsInv(H)' /\ KeepInv(H)' /\ CommitInv(H)'
    BY <1>1, <1>4, SameConsensusInv
  <2> QED BY <2>1 DEF ConsensusInv
<1> QED BY <1>3, <1>4

LEMMA Consensus == Spec => [](ElectionInv /\ TenureInv /\ ConsensusInv)
<1> QED BY InitElectionInv, InitTenureInv, InitConsensusInv, NextTenureInv, NextConsensusInv, PTL
        DEF Spec

----------------------------------------------------------------------------
\* A log that holds the last entry of K has all of K.
LEMMA HoldsAll ==
  ASSUME NEW H, OneHistory(H), NEW K \in H, K # <<>>, NEW L \in H,
         Holds(L, Len(K), LastTerm(K))
  PROVE  Agree(L, K, Len(K))
<1>1. K \in Seq(Entry) /\ Len(K) \in Nat /\ Len(K) # 0 /\ Len(L) \in Nat
  BY LogFacts, EmptySeq
<1>2. Len(K) \in 1 .. Len(K) /\ LastTerm(K) = K[Len(K)].term
  BY <1>1 DEF LastTerm, TermAt
<1> QED BY <1>2, SameTerm DEF Holds

\* What is committed is a part of every log of a later term.
LEMMA CommittedIn ==
  ASSUME NEW H, OneHistory(H), NEW K \in H, Committed(K), NEW L \in H, NEW u,
         Keeps(H, L, u), LastTerm(K) < u
  PROVE  Agree(L, K, Len(K))
<1>1. K # <<>> /\ ~Lost(Len(K), LastTerm(K))
  BY CommittedNotLost DEF Committed
<1>2. Len(K) \in 1 .. Len(K) /\ LastTerm(K) = K[Len(K)].term
  <2>1. K \in Seq(Entry) /\ Len(K) \in Nat /\ Len(K) # 0
    BY <1>1, LogFacts, EmptySeq
  <2> QED BY <2>1 DEF LastTerm, TermAt
<1>3. Holds(L, Len(K), LastTerm(K))
  BY <1>1, <1>2 DEF Keeps
<1> QED BY <1>1, <1>3, HoldsAll

LEMMA CommittedAgree ==
  ASSUME NEW H, OneHistory(H), EntriesKeep(H), NEW K \in H, Committed(K),
         NEW L \in H, Committed(L), NEW n \in Nat, n <= Len(K), n <= Len(L)
  PROVE  Agree(K, L, n)
<1>1. ASSUME NEW A \in H, Committed(A)
      PROVE  /\ Len(A) \in Nat /\ Len(A) \in 1 .. Len(A) /\ LastTerm(A) = A[Len(A)].term
             /\ LastTerm(A) \in Nat /\ Keeps(H, A, LastTerm(A))
  <2>1. A \in Seq(Entry) /\ Len(A) \in Nat /\ Len(A) # 0
    BY <1>1, LogFacts, EmptySeq DEF Committed
  <2>2. Len(A) \in 1 .. Len(A) /\ LastTerm(A) = A[Len(A)].term
    BY <2>1 DEF LastTerm, TermAt
  <2> QED BY <2>1, <2>2, LogFacts DEF EntriesKeep
<1>2. Len(K) \in Nat /\ Len(L) \in Nat /\ LastTerm(K) \in Nat /\ LastTerm(L) \in Nat
  BY <1>1
<1>3. CASE LastTerm(K) < LastTerm(L)
  <2>1. Agree(L, K, Len(K))
    BY <1>1, <1>3, CommittedIn
  <2> QED BY <1>2, <2>1 DEF Agree
<1>4. CASE LastTerm(L) < LastTerm(K)
  <2>1. Agree(K, L, Len(L))
    BY <1>1, <1>4, CommittedIn
  <2> QED BY <1>2, <2>1 DEF Agree
<1>5. CASE LastTerm(K) = LastTerm(L)
  <2>1. /\ Len(K) \in 1 .. Len(K) /\ Len(L) \in 1 .. Len(L)
        /\ K[Len(K)].term = L[Len(L)].term
    BY <1>1, <1>5
  <2>2. CASE Len(K) <= Len(L)
    <3>1. Agree(L, K, Len(K))
      BY <2>1, <2>2 DEF OneHistory
    <3> QED BY <1>2, <3>1 DEF Agree
  <2>3. CASE Len(L) <= Len(K)
    <3>1. Agree(K, L, Len(L))
      BY <2>1, <2>3 DEF OneHistory
    <3> QED BY <1>2, <3>1 DEF Agree
  <2> QED BY <1>2, <2>2, <2>3
<1> QED BY <1>2, <1>3, <1>4, <1>5

\* What any server counts as committed is in the log of every leader of its term or
\* a later one, whatever the network does, whoever restarts and whichever callback
\* fails: what __should_grant_vote compares and the current-term rule of
\* raft_recv_appendentries_response together.
THEOREM LeadersAreComplete == Spec => []LeaderCompleteness
<1>1. ASSUME ElectionInv, ConsensusInv, NEW i \in Server, NEW j \in Server,
             state[j] = "leader", currentTerm[i] <= currentTerm[j]
      PROVE  /\ commitIdx[i] <= Len(log[j])
             /\ Prefix(log[j], commitIdx[i]) = Prefix(log[i], commitIdx[i])
  <2>1. PICK H \in SUBSET Seq(Entry) : LogsInv(H) /\ KeepInv(H) /\ CommitInv(H)
    BY <1>1 DEF ConsensusInv
  <2>2. /\ OneHistory(H) /\ log[i] \in H /\ log[j] \in H /\ LeaderAhead(H)
        /\ log[i] \in Seq(Entry) /\ log[j] \in Seq(Entry) /\ Len(log[i]) \in Nat
        /\ Len(log[j]) \in Nat /\ commitIdx[i] \in Nat
        /\ currentTerm[i] \in Nat /\ currentTerm[j] \in Nat
    BY <1>1, <2>1, LenProperties DEF LogsInv, LogsKept, ElectionInv, TypeOK
  <2>3. CommitSound(H, log[i], commitIdx[i], currentTerm[i])
    BY <2>1 DEF CommitInv
  <2>4. Agree(log[j], log[i], commitIdx[i])
    <3>1. CASE commitIdx[i] = 0
      BY <2>2, <3>1 DEF Agree
    <3>2. CASE commitIdx[i] > 0
      <4>1. PICK K \in H : /\ Committed(K) /\ LastTerm(K) <= currentTerm[i]
                           /\ Agree(K, log[i], commitIdx[i])
        BY <2>3, <3>2 DEF CommitSound
      <4>2. /\ K # <<>> /\ Len(K) \in Nat /\ Len(K) \in 1 .. Len(K)
            /\ LastTerm(K) = K[Len(K)].term /\ LastTerm(K) \in Nat
        <5>1. K # <<>> /\ K \in Seq(Entry) /\ Len(K) \in Nat /\ Len(K) # 0
          BY <2>2, <4>1, LogFacts, EmptySeq DEF Committed
        <5>2. Len(K) \in 1 .. Len(K) /\ LastTerm(K) = K[Len(K)].term
          BY <5>1 DEF LastTerm, TermAt
        <5> QED BY <2>2, <5>1, <5>2, LogFacts
      <4>3. Agree(log[j], K, Len(K))
        <5>1. CASE LastTerm(K) < currentTerm[j]
          <6>1. Keeps(H, log[j], currentTerm[j])
            BY <1>1, <2>1 DEF KeepInv, LeadersKeep
          <6> QED BY <2>2, <4>1, <5>1, <6>1, CommittedIn
        <5>2. CASE LastTerm(K) = currentTerm[j]
          <6>1. Holds(log[j], Len(K), LastTerm(K))
            BY <1>1, <2>2, <4>2, <5>2 DEF LeaderAhead
          <6> QED BY <2>2, <4>2, <6>1, HoldsAll
        <5> QED BY <1>1, <2>2, <4>1, <4>2, <5>1, <5>2
      <4> QED BY <2>2, <4>1, <4>2, <4>3 DEF Agree
    <3> QED BY <2>2, <3>1, <3>2
  <2> QED BY <2>2, <2>4, AgreePrefix DEF Agree
<1>2. ElectionInv /\ ConsensusInv => LeaderCompleteness
  BY <1>1 DEF LeaderCompleteness
<1> QED BY <1>2, Consensus, PTL

\* Committed entries agree on every two servers, so that raft_apply_all hands the
\* same entries, in the same order, to every state machine.
THEOREM MachinesAgree == Spec => []StateMachineSafety
<1>1. ASSUME ElectionInv, ConsensusInv, NEW i \in Server, NEW j \in Server,
             NEW n, n = Smaller(commitIdx[i], commitIdx[j])
      PROVE  n <= Len(log[i]) /\ Prefix(log[i], n) = Prefix(log[j], n)
  <2>1. PICK H \in SUBSET Seq(Entry) : LogsInv(H) /\ KeepInv(H) /\ CommitInv(H)
    BY <1>1 DEF ConsensusInv
  <2>2. OneHistory(H) /\ EntriesKeep(H)
    BY <2>1 DEF LogsInv, KeepInv
  <2>3. ASSUME NEW s \in Server
        PROVE  /\ log[s] \in Seq(Entry) /\ Len(log[s]) \in Nat /\ commitIdx[s] \in Nat
               /\ CommitSound(H, log[s], commitIdx[s], currentTerm[s])
    BY <1>1, <2>1, LenProperties DEF ElectionInv, TypeOK, CommitInv
  <2>4. n \in Nat /\ n <= commitIdx[i] /\ n <= commitIdx[j]
    BY <1>1, <2>3 DEF Smaller
  <2>5. Agree(log[i], log[j], n)
    <3>1. CASE n = 0
      BY <2>3, <3>1 DEF Agree
    <3>2. CASE n > 0
      <4>1. commitIdx[i] > 0 /\ commitIdx[j] > 0
        BY <2>3, <2>4, <3>2
      <4>2. PICK K \in H : Committed(K) /\ Agree(K, log[i], commitIdx[i])
        BY <2>3, <4>1 DEF CommitSound
      <4>3. PICK L \in H : Committed(L) /\ Agree(L, log[j], commitIdx[j])
        BY <2>3, <4>1 DEF CommitSound
      <4>4. Len(K) \in Nat /\ Len(L) \in Nat
        BY <2>2, LogFacts
      <4>5. n <= Len(K) /\ n <= Len(L) /\ Agree(K, log[i], n) /\ Agree(L, log[j], n)
        BY <2>3, <2>4, <4>2, <4>3, <4>4 DEF Agree
      <4>6. Agree(K, L, n)
        BY <2>2, <2>4, <4>2, <4>3, <4>5, CommittedAgree
      <4> QED BY <4>5, <4>6 DEF Agree
    <3> QED BY <2>4, <3>1, <3>2
  <2> QED BY <2>3, <2>4, <2>5, AgreePrefix DEF Agree
<1>2. ElectionInv /\ ConsensusInv => StateMachineSafety
  BY <1>1 DEF StateMachineSafety
<1> QED BY <1>2, Consensus, PTL

\* An entry at which a server differs from the log of a message it may accept is
\* not committed.
LEMMA DifferenceUncommitted ==
  ASSUME ElectionInv, NEW H, LogsInv(H), KeepInv(H), CommitInv(H),
         NEW m \in EntriesSent, NEW L \in H, Carries(m, L),
         NEW i \in Server, currentTerm[i] <= m.term,
         NEW x \in 1 .. Len(log[i]), x <= Len(L), log[i][x].term # L[x].term
  PROVE  commitIdx[i] < x
<1>1. /\ OneHistory(H) /\ log[i] \in H /\ TypeOK /\ MessageLogs(H)
      /\ Len(log[i]) \in Nat /\ Len(L) \in Nat /\ commitIdx[i] \in Nat /\ m.term \in Nat
      /\ currentTerm[i] \in Nat /\ Keeps(H, L, m.term)
  BY LenProperties, LogFacts, SentFields
     DEF LogsInv, LogsKept, ElectionInv, TypeOK, KeepInv, SendersKeep
<1> SUFFICES ASSUME x <= commitIdx[i] PROVE FALSE
  BY <1>1
<1>2. PICK K \in H : /\ Committed(K) /\ LastTerm(K) <= currentTerm[i]
                     /\ Agree(K, log[i], commitIdx[i])
  <2>1. commitIdx[i] > 0 /\ CommitSound(H, log[i], commitIdx[i], currentTerm[i])
    BY <1>1 DEF CommitInv
  <2> QED BY <2>1 DEF CommitSound
<1>3. /\ K # <<>> /\ Len(K) \in Nat /\ Len(K) \in 1 .. Len(K)
      /\ LastTerm(K) = K[Len(K)].term /\ LastTerm(K) \in Nat
  <2>1. K # <<>> /\ K \in Seq(Entry) /\ Len(K) \in Nat /\ Len(K) # 0
    BY <1>1, <1>2, LogFacts, EmptySeq DEF Committed
  <2>2. Len(K) \in 1 .. Len(K) /\ LastTerm(K) = K[Len(K)].term
    BY <2>1 DEF LastTerm, TermAt
  <2> QED BY <1>1, <2>1, <2>2, LogFacts
<1>4. x \in 1 .. Len(K) /\ x \in Nat /\ K[x] = log[i][x]
  BY <1>1, <1>2, <1>3 DEF Agree
<1>5. CASE LastTerm(K) < m.term
  <2>1. Agree(L, K, Len(K))
    BY <1>1, <1>2, <1>5, CommittedIn
  <2> QED BY <1>4, <2>1 DEF Agree
<1>6. CASE LastTerm(K) = m.term
  <2>1. Agree(L, K, Smaller(Len(L), Len(K)))
    BY <1>1, <1>3, <1>6 DEF MessageLogs
  <2>2. x \in 1 .. Smaller(Len(L), Len(K))
    BY <1>1, <1>3, <1>4 DEF Smaller
  <2> QED BY <1>4, <2>1, <2>2 DEF Agree
<1> QED BY <1>1, <1>2, <1>3, <1>5, <1>6

LEMMA NoCommittedConflict ==
  ASSUME ElectionInv, ConsensusInv, NEW m \in EntriesSent, NEW i \in Server,
         currentTerm[i] <= m.term
  PROVE  ~CommittedConflict(i, m)
<1>1. PICK H \in SUBSET Seq(Entry) : LogsInv(H) /\ KeepInv(H) /\ CommitInv(H)
  BY DEF ConsensusInv
<1>2. PICK L \in H : Carries(m, L)
  BY <1>1 DEF LogsInv, MessagesCarry
<1>3. OneHistory(H) /\ log[i] \in H /\ TypeOK
  BY <1>1 DEF LogsInv, LogsKept, ElectionInv
<1>4. /\ m.prevIdx \in Nat /\ Len(m.entries) \in Nat /\ Len(L) = m.prevIdx + Len(m.entries)
      /\ Len(log[i]) \in Nat /\ commitIdx[i] \in Nat
  BY <1>2, <1>3, SentFields, LogFacts DEF Carries, TypeOK
<1>5. ASSUME NEW x \in 1 .. Len(log[i]), x <= Len(L), log[i][x].term # L[x].term
      PROVE  commitIdx[i] < x
  BY <1>1, <1>2, <1>5, DifferenceUncommitted
<1>6. CASE PrevConflicts(m, log[i])
  <2>1. /\ m.prevIdx \in 1 .. Len(log[i]) /\ m.prevIdx <= Len(L)
        /\ log[i][m.prevIdx].term # L[m.prevIdx].term
    BY <1>2, <1>4, <1>6 DEF PrevConflicts, Carries, TermAt
  <2>2. commitIdx[i] < m.prevIdx
    BY <1>5, <2>1
  <2> QED BY <1>4, <1>6, <2>2 DEF CommittedConflict
<1>7. CASE ~PrevConflicts(m, log[i]) /\ ~PrevMissing(m, log[i])
  <2> DEFINE p == NumPresent(m, log[i])
             c == m.prevIdx + p + 1
  <2>1. /\ p \in 0 .. Len(m.entries)
        /\ p < Len(m.entries) =>
             c <= Len(L) /\ (c <= Len(log[i]) => log[i][c].term # L[c].term)
    BY <1>2, <1>3, <1>7, PresentAgrees
  <2> HIDE DEF p
  <2>2. CASE p < Len(m.entries) /\ c <= Len(log[i])
    <3>1. c \in 1 .. Len(log[i])
      BY <1>4, <2>1, <2>2
    <3>2. commitIdx[i] < c
      BY <1>5, <2>1, <2>2, <3>1
    <3>3. ~(c <= commitIdx[i])
      BY <1>4, <3>1, <3>2
    <3> QED BY <1>7, <3>3 DEF CommittedConflict, p
  <2>3. CASE ~(p < Len(m.entries) /\ c <= Len(log[i]))
    BY <1>7, <2>3 DEF CommittedConflict, EntryConflicts, p
  <2> QED BY <2>2, <2>3
<1>8. CASE ~PrevConflicts(m, log[i]) /\ PrevMissing(m, log[i])
  BY <1>8 DEF CommittedConflict
<1> QED BY <1>6, <1>7, <1>8

\* raft_recv_appendentries never meets a message of its own or a newer term that
\* would delete a committed entry (its RAFT_ERR_SHUTDOWN), and an acknowledged index
\* is in the leader's log (the assertion of raft_recv_appendentries_response).
THEOREM AssertionsHold == Spec => []Assertions
<1>1. ASSUME ElectionInv, TenureInv, ConsensusInv, NEW m \in msgs
      PROVE  /\ m.type = "AppendEntries" /\ currentTerm[m.dst] <= m.term
                  => ~CommittedConflict(m.dst, m)
             /\ m.type = "AppendEntriesResponse" /\ m.success /\ state[m.dst] = "leader"
                  /\ currentTerm[m.dst] = m.term
                  => m.idx <= Len(log[m.dst])
  <2>1. m.dst \in Server
    BY <1>1, MessageFields DEF ElectionInv, TypeOK
  <2>2. ASSUME m.type = "AppendEntries", currentTerm[m.dst] <= m.term
        PROVE  ~CommittedConflict(m.dst, m)
    BY <1>1, <2>1, <2>2, NoCommittedConflict DEF EntriesSent
  <2>3. ASSUME m.type = "AppendEntriesResponse", m.success, state[m.dst] = "leader",
               currentTerm[m.dst] = m.term
        PROVE  m.idx <= Len(log[m.dst])
    BY <1>1, <2>3 DEF TenureInv, AcksTrue, Acknowledged
  <2> QED BY <2>2, <2>3
<1>2. ElectionInv /\ TenureInv /\ ConsensusInv => Assertions
  <2> SUFFICES ASSUME ElectionInv, TenureInv, ConsensusInv, NEW m \in msgs
               PROVE  CASE m.type = "AppendEntries" ->
                             currentTerm[m.dst] <= m.term => ~CommittedConflict(m.dst, m)
                        [] m.type = "AppendEntriesResponse" ->
                             m.success /\ state[m.dst] = "leader"
                               /\ currentTerm[m.dst] = m.term => m.idx <= Len(log[m.dst])
                        [] OTHER -> TRUE
    BY DEF Assertions
  <2>1. CASE m.type = "AppendEntries"
    <3>1. m.type # "AppendEntriesResponse"
      BY <2>1
    <3> QED BY <1>1, <2>1, <3>1
  <2>2. CASE m.type = "AppendEntriesResponse"
    <3>1. m.type # "AppendEntries"
      BY <2>2
    <3> QED BY <1>1, <2>2, <3>1
  <2>3. CASE m.type \notin {"AppendEntries", "AppendEntriesResponse"}
    BY <2>3
  <2> QED BY <2>1, <2>2, <2>3
<1> QED BY <1>2, Consensus, PTL

\* No step takes a committed entry away or lowers a commit index, except that a
\* process that restarts counts its commit index from zero again: what
\* raft_set_commit_idx asserts, over whole calls.
THEOREM CommitsStay == Spec => CommittedStays
<1>1. ASSUME ElectionInv, TenureInv, ConsensusInv, Next, NEW i \in Server, ~Restart(i)
      PROVE  /\ commitIdx[i] <= commitIdx'[i]
             /\ commitIdx'[i] <= Len(log'[i])
             /\ Prefix(log'[i], commitIdx[i]) = Prefix(log[i], commitIdx[i])
  <2>1. PICK H \in SUBSET Seq(Entry) : LogsInv(H) /\ KeepInv(H) /\ CommitInv(H)
    BY <1>1 DEF ConsensusInv
  <2>2. TypeOK' /\ ConsensusInv'
    BY <1>1, NextTenureInv, NextConsensusInv DEF ElectionInv
  <2>3. PICK k \in Server : Effects(k) /\ CommitMoves(k)
    BY <1>1, NextMoves
  <2>4. /\ log[i] \in Seq(Entry) /\ log'[i] \in Seq(Entry) /\ Len(log'[i]) \in Nat
        /\ Len(log[i]) \in Nat /\ commitIdx[i] \in Nat /\ commitIdx'[i] \in Nat
        /\ commitIdx[i] <= Len(log[i])
    BY <1>1, <2>1, <2>2, LenProperties DEF ElectionInv, TypeOK, CommitInv, CommitSound
  <2>5. Agree(log[i], log'[i], commitIdx[i])
    <3>1. CASE k = i
      BY <1>1, <2>1, <2>2, <2>3, <3>1, CommittedKept
    <3>2. CASE k # i
      BY <2>3, <2>4, <3>2 DEF Effects, OthersKept, Agree
    <3> QED BY <3>1, <3>2
  <2>6. commitIdx'[i] <= Len(log'[i])
    <3>1. PICK G : CommitInv(G)'
      BY <2>2 DEF ConsensusInv
    <3> QED BY <3>1 DEF CommitInv, CommitSound
  <2>7. commitIdx[i] <= commitIdx'[i]
    <3>1. CASE commitIdx'[i] = commitIdx[i]
      BY <2>4, <3>1
    <3>2. CASE \E q \in EntriesSent : AppendEntriesAccept(i, q)
      <4>1. PICK q \in EntriesSent : commitIdx'[i] = FollowedCommit(i, q, log'[i])
        BY <1>1, <3>2 DEF AppendEntriesAccept, ElectionInv, TypeOK
      <4>2. q.commit \in Nat
        BY <1>1, SentFields DEF ElectionInv
      <4>3. PICK n : n = Len(log'[i])
        OBVIOUS
      <4>4. n \in Nat /\ commitIdx[i] <= n
        BY <2>4, <2>5, <4>3 DEF Agree
      <4>5. commitIdx'[i] = IF commitIdx[i] < q.commit
                            THEN Smaller(Larger(n, 1), q.commit) ELSE commitIdx[i]
        BY <4>1, <4>3 DEF FollowedCommit
      <4> QED BY <2>4, <4>2, <4>4, <4>5 DEF Smaller, Larger
    <3>3. CASE CommitByCounting(i, commitIdx'[i], matchIdx'[i])
      BY <2>4, <3>3 DEF CommitByCounting
    <3>4. CASE k # i
      BY <2>3, <2>4, <3>4 DEF Effects, OthersKept
    <3> QED BY <1>1, <2>3, <3>1, <3>2, <3>3, <3>4 DEF CommitMoves
  <2> QED BY <2>4, <2>5, <2>6, <2>7, AgreePrefix
<1>2. ElectionInv /\ TenureInv /\ ConsensusInv /\ [Next]_vars =>
        [\A i \in Server :
           \/ /\ commitIdx[i] <= commitIdx'[i]
              /\ commitIdx'[i] <= Len(log'[i])
              /\ Prefix(log'[i], commitIdx[i]) = Prefix(log[i], commitIdx[i])
           \/ Restart(i)]_vars
  BY <1>1
<1> QED BY <1>2, Consensus, PTL DEF CommittedStays, Spec
=============================================================================

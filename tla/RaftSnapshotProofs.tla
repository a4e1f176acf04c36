------------------------- MODULE RaftSnapshotProofs -------------------------
(***************************************************************************)
(* The safety of log compaction, for any followers and bounds, at every    *)
(* node but a follower that took one of the steps that go wrong: the       *)
(* leader, and any other follower, stays right whatever such a one does.   *)
(***************************************************************************)
EXTENDS RaftSnapshot, TLAPS, SequenceTheorems, WellFoundedInduction

\* The leader's entry of an index, and the mark of a snapshot that ends with it.
EntryAt(k) == [term |-> IF k <= Prior THEN OldTerm ELSE Term, id |-> k]
MarkAt(k) == [idx |-> k, term |-> IF k = 0 THEN 0 ELSE EntryAt(k).term]

\* A follower's stray entry is its last and is not committed.
StrayAt(n, k) ==
  n # Leader /\ log[n][k] = Stray /\ commitIdx[n] < k /\ k = Len(log[n])

\* One node: what is left of its log, its counters, its marks and its state machine.
LogFollows(n) ==
  \A k \in base[n] + 1 .. Len(log[n]) : log[n][k] = EntryAt(k) \/ StrayAt(n, k)
CountersFollow(n) ==
  base[n] <= lastApplied[n] /\ lastApplied[n] <= commitIdx[n] /\ commitIdx[n] <= Len(log[n])
MarksFollow(n) ==
  /\ Held(n) = MarkAt(base[n])
  /\ taking[n] # "no" =>
       /\ snap[n] = MarkAt(snap[n].idx)
       /\ base[n] < snap[n].idx /\ snap[n].idx <= lastApplied[n]
Applied(n) == fsm[n] = [k \in 1 .. lastApplied[n] |-> k]
Sound(n) == LogFollows(n) /\ CountersFollow(n) /\ MarksFollow(n) /\ Applied(n)

\* Nobody has or commits more than the leader.
Behind(n) == Len(log[n]) <= Len(log[Leader]) /\ commitIdx[n] <= commitIdx[Leader]

\* What holds of every node, misled or not.
Kept(n) == lastApplied[n] <= commitIdx[n] /\ commitIdx[n] <= Len(log[n])

\* A follower holds the leader's entries up to i, but for those its snapshot stands for.
HoldsTo(f, i) ==
  i <= Len(log[f]) /\ \A k \in base[f] + 1 .. i : log[f][k] = EntryAt(k)
Acknowledged(f) ==
  /\ nextIdx[f] <= Len(log[Leader]) + 1
  /\ f \notin misled => HoldsTo(f, matchIdx[f])

\* What is sent is of a leader's log of len entries of which com are committed.
EntriesAreSent(m) ==
  /\ m.dst \in Follower /\ m.prev \in Mark /\ m.prev = MarkAt(m.prev.idx)
  /\ m.entries \in Seq(Entry) /\ m.commit \in Nat
EntriesAreTrue(m, len, com) ==
  LET p == m.prev.idx IN
  /\ p + Len(m.entries) <= len /\ m.commit <= com
  /\ \A j \in 1 .. Len(m.entries) : m.entries[j] = EntryAt(p + j)
SnapshotIsTrue(m, com) ==
  /\ m.dst \in Follower /\ m.mark.idx \in Nat \ {0} /\ m.mark = MarkAt(m.mark.idx)
  /\ m.mark.idx <= com
  /\ m.fsm = [k \in 1 .. m.mark.idx |-> k]
SentIsTrue(m, len, com) ==
  \/ /\ m.type = "AppendEntries" /\ EntriesAreSent(m)
     /\ Misplaced(m) \/ EntriesAreTrue(m, len, com)
  \/ m.type = "Snapshot" /\ SnapshotIsTrue(m, com)
ReplyIsTrue(m) ==
  /\ m.type = "AppendEntriesResponse"
  /\ m.src \in Follower /\ m.idx \in Nat /\ m.success \in BOOLEAN
  /\ m.success /\ m.src \notin misled => HoldsTo(m.src, m.idx)
IsTrue(m) == SentIsTrue(m, Len(log[Leader]), commitIdx[Leader]) \/ ReplyIsTrue(m)

SnapshotInv ==
  /\ TypeOK
  /\ Prior <= Len(log[Leader])
  /\ \A n \in Node : Kept(n)
  /\ \A n \in Node \ misled : Sound(n) /\ Behind(n)
  /\ \A f \in Follower : Acknowledged(f)
  /\ \A m \in msgs : IsTrue(m)

----------------------------------------------------------------------------
\* Least numbers and sequences.
LEMMA LeastNumber ==
  ASSUME NEW X, X \subseteq Nat, X # {}
  PROVE  \E n \in X : \A m \in X : n <= m
<1> DEFINE Less == {ss \in Nat \X Nat : ss[1] < ss[2]}
<1>1. IsWellFoundedOn(Less, Nat)
  BY NatLessThanWellFounded DEF OpToRel
<1>2. PICK n \in X : \A m \in X : <<m, n>> \notin Less
  <2> HIDE DEF Less
  <2> QED BY <1>1, WFMin
<1>3. ASSUME NEW m \in X PROVE n <= m
  <2>1. m \in Nat /\ n \in Nat /\ <<m, n>> \notin Less
    BY <1>2
  <2>2. ~(m < n)
    BY <2>1
  <2> QED BY <2>1, <2>2
<1> QED BY <1>2, <1>3

LEMMA Constants ==
  /\ Leader \in Node /\ Follower \subseteq Node /\ Leader \notin Follower
  /\ Term \in Nat /\ OldTerm \in Nat /\ StrayTerm \in Nat
  /\ 0 < StrayTerm /\ StrayTerm < OldTerm /\ OldTerm < Term
  /\ Prior \in Nat /\ MaxLog \in Nat
BY NodeAssumption, TermAssumption, BoundsAssumption DEF Node

\* The leader's entries are entries, and none is a stray one.
LEMMA Entries ==
  ASSUME NEW k \in Nat \ {0}
  PROVE  /\ EntryAt(k) \in Entry /\ EntryAt(k).term # Stray.term /\ EntryAt(k).id = k
         /\ EntryAt(k) # Stray /\ EntryAt(k).term \in {OldTerm, Term}
         /\ MarkAt(k) = [idx |-> k, term |-> EntryAt(k).term]
BY Constants DEF EntryAt, Entry, Stray, MarkAt

LEMMA Marks ==
  ASSUME NEW k \in Nat
  PROVE  MarkAt(k) \in Mark /\ MarkAt(k).idx = k /\ MarkAt(0) = NoMark
BY Constants DEF EntryAt, MarkAt, Mark, NoMark

\* The first entries a node has of a message: there is a greatest number of them.
LEMMA NumPresentType ==
  ASSUME NEW m, NEW f, Len(m.entries) \in Nat
  PROVE  /\ NumPresent(f, m) \in 0 .. Len(m.entries)
         /\ Present(f, m, NumPresent(f, m))
         /\ NumPresent(f, m) < Len(m.entries) => ~Present(f, m, NumPresent(f, m) + 1)
<1> DEFINE T == {n \in 0 .. Len(m.entries) : ~Present(f, m, n)} \cup {Len(m.entries) + 1}
<1>1. PICK x \in T : \A y \in T : x <= y
  <2>1. T \subseteq Nat /\ T # {}
    OBVIOUS
  <2> QED BY <2>1, LeastNumber
<1>2. Present(f, m, 0)
  BY DEF Present
<1>3. x # 0
  BY <1>2
<1>4. x - 1 \in 0 .. Len(m.entries) /\ x - 1 \notin T
  BY <1>1, <1>3
<1>5. /\ Present(f, m, x - 1)
      /\ x - 1 < Len(m.entries) => ~Present(f, m, (x - 1) + 1)
  BY <1>1, <1>4
<1>6. \E n \in 0 .. Len(m.entries) :
        Present(f, m, n) /\ (n < Len(m.entries) => ~Present(f, m, n + 1))
  BY <1>4, <1>5
<1> QED BY <1>6 DEF NumPresent

\* What is in a network after a message is sent to it.
LEMMA Sending ==
  ASSUME NEW ms, msgs' = Send(ms)
  PROVE  \A m \in msgs' : m \in msgs \/ m \in ms
BY DEF Send

----------------------------------------------------------------------------
\* What a step of one node leaves of the others, and what it may do to the leader, to the
\* follower that takes it and to the messages.
KeptNode(x) ==
  /\ log'[x] = log[x] /\ base'[x] = base[x] /\ snap'[x] = snap[x] /\ saved'[x] = saved[x]
  /\ taking'[x] = taking[x] /\ commitIdx'[x] = commitIdx[x]
  /\ lastApplied'[x] = lastApplied[x] /\ fsm'[x] = fsm[x]
LeaderGrows == Len(log[Leader]) <= Len(log'[Leader]) /\ commitIdx[Leader] <= commitIdx'[Leader]
StaysTrue(f) == \A i \in Nat : HoldsTo(f, i) => HoldsTo(f, i)'
Progresses(f) ==
  /\ nextIdx'[f] = nextIdx[f] \/ nextIdx'[f] <= Len(log'[Leader]) + 1
  /\ matchIdx'[f] = matchIdx[f] \/ (f \notin misled => HoldsTo(f, matchIdx'[f]))
StepOf(n) ==
  /\ n \in Node /\ \A x \in Node \ {n} : KeptNode(x)
  /\ misled \subseteq misled' /\ misled' \subseteq misled \cup {n}
  /\ LeaderGrows /\ Kept(n)'
  /\ n \notin misled' => Sound(n)' /\ Behind(n)' /\ StaysTrue(n)
  /\ \A f \in Follower : Progresses(f)
  /\ \A m \in msgs' : m \in msgs \/ IsTrue(m)'

LEMMA NodeTypes ==
  ASSUME TypeOK, NEW n \in Node
  PROVE  /\ log[n] \in Seq(Entry \cup {Gone, Stray}) /\ Len(log[n]) \in Nat
         /\ base[n] \in Nat /\ commitIdx[n] \in Nat /\ lastApplied[n] \in Nat
         /\ fsm[n] \in Seq(Nat) /\ snap[n] \in Mark /\ saved[n] \in Mark
         /\ snap[n].idx \in Nat
         /\ taking[n] \in {"no", "blocking", "nonblocking"}
<1>1. log[n] \in Seq(Entry \cup {Gone, Stray})
  BY DEF TypeOK
<1>2. Len(log[n]) \in Nat
  BY <1>1, LenProperties
<1>3. snap[n] \in Mark /\ snap[n].idx \in Nat
  BY DEF TypeOK, Mark
<1> QED BY <1>1, <1>2, <1>3 DEF TypeOK

LEMMA LeaderIsNotMisled ==
  ASSUME TypeOK
  PROVE  Leader \in Node \ misled /\ misled \subseteq Follower
BY Constants DEF TypeOK

LEMMA KeptSound ==
  ASSUME NEW x \in Node, KeptNode(x)
  PROVE  /\ Sound(x) => Sound(x)'
         /\ Kept(x)' = Kept(x)
         /\ \A i : HoldsTo(x, i)' = HoldsTo(x, i)
BY DEF KeptNode, Sound, LogFollows, CountersFollow, MarksFollow, Applied, StrayAt, Held, HoldsTo,
       Kept

LEMMA KeptTrue ==
  ASSUME TypeOK, TypeOK', NEW n, StepOf(n), NEW m, IsTrue(m)
  PROVE  IsTrue(m)'
<1>1. /\ Len(log[Leader]) \in Nat /\ Len(log'[Leader]) \in Nat
      /\ commitIdx[Leader] \in Nat /\ commitIdx'[Leader] \in Nat
  BY Constants, LenProperties DEF TypeOK
<1>2. Len(log[Leader]) <= Len(log'[Leader]) /\ commitIdx[Leader] <= commitIdx'[Leader]
  BY DEF StepOf, LeaderGrows
<1>3. CASE SentIsTrue(m, Len(log[Leader]), commitIdx[Leader])
  <2>1. CASE /\ m.type = "AppendEntries" /\ EntriesAreSent(m)
             /\ Misplaced(m) \/ EntriesAreTrue(m, Len(log[Leader]), commitIdx[Leader])
    <3>1. m.prev.idx + Len(m.entries) \in Nat /\ m.commit \in Nat
      BY <2>1, LenProperties DEF EntriesAreSent, Mark
    <3>2. Misplaced(m) \/ EntriesAreTrue(m, Len(log'[Leader]), commitIdx'[Leader])
      BY <1>1, <1>2, <2>1, <3>1 DEF EntriesAreTrue
    <3> QED BY <2>1, <3>2 DEF IsTrue, SentIsTrue
  <2>2. CASE SnapshotIsTrue(m, commitIdx[Leader]) /\ m.type = "Snapshot"
    <3>1. SnapshotIsTrue(m, commitIdx'[Leader])
      BY <1>1, <1>2, <2>2 DEF SnapshotIsTrue
    <3> QED BY <2>2, <3>1 DEF IsTrue, SentIsTrue
  <2> QED BY <1>3, <2>1, <2>2 DEF SentIsTrue
<1>4. CASE ReplyIsTrue(m)
  <2>1. ASSUME m.success, m.src \notin misled'
        PROVE  HoldsTo(m.src, m.idx)'
    <3>1. /\ m.src \in Follower /\ m.src \in Node /\ m.idx \in Nat /\ m.src \notin misled
          /\ HoldsTo(m.src, m.idx)
      BY <1>4, <2>1, Constants DEF ReplyIsTrue, StepOf
    <3>2. CASE m.src = n
      BY <2>1, <3>1, <3>2 DEF StepOf, StaysTrue
    <3>3. CASE m.src # n
      BY <3>1, <3>3, KeptSound DEF StepOf
    <3> QED BY <3>2, <3>3
  <2> QED BY <1>4, <2>1 DEF ReplyIsTrue, IsTrue
<1> QED BY <1>3, <1>4 DEF IsTrue

\* What is left to be shown of a step.
LEMMA Preserved ==
  ASSUME SnapshotInv, TypeOK', NEW n, StepOf(n)
  PROVE  SnapshotInv'
<1> USE DEF SnapshotInv
<1>1. /\ Len(log[Leader]) \in Nat /\ Len(log'[Leader]) \in Nat /\ Prior \in Nat
      /\ commitIdx[Leader] \in Nat /\ commitIdx'[Leader] \in Nat
      /\ Len(log[Leader]) <= Len(log'[Leader]) /\ commitIdx[Leader] <= commitIdx'[Leader]
  BY Constants, LenProperties DEF TypeOK, StepOf, LeaderGrows
<1>2. ASSUME NEW x \in Node
      PROVE  Kept(x)' /\ (x \notin misled' => Sound(x)' /\ Behind(x)')
  <2>1. CASE x = n
    BY <2>1 DEF StepOf
  <2>2. CASE x # n
    <3>1. KeptNode(x) /\ (x \notin misled' => x \notin misled)
      BY <2>2 DEF StepOf
    <3>2. Len(log[x]) \in Nat /\ commitIdx[x] \in Nat
      BY LenProperties DEF TypeOK
    <3>3. Behind(x) => Behind(x)'
      BY <1>1, <3>1, <3>2 DEF Behind, KeptNode
    <3> QED BY <3>1, <3>3, KeptSound
  <2> QED BY <2>1, <2>2
<1>3. ASSUME NEW f \in Follower
      PROVE  Acknowledged(f)'
  <2>1. /\ f \in Node /\ nextIdx[f] \in Nat /\ nextIdx'[f] \in Nat
        /\ matchIdx[f] \in Nat /\ matchIdx'[f] \in Nat
    BY Constants DEF TypeOK
  <2>2. Acknowledged(f) /\ Progresses(f)
    BY DEF StepOf
  <2>3. nextIdx'[f] <= Len(log'[Leader]) + 1
    BY <1>1, <2>1, <2>2 DEF Acknowledged, Progresses
  <2>4. ASSUME f \notin misled'
        PROVE  HoldsTo(f, matchIdx[f])'
    <3>1. f \notin misled
      BY <2>4 DEF StepOf
    <3>2. HoldsTo(f, matchIdx'[f])
      BY <2>2, <3>1 DEF Acknowledged, Progresses
    <3>3. PICK i \in Nat : i = matchIdx'[f]
      BY <2>1
    <3>4. HoldsTo(f, i)'
      <4>1. CASE f = n
        BY <2>4, <3>2, <3>3, <4>1 DEF StepOf, StaysTrue
      <4>2. CASE f # n
        BY <2>1, <3>2, <3>3, <4>2, KeptSound DEF StepOf
      <4> QED BY <4>1, <4>2
    <3> QED BY <3>3, <3>4 DEF HoldsTo
  <2> QED BY <2>3, <2>4 DEF Acknowledged
<1>4. \A m \in msgs' : IsTrue(m)'
  BY KeptTrue DEF StepOf
<1> QED BY <1>1, <1>2, <1>3, <1>4

----------------------------------------------------------------------------
\* raft_send_appendentries.
LeaderReady(lg, com) ==
  /\ Held(Leader) = MarkAt(base[Leader])
  /\ taking[Leader] # "no" =>
       /\ snap[Leader] = MarkAt(snap[Leader].idx)
       /\ base[Leader] < snap[Leader].idx /\ snap[Leader].idx <= lastApplied[Leader]
  /\ lg \in Seq(Entry \cup {Gone, Stray})
  /\ base[Leader] <= lastApplied[Leader] /\ lastApplied[Leader] <= com /\ com <= Len(lg)
  /\ \A k \in base[Leader] + 1 .. Len(lg) : lg[k] = EntryAt(k)
  /\ com \in Nat

LEMMA SnapshotSent ==
  ASSUME TypeOK, Sound(Leader), NEW n, n = Leader, NEW f \in Follower, NEW k \in Nat \ {0},
         k <= lastApplied[n], NEW com \in Nat, k <= com,
         NEW m, m = [type |-> "Snapshot", mark |-> MarkAt(k), fsm |-> Prefix(fsm[n], k), dst |-> f]
  PROVE  m.type = "Snapshot" /\ SnapshotIsTrue(m, com)
<1>1. lastApplied[Leader] \in Nat /\ MarkAt(k).idx = k
  BY Constants, NodeTypes, Marks
<1>2. Prefix(fsm[n], k) = [x \in 1 .. k |-> x]
  <2>1. fsm[n] = [x \in 1 .. lastApplied[n] |-> x]
    BY DEF Sound, Applied
  <2>2. fsm[n] \in Seq(Nat) /\ Len(fsm[n]) = lastApplied[n]
    BY <1>1, <2>1, Constants, NodeTypes
  <2> QED BY <1>1, <2>1, <2>2 DEF Prefix
<1> QED BY <1>1, <1>2 DEF SnapshotIsTrue

LEMMA SentByLeader ==
  ASSUME TypeOK, Sound(Leader), NEW f \in Follower,
         NEW lg, NEW com, LeaderReady(lg, com),
         NEW next \in Nat \ {0}, next <= Len(lg) + 1, NEW cut \in Nat,
         NEW m \in AppendEntriesTo(f, lg, next, com, cut)
  PROVE  SentIsTrue(m, Len(lg), com)
<1> DEFINE b == base[Leader]
           s == snap[Leader].idx
           n == Len(lg)
<1>1. /\ b \in Nat /\ n \in Nat /\ s \in Nat /\ lastApplied[Leader] \in Nat
      /\ com \in Nat /\ com <= n /\ b <= n /\ b <= com /\ next <= n + 1
      /\ \A k \in b + 1 .. n : lg[k] = EntryAt(k)
      /\ lg \in Seq(Entry \cup {Gone, Stray})
      /\ b <= lastApplied[Leader] /\ Held(Leader) = MarkAt(b)
      /\ snap[Leader] = MarkAt(s) /\ s <= n
      /\ s = b \/ b < s
  <2>1. b \in Nat /\ s \in Nat /\ lastApplied[Leader] \in Nat /\ com \in Nat
    BY Constants, NodeTypes DEF LeaderReady
  <2>2. n \in Nat
    BY LenProperties DEF LeaderReady
  <2>3. com <= n /\ b <= lastApplied[Leader] /\ lastApplied[Leader] <= com /\ b <= n /\ b <= com
    BY <2>1, <2>2 DEF LeaderReady
  <2>4. snap[Leader] = MarkAt(s) /\ s <= n /\ (s = b \/ b < s)
    <3>1. CASE taking[Leader] = "no"
      <4>1. snap[Leader] = MarkAt(b)
        BY <3>1 DEF LeaderReady, Held
      <4>2. s = b
        BY <2>1, <4>1, Marks
      <4> HIDE DEF s, b
      <4> QED BY <2>3, <4>1, <4>2
    <3>2. CASE taking[Leader] # "no"
      BY <2>1, <2>2, <2>3, <3>2 DEF LeaderReady
    <3> QED BY <3>1, <3>2
  <2> QED BY <2>1, <2>2, <2>3, <2>4 DEF LeaderReady
<1>2. MarkAt(b).idx = b /\ MarkAt(s).idx = s /\ MarkAt(0).idx = 0
  BY <1>1, Marks
<1>3. MarkAt(b) \in Mark /\ MarkAt(s) \in Mark /\ NoMark = MarkAt(0) /\ NoMark \in Mark
  BY <1>1, Marks
<1>4. snap[Leader].idx = s
  OBVIOUS
<1> HIDE DEF b, n, s
<1>5. CASE NeedsSnapshot(next)
  <2>1. m \in SnapshotTo(f)
    BY <1>5 DEF AppendEntriesTo
  <2>2. /\ b > 0
        /\ m = [type |-> "Snapshot", mark |-> MarkAt(b), fsm |-> Prefix(fsm[Leader], b), dst |-> f]
    BY <1>1, <1>2, <2>1 DEF SnapshotTo
  <2>3. m.type = "Snapshot" /\ SnapshotIsTrue(m, com)
    BY <1>1, <2>2, SnapshotSent
  <2> QED BY <2>3 DEF SentIsTrue
<1>6. CASE ~NeedsSnapshot(next)
  <2> DEFINE found == next - 1 \in b + 1 .. n
             mark == IF next = 1 THEN NoMark
                     ELSE IF found THEN [idx |-> next - 1, term |-> lg[next - 1].term]
                     ELSE MarkAt(s)
             last == IF b = 0 THEN n ELSE Smaller(n, next + cut)
             ents == IF next <= b THEN <<>> ELSE SubSeq(lg, next, last)
  <2>1. m = [type |-> "AppendEntries", prev |-> mark, entries |-> ents, commit |-> com, dst |-> f]
    BY <1>1, <1>6 DEF AppendEntriesTo, b, n
  <2>2. s = 0 \/ next >= s
    BY <1>1, <1>4, <1>6 DEF NeedsSnapshot
  \* The message names the entry before its first, or has no entries, or is misplaced.
  <2>3. PICK p \in Nat : /\ mark = MarkAt(p) /\ p <= n
                         /\ p = next - 1 \/ next <= b \/ (p = next /\ b < next)
    <3>1. CASE next = 1
      <4>1. mark = MarkAt(0)
        BY <1>3, <3>1
      <4>2. 0 \in Nat /\ 0 <= n /\ 0 = next - 1
        BY <1>1, <3>1
      <4> HIDE DEF mark
      <4> QED BY <4>1, <4>2
    <3>2. CASE next # 1 /\ found
      <4>1. lg[next - 1] = EntryAt(next - 1) /\ next - 1 \in Nat \ {0} /\ next - 1 <= n
        BY <1>1, <3>2
      <4>2. mark = MarkAt(next - 1)
        BY <3>2, <4>1, Entries
      <4> HIDE DEF mark
      <4> QED BY <4>1, <4>2
    <3>3. CASE next # 1 /\ ~found
      <4>1. next - 1 <= b
        BY <1>1, <3>3
      <4>2. mark = MarkAt(s)
        BY <3>3
      <4>3. s = next - 1 \/ next <= b \/ (s = next /\ b < next)
        BY <1>1, <2>2, <3>3, <4>1
      <4> HIDE DEF mark
      <4> QED BY <1>1, <4>2, <4>3
    <3> QED BY <3>1, <3>2, <3>3
  <2> HIDE DEF mark
  <2>4. mark \in Mark /\ mark.idx = p
    BY <2>3, Marks
  <2>5. CASE next <= b
    <3>1. ents = <<>> /\ Len(ents) = 0 /\ ents \in Seq(Entry)
      BY <2>5
    <3> HIDE DEF ents
    <3>2. m.type = "AppendEntries" /\ EntriesAreSent(m)
      BY <1>1, <2>1, <2>3, <2>4, <3>1 DEF EntriesAreSent
    <3>3. EntriesAreTrue(m, n, com)
      BY <1>1, <2>1, <2>3, <2>4, <3>1 DEF EntriesAreTrue
    <3> QED BY <3>2, <3>3 DEF SentIsTrue, n
  <2>6. CASE b < next
    <3> DEFINE q == next - 1
    <3>1. last \in Nat /\ last <= n /\ next <= last + 1
      BY <1>1 DEF Smaller, n
    <3> HIDE DEF last
    <3>2. ents = SubSeq(lg, next, last)
      <4>1. ~(next <= b)
        BY <1>1, <2>6
      <4> QED BY <4>1
    <3> HIDE DEF ents
    <3>3. Len(ents) = last - q
      BY <1>1, <3>1, <3>2, SubSeqProperties DEF n
    <3>4. ASSUME NEW j \in 1 .. Len(ents)
          PROVE  ents[j] = EntryAt(q + j) /\ ents[j] \in Entry
      <4>1. j \in Nat /\ 1 <= j /\ j <= last - q
        BY <3>1, <3>3
      <4>2. next + j - 1 = q + j /\ q + j \in b + 1 .. n /\ j <= (last - next) + 1
        BY <1>1, <2>6, <3>1, <4>1
      <4>3. ents[j] = lg[q + j]
        BY <1>1, <3>1, <3>2, <3>3, <4>1, <4>2, SubSeqProperties DEF n
      <4>4. q + j \in Nat \ {0}
        BY <1>1, <4>2
      <4> QED BY <1>1, <4>2, <4>3, <4>4, Entries
    <3>5. ents \in Seq(Entry)
      <4>1. ents \in Seq(Entry \cup {Gone, Stray})
        BY <1>1, <3>1, <3>2, SubSeqProperties DEF n
      <4> QED BY <3>4, <4>1
    <3>6. m.type = "AppendEntries" /\ EntriesAreSent(m)
      BY <1>1, <2>1, <2>3, <2>4, <3>5 DEF EntriesAreSent
    <3>7. CASE p = q
      <4>1. p + Len(ents) <= n
        BY <3>1, <3>3, <3>7
      <4> HIDE DEF q
      <4>3. m.prev.idx = q /\ m.prev = MarkAt(q) /\ m.entries = ents /\ m.commit = com
        BY <2>1, <2>3, <2>4, <3>7
      <4>4. \A j \in 1 .. Len(m.entries) : m.entries[j] = EntryAt(m.prev.idx + j)
        BY <3>4, <4>3
      <4>2. EntriesAreTrue(m, n, com)
        BY <1>1, <3>7, <4>1, <4>3, <4>4 DEF EntriesAreTrue
      <4> QED BY <3>6, <4>2 DEF SentIsTrue, n
    <3>8. CASE p = next
      <4>1. CASE Len(ents) = 0
        <5>0. p + Len(ents) <= n /\ \A j \in 1 .. Len(ents) : FALSE
          BY <2>3, <4>1
        <5>2. m.prev.idx = p /\ m.prev = MarkAt(p) /\ m.entries = ents /\ m.commit = com
          BY <2>1, <2>3, <2>4
        <5>1. EntriesAreTrue(m, n, com)
          <6>1. \A j \in 1 .. Len(m.entries) : m.entries[j] = EntryAt(m.prev.idx + j)
            BY <5>0, <5>2
          <6> QED BY <1>1, <5>0, <5>2, <6>1 DEF EntriesAreTrue
        <5> QED BY <3>6, <5>1 DEF SentIsTrue, n
      <4>2. CASE Len(ents) # 0
        <5>1. 1 \in 1 .. Len(ents) /\ q + 1 = next /\ ents # <<>>
          BY <3>1, <3>3, <4>2
        <5>2. ents[1] = EntryAt(next)
          BY <3>4, <5>1
        <5>3. ents[1].id = next
          BY <5>2, Entries
        <5>4. Misplaced(m)
          BY <2>1, <2>4, <3>8, <5>1, <5>3 DEF Misplaced
        <5> QED BY <3>6, <5>4 DEF SentIsTrue
      <4> QED BY <4>1, <4>2
    <3> QED BY <1>1, <2>3, <2>6, <3>7, <3>8
  <2> QED BY <1>1, <2>5, <2>6
<1> QED BY <1>5, <1>6

\* A committed entry of a node is the leader's.
LEMMA CommittedEntries ==
  ASSUME TypeOK, NEW n \in Node, LogFollows(n), CountersFollow(n)
  PROVE  \A k \in base[n] + 1 .. commitIdx[n] :
           k \in Nat \ {0} /\ k \in 1 .. Len(log[n]) /\ log[n][k] = EntryAt(k)
<1>1. /\ base[n] \in Nat /\ commitIdx[n] \in Nat /\ Len(log[n]) \in Nat
      /\ commitIdx[n] <= Len(log[n])
  BY NodeTypes DEF CountersFollow
<1>2. ASSUME NEW k \in base[n] + 1 .. commitIdx[n]
      PROVE  k \in Nat \ {0} /\ k \in 1 .. Len(log[n]) /\ log[n][k] = EntryAt(k)
  <2>1. k \in base[n] + 1 .. Len(log[n]) /\ k \in Nat \ {0} /\ k \in 1 .. Len(log[n]) /\ ~(commitIdx[n] < k)
    BY <1>1
  <2> QED BY <2>1 DEF LogFollows, StrayAt
<1> QED BY <1>2

\* raft_apply_all applies up to the commit index, or nothing while a blocking snapshot is taken.
LEMMA AppliesAll ==
  ASSUME TypeOK, NEW n \in Node, Sound(n), ApplyAll(n)
  PROVE  /\ lastApplied'[n] \in {lastApplied[n], commitIdx[n]}
         /\ taking[n] = "no" => lastApplied'[n] = commitIdx[n]
         /\ fsm'[n] = [k \in 1 .. lastApplied'[n] |-> k]
<1> DEFINE a == lastApplied[n]
           c == commitIdx[n]
           ids == [k \in 1 .. c - a |-> log[n][a + k].id]
<1>2. a \in Nat /\ c \in Nat /\ a <= c /\ base[n] \in Nat /\ base[n] <= a
  BY NodeTypes DEF Sound, CountersFollow
<1>3. fsm[n] = [k \in 1 .. a |-> k]
  BY DEF Sound, Applied
<1>4. CASE taking[n] = "blocking"
  BY <1>3, <1>4 DEF ApplyAll, applied
<1>5. CASE taking[n] # "blocking"
  <2>1. /\ lastApplied' = [lastApplied EXCEPT ![n] = c]
        /\ fsm' = [fsm EXCEPT ![n] = @ \o ids]
    BY <1>5 DEF ApplyAll
  <2> HIDE DEF a, c
  <2>2. ids = [k \in 1 .. c - a |-> a + k]
    <3>1. ASSUME NEW k \in 1 .. c - a
          PROVE  log[n][a + k].id = a + k
      <4>1. a + k \in base[n] + 1 .. c
        BY <1>2
      <4>2. log[n][a + k] = EntryAt(a + k) /\ a + k \in Nat \ {0}
        BY <4>1, CommittedEntries DEF Sound, c
      <4> QED BY <4>2, Entries
    <3> QED BY <3>1
  <2> HIDE DEF ids
  <2>3. /\ fsm[n] \in Seq(Nat) /\ Len(fsm[n]) = a
        /\ ids \in Seq(Nat) /\ Len(ids) = c - a
    BY <1>2, <1>3, <2>2
  <2>4. fsm[n] \o ids = [k \in 1 .. c |-> k]
    <3> DEFINE z == fsm[n] \o ids
               w == [k \in 1 .. c |-> k]
    <3>1. PICK s : s = fsm[n]
      OBVIOUS
    <3>2. /\ s \o ids \in Seq(Nat) /\ Len(s \o ids) = Len(s) + Len(ids)
          /\ \A k \in 1 .. Len(s) + Len(ids) :
               (s \o ids)[k] = IF k <= Len(s) THEN s[k] ELSE ids[k - Len(s)]
      BY <2>3, <3>1, ConcatProperties
    <3>3. /\ z \in Seq(Nat) /\ Len(z) = a + (c - a)
          /\ \A k \in 1 .. a + (c - a) : z[k] = IF k <= a THEN fsm[n][k] ELSE ids[k - a]
      BY <2>3, <3>1, <3>2
    <3>4. w \in Seq(Nat) /\ Len(w) = c
      BY <1>2
    <3> HIDE DEF z
    <3>5. ASSUME NEW k \in 1 .. c
          PROVE  z[k] = k
      BY <1>2, <1>3, <2>2, <3>3
    <3>6. Len(z) = c
      BY <1>2, <3>3
    <3>7. \A k \in 1 .. Len(z) : z[k] = w[k]
      BY <3>5, <3>6
    <3>8. z = w
      <4> HIDE DEF w
      <4> QED BY <3>3, <3>4, <3>6, <3>7, SeqEqual
    <3> QED BY <3>8 DEF z
  <2>5. lastApplied'[n] = c /\ fsm'[n] = [k \in 1 .. c |-> k]
    BY <2>1, <2>4 DEF TypeOK
  <2> QED BY <2>5 DEF c
<1> QED BY <1>4, <1>5

\* What it leaves of the types, at a misled node too.
LEMMA AppliesTypes ==
  ASSUME TypeOK, NEW n \in Node, Kept(n), ApplyAll(n)
  PROVE  /\ fsm' \in [Node -> Seq(Nat)] /\ lastApplied' \in [Node -> Nat]
         /\ lastApplied[n] <= lastApplied'[n] /\ lastApplied'[n] <= commitIdx[n]
         /\ \A x \in Node \ {n} : fsm'[x] = fsm[x] /\ lastApplied'[x] = lastApplied[x]
<1> DEFINE a == lastApplied[n]
           c == commitIdx[n]
           ids == [k \in 1 .. c - a |-> log[n][a + k].id]
<1>1. a \in Nat /\ c \in Nat /\ a <= c /\ c <= Len(log[n]) /\ Len(log[n]) \in Nat
      /\ log[n] \in Seq(Entry \cup {Gone, Stray})
  BY NodeTypes DEF Kept
<1>2. CASE taking[n] = "blocking"
  BY <1>1, <1>2 DEF ApplyAll, applied, TypeOK
<1>3. CASE taking[n] # "blocking"
  <2>1. /\ lastApplied' = [lastApplied EXCEPT ![n] = c]
        /\ fsm' = [fsm EXCEPT ![n] = @ \o ids]
    BY <1>3 DEF ApplyAll
  <2> HIDE DEF a, c
  <2>2. ids \in Seq(Nat)
    <3>1. ASSUME NEW k \in 1 .. c - a
          PROVE  log[n][a + k].id \in Nat
      <4>1. a + k \in 1 .. Len(log[n])
        BY <1>1
      <4>2. log[n][a + k] \in Entry \cup {Gone, Stray}
        BY <1>1, <4>1
      <4> QED BY <4>2 DEF Entry, Gone, Stray
    <3>2. c - a \in Nat
      BY <1>1
    <3> QED BY <3>1, <3>2
  <2> HIDE DEF ids
  <2>3. fsm[n] \o ids \in Seq(Nat)
    BY <2>2, NodeTypes, ConcatProperties
  <2>4. fsm' \in [Node -> Seq(Nat)] /\ \A x \in Node \ {n} : fsm'[x] = fsm[x]
    BY <2>1, <2>3 DEF TypeOK
  <2>5. /\ lastApplied' \in [Node -> Nat] /\ lastApplied'[n] = c
        /\ \A x \in Node \ {n} : lastApplied'[x] = lastApplied[x]
    BY <1>1, <2>1 DEF TypeOK
  <2> QED BY <1>1, <2>4, <2>5 DEF a, c
<1> QED BY <1>2, <1>3

----------------------------------------------------------------------------
\* raft_recv_entry, raft_periodic.
LEMMA LeaderFacts ==
  ASSUME SnapshotInv
  PROVE  LeaderReady(log[Leader], commitIdx[Leader])
<1>1. /\ Leader \in Node /\ Sound(Leader)
      /\ log[Leader] \in Seq(Entry \cup {Gone, Stray}) /\ commitIdx[Leader] \in Nat
  BY Constants, NodeTypes, LeaderIsNotMisled DEF SnapshotInv
<1>2. \A k \in base[Leader] + 1 .. Len(log[Leader]) : log[Leader][k] = EntryAt(k)
  BY <1>1 DEF Sound, LogFollows, StrayAt
<1> QED BY <1>1, <1>2 DEF LeaderReady, Sound, CountersFollow, MarksFollow

\* Nothing but the progress of the followers and the network.
LEMMA NothingMoves ==
  ASSUME SnapshotInv, UNCHANGED <<log, snapshots, commitIdx, applied>>
  PROVE  /\ LeaderGrows
         /\ \A x \in Node : KeptNode(x) /\ Kept(x)' /\ StaysTrue(x)
         /\ \A x \in Node \ misled : Sound(x)' /\ Behind(x)'
<1>1. \A x \in Node : KeptNode(x)
  BY DEF KeptNode, snapshots, applied
<1>2. LeaderGrows /\ \A x \in Node \ misled : Behind(x)'
  BY Constants, NodeTypes DEF LeaderGrows, SnapshotInv, Behind
<1>3. ASSUME NEW x \in Node
      PROVE  StaysTrue(x)
  BY <1>1, KeptSound DEF StaysTrue
<1> QED BY <1>1, <1>2, <1>3, KeptSound DEF SnapshotInv

LEMMA RecvEntryKeeps ==
  ASSUME SnapshotInv, NEW cut \in 0 .. MaxLog, RecvEntry(cut)
  PROVE  SnapshotInv'
<1> DEFINE old == log[Leader]
           new == [term |-> Term, id |-> Len(old) + 1]
           lg == Append(old, new)
           com == commitIdx[Leader]
<1>1. /\ log' = [log EXCEPT ![Leader] = lg]
      /\ msgs' = Send(UNION {AppendEntriesTo(f, lg, nextIdx[f], com, cut) :
                               f \in {g \in Follower : nextIdx[g] = Len(lg)}})
      /\ UNCHANGED <<term, savedTerm, base, snap, saved, taking, commitIdx, lastApplied, fsm,
                     nextIdx, matchIdx, misled>>
  BY BoundsAssumption DEF RecvEntry, terms, snapshots, applied, progress
<1>2. /\ Leader \in Node /\ Leader \notin misled /\ Sound(Leader) /\ Behind(Leader) /\ Kept(Leader)
      /\ old \in Seq(Entry \cup {Gone, Stray})
      /\ Len(old) \in Nat /\ Prior <= Len(old) /\ Prior \in Nat /\ com \in Nat /\ TypeOK
      /\ LeaderReady(old, com) /\ base[Leader] \in Nat /\ lastApplied[Leader] \in Nat
  BY Constants, NodeTypes, LeaderFacts, LeaderIsNotMisled DEF SnapshotInv
<1>3. new = EntryAt(Len(old) + 1) /\ Len(old) + 1 \in Nat \ {0}
  BY <1>2 DEF EntryAt
<1>4. new \in Entry
  BY <1>3, Entries
<1> HIDE DEF new
<1>5. /\ lg \in Seq(Entry \cup {Gone, Stray}) /\ Len(lg) = Len(old) + 1
      /\ \A k \in 1 .. Len(old) : lg[k] = old[k]
      /\ lg[Len(old) + 1] = new
  BY <1>2, <1>4, AppendProperties
<1> HIDE DEF lg
<1>6. /\ log'[Leader] = lg
      /\ \A x \in Node \ {Leader} : KeptNode(x)
  BY <1>1, <1>2 DEF TypeOK, KeptNode
<1>7. LeaderReady(lg, com)
  <2>1. ASSUME NEW k \in base[Leader] + 1 .. Len(lg)
        PROVE  lg[k] = EntryAt(k)
    <3>1. CASE k = Len(old) + 1
      BY <1>3, <1>5, <3>1
    <3>2. CASE k \in base[Leader] + 1 .. Len(old)
      <4>1. k \in 1 .. Len(old) /\ old[k] = EntryAt(k)
        BY <1>2, <3>2 DEF LeaderReady
      <4> QED BY <1>5, <4>1
    <3> QED BY <1>2, <1>5, <3>1, <3>2
  <2>2. com <= Len(lg)
    BY <1>2, <1>5 DEF LeaderReady
  <2> QED BY <1>2, <1>5, <2>1, <2>2 DEF LeaderReady
<1>8. TypeOK'
  BY <1>1, <1>2, <1>5 DEF TypeOK
<1>9. Sound(Leader)' /\ Kept(Leader)' /\ Behind(Leader)' /\ LeaderGrows /\ StaysTrue(Leader)
  <2>1. LogFollows(Leader)'
    BY <1>1, <1>6, <1>7 DEF LogFollows, LeaderReady
  <2>2. CountersFollow(Leader)' /\ Kept(Leader)'
    <3>1. commitIdx[Leader] <= Len(lg)
      BY <1>2, <1>5 DEF LeaderReady
    <3> QED BY <1>1, <1>2, <1>6, <3>1 DEF CountersFollow, Sound, Kept
  <2>3. MarksFollow(Leader)' /\ Applied(Leader)'
    BY <1>1, <1>2 DEF MarksFollow, Applied, Sound, Held
  <2>4. Behind(Leader)' /\ LeaderGrows
    BY <1>1, <1>2, <1>5, <1>6 DEF Behind, LeaderGrows
  <2>5. StaysTrue(Leader)
    <3>1. ASSUME NEW i \in Nat, HoldsTo(Leader, i)
          PROVE  i <= Len(lg) /\ \A k \in base[Leader] + 1 .. i : lg[k] = EntryAt(k)
      BY <1>2, <1>5, <1>7, <3>1 DEF HoldsTo, LeaderReady
    <3> QED BY <1>1, <1>6, <3>1 DEF StaysTrue, HoldsTo
  <2> QED BY <2>1, <2>2, <2>3, <2>4, <2>5 DEF Sound
<1>10. \A m \in msgs' : m \in msgs \/ IsTrue(m)'
  <2>1. ASSUME NEW m \in msgs', m \notin msgs
        PROVE  IsTrue(m)'
    <3>1. PICK f \in Follower : m \in AppendEntriesTo(f, lg, nextIdx[f], com, cut) /\ nextIdx[f] = Len(lg)
      BY <1>1, <2>1, Sending
    <3>2. nextIdx[f] \in Nat \ {0} /\ nextIdx[f] <= Len(lg) + 1 /\ cut \in Nat
      BY <1>2, <3>1, Constants DEF TypeOK
    <3>3. SentIsTrue(m, Len(lg), com)
      BY <1>2, <1>7, <3>1, <3>2, SentByLeader
    <3> QED BY <1>1, <1>6, <3>3 DEF IsTrue
  <2> QED BY <2>1
<1>11. StepOf(Leader)
  BY <1>1, <1>2, <1>6, <1>9, <1>10, Constants DEF StepOf, Progresses
<1> QED BY <1>8, <1>11, Preserved

LEMMA LeaderPeriodicKeeps ==
  ASSUME SnapshotInv, NEW cut \in 0 .. MaxLog, LeaderPeriodic(cut)
  PROVE  SnapshotInv'
<1>1. /\ ApplyAll(Leader)
      /\ UNCHANGED <<term, savedTerm, log, base, snap, saved, taking, commitIdx, nextIdx, matchIdx,
                     misled>>
  BY DEF LeaderPeriodic, terms, snapshots, progress
<1>2. /\ Leader \in Node /\ Leader \notin misled /\ Sound(Leader) /\ Behind(Leader) /\ Kept(Leader)
      /\ TypeOK /\ Len(log[Leader]) \in Nat /\ commitIdx[Leader] \in Nat
      /\ lastApplied[Leader] \in Nat
      /\ LeaderReady(log[Leader], commitIdx[Leader])
  BY Constants, NodeTypes, LeaderFacts, LeaderIsNotMisled DEF SnapshotInv
<1>3. /\ fsm'[Leader] = [k \in 1 .. lastApplied'[Leader] |-> k]
      /\ lastApplied[Leader] <= lastApplied'[Leader] /\ lastApplied'[Leader] <= commitIdx[Leader]
      /\ fsm' \in [Node -> Seq(Nat)] /\ lastApplied' \in [Node -> Nat]
      /\ lastApplied'[Leader] \in Nat
      /\ \A x \in Node \ {Leader} : fsm'[x] = fsm[x] /\ lastApplied'[x] = lastApplied[x]
  BY <1>1, <1>2, AppliesAll, AppliesTypes
<1>4. \A m \in msgs' : m \in msgs \/ IsTrue(m)'
  <2>1. ASSUME NEW m \in msgs', m \notin msgs
        PROVE  IsTrue(m)'
    <3>1. PICK reached \in SUBSET Follower :
            msgs' = Send(UNION {AppendEntriesTo(f, log[Leader], nextIdx[f], commitIdx[Leader], cut) : f \in reached})
      BY <2>1 DEF LeaderPeriodic
    <3>2. PICK f \in Follower : m \in AppendEntriesTo(f, log[Leader], nextIdx[f], commitIdx[Leader], cut)
      BY <2>1, <3>1, Sending
    <3>3. nextIdx[f] \in Nat \ {0} /\ nextIdx[f] <= Len(log[Leader]) + 1 /\ cut \in Nat
      BY Constants DEF SnapshotInv, TypeOK, Acknowledged
    <3>4. SentIsTrue(m, Len(log[Leader]), commitIdx[Leader])
      BY <1>2, <3>2, <3>3, SentByLeader
    <3> QED BY <1>1, <3>4 DEF IsTrue
  <2> QED BY <2>1
<1>5. StepOf(Leader)
  <2>1. Sound(Leader)' /\ Kept(Leader)'
    BY <1>1, <1>2, <1>3, NodeTypes
       DEF Sound, LogFollows, StrayAt, CountersFollow, MarksFollow, Applied, Held, Kept
  <2>2. /\ LeaderGrows /\ Behind(Leader)' /\ StaysTrue(Leader)
        /\ \A x \in Node \ {Leader} : KeptNode(x)
    BY <1>1, <1>2, <1>3 DEF LeaderGrows, Behind, KeptNode, StaysTrue, HoldsTo
  <2> QED BY <1>1, <1>2, <1>4, <2>1, <2>2, Constants DEF StepOf, Progresses
<1>6. TypeOK'
  BY <1>1, <1>2, <1>3 DEF TypeOK
<1> QED BY <1>5, <1>6, Preserved

LEMMA FollowerPeriodicKeeps ==
  ASSUME SnapshotInv, NEW f \in Follower, FollowerPeriodic(f)
  PROVE  SnapshotInv'
<1>1. /\ ApplyAll(f)
      /\ UNCHANGED <<term, savedTerm, log, base, snap, saved, taking, commitIdx, nextIdx, matchIdx,
                     msgs, misled>>
  BY DEF FollowerPeriodic, terms, snapshots, progress
<1>2. /\ f \in Node /\ Leader \in Node /\ Kept(f) /\ TypeOK
      /\ Len(log[Leader]) \in Nat /\ commitIdx[Leader] \in Nat /\ Len(log[f]) \in Nat
      /\ lastApplied[f] \in Nat /\ commitIdx[f] \in Nat
  BY Constants, NodeTypes DEF SnapshotInv
<1>3. /\ lastApplied[f] <= lastApplied'[f] /\ lastApplied'[f] <= commitIdx[f]
      /\ fsm' \in [Node -> Seq(Nat)] /\ lastApplied' \in [Node -> Nat]
      /\ lastApplied'[f] \in Nat
      /\ \A x \in Node \ {f} : fsm'[x] = fsm[x] /\ lastApplied'[x] = lastApplied[x]
  BY <1>1, <1>2, AppliesTypes
<1>4. StepOf(f)
  <2>1. ASSUME f \notin misled'
        PROVE  Sound(f)' /\ Behind(f)'
    <3>1. f \notin misled
      BY <1>1, <2>1
    <3>2. Sound(f) /\ Behind(f)
      BY <1>2, <3>1 DEF SnapshotInv
    <3>3. fsm'[f] = [k \in 1 .. lastApplied'[f] |-> k]
      BY <1>1, <1>2, <3>2, AppliesAll
    <3> QED BY <1>1, <1>2, <1>3, <3>2, <3>3, NodeTypes
         DEF Sound, LogFollows, StrayAt, CountersFollow, MarksFollow, Applied, Held, Behind
  <2>2. /\ LeaderGrows /\ Kept(f)' /\ StaysTrue(f) /\ \A x \in Node \ {f} : KeptNode(x)
    BY <1>1, <1>2, <1>3 DEF LeaderGrows, Kept, KeptNode, StaysTrue, HoldsTo
  <2> QED BY <1>1, <1>2, <2>1, <2>2 DEF StepOf, Progresses
<1>5. TypeOK'
  BY <1>1, <1>2, <1>3 DEF TypeOK
<1> QED BY <1>4, <1>5, Preserved

----------------------------------------------------------------------------
\* raft_recv_appendentries_response: nothing moves but what the leader knows of the
\* follower, and its own commit index, which it counts up.
LEMMA ResponseKeeps ==
  ASSUME SnapshotInv, NEW m \in msgs, NEW cut \in 0 .. MaxLog,
         RecvAppendEntriesResponse(m, cut)
  PROVE  SnapshotInv'
<1> DEFINE n == Len(log[Leader])
           s == m.src
<1>1. /\ m.type = "AppendEntriesResponse"
      /\ UNCHANGED <<term, savedTerm, log, base, snap, saved, taking, lastApplied, fsm, misled>>
  BY DEF RecvAppendEntriesResponse, terms, snapshots, applied
<1>2. /\ Leader \in Node /\ Leader \notin misled /\ Sound(Leader) /\ Kept(Leader)
      /\ TypeOK /\ n \in Nat /\ commitIdx[Leader] \in Nat /\ lastApplied[Leader] \in Nat
      /\ LeaderReady(log[Leader], commitIdx[Leader]) /\ cut \in Nat
  BY <1>1, Constants, NodeTypes, LeaderFacts, LeaderIsNotMisled DEF SnapshotInv
<1>3. /\ s \in Follower /\ s \in Node /\ s # Leader /\ m.idx \in Nat
      /\ m.success /\ s \notin misled => HoldsTo(s, m.idx)
  BY <1>1, Constants DEF SnapshotInv, IsTrue, SentIsTrue, ReplyIsTrue
<1>4. nextIdx[s] \in Nat \ {0} /\ nextIdx[s] <= n + 1
  BY <1>2, <1>3 DEF TypeOK, SnapshotInv, Acknowledged
<1> DEFINE Moves(com, next) ==
             /\ com \in Nat /\ next \in Nat \ {0}
             /\ commitIdx' = [commitIdx EXCEPT ![Leader] = com] /\ commitIdx[Leader] <= com /\ com <= n
             /\ next <= n + 1 /\ nextIdx' = [nextIdx EXCEPT ![s] = next]
             /\ matchIdx' = matchIdx \/ (m.success /\ matchIdx' = [matchIdx EXCEPT ![s] = m.idx])
             /\ msgs' = msgs \/ msgs' = Send(AppendEntriesTo(s, log[Leader], next, com, cut))
<1>14. \E com, next : Moves(com, next)
  <2>1. commitIdx[Leader] <= n
    BY <1>2 DEF LeaderReady
  <2>2. CASE ~m.success
    <3> DEFINE x == NextAfterRefusal(m)
    <3>1. x \in Nat \ {0} /\ x <= n + 1
      BY <1>2, <1>3, <1>4 DEF NextAfterRefusal, Larger, Smaller
    <3>2. /\ nextIdx' = [nextIdx EXCEPT ![s] = x] /\ matchIdx' = matchIdx /\ commitIdx' = commitIdx
          /\ msgs' = Send(AppendEntriesTo(s, log[Leader], nextIdx'[s], commitIdx[Leader], cut))
      BY <2>2 DEF RecvAppendEntriesResponse
    <3> HIDE DEF x
    <3>3. /\ commitIdx' = [commitIdx EXCEPT ![Leader] = commitIdx[Leader]] /\ nextIdx'[s] = x
      BY <1>2, <1>3, <3>1, <3>2 DEF TypeOK
    <3>4. msgs' = Send(AppendEntriesTo(s, log[Leader], x, commitIdx[Leader], cut))
      BY <3>2, <3>3
    <3>5. Moves(commitIdx[Leader], x)
      <4>1. commitIdx[Leader] \in Nat /\ commitIdx[Leader] <= commitIdx[Leader]
        BY <1>2
      <4> QED BY <2>1, <3>1, <3>2, <3>3, <3>4, <4>1, Zenon
    <3> QED BY <3>5
  <2>3. CASE m.success
    <3>1. /\ m.idx <= n /\ nextIdx' = [nextIdx EXCEPT ![s] = m.idx + 1]
          /\ matchIdx' = [matchIdx EXCEPT ![s] = m.idx]
          /\ commitIdx' = [commitIdx EXCEPT ![Leader] =
                             IF CommitByCounting(m.idx, matchIdx') THEN m.idx ELSE @]
          /\ msgs' = IF Live(Leader, m.idx + 1)
                     THEN Send(AppendEntriesTo(s, log[Leader], m.idx + 1, commitIdx'[Leader], cut))
                     ELSE msgs
      BY <2>3 DEF RecvAppendEntriesResponse
    <3> DEFINE c == commitIdx'[Leader]
    <3>2. /\ commitIdx' = [commitIdx EXCEPT ![Leader] = c]
          /\ c = commitIdx[Leader] \/ (c = m.idx /\ commitIdx[Leader] < c)
      BY <1>2, <3>1 DEF TypeOK, CommitByCounting
    <3>3. c \in Nat /\ commitIdx[Leader] <= c /\ c <= n
      BY <1>2, <1>3, <2>1, <3>1, <3>2
    <3>4. m.idx + 1 \in Nat \ {0} /\ m.idx + 1 <= n + 1
      BY <1>2, <1>3, <3>1
    <3> HIDE DEF c
    <3>5. msgs' = msgs \/ msgs' = Send(AppendEntriesTo(s, log[Leader], m.idx + 1, c, cut))
      BY <3>1 DEF c
    <3>6. Moves(c, m.idx + 1)
      BY <2>3, <3>1, <3>2, <3>3, <3>4, <3>5
    <3> QED BY <3>6
  <2> QED BY <2>2, <2>3 DEF RecvAppendEntriesResponse
<1>5. PICK com, next : Moves(com, next)
  BY <1>14
<1>7. LeaderReady(log[Leader], com)
  BY <1>2, <1>5 DEF LeaderReady
<1>8. TypeOK'
  BY <1>1, <1>2, <1>3, <1>5 DEF TypeOK
<1>9. commitIdx'[Leader] = com /\ \A x \in Node \ {Leader} : KeptNode(x)
  BY <1>1, <1>2, <1>5 DEF KeptNode, TypeOK
<1>10. \A k \in msgs' : k \in msgs \/ IsTrue(k)'
  <2>1. ASSUME NEW k \in msgs', k \notin msgs
        PROVE  IsTrue(k)'
    <3>1. k \in AppendEntriesTo(s, log[Leader], next, com, cut)
      BY <1>5, <2>1, Sending
    <3>2. SentIsTrue(k, n, com)
      BY <1>2, <1>3, <1>5, <1>7, <3>1, SentByLeader
    <3> QED BY <1>1, <1>9, <3>2 DEF IsTrue
  <2> QED BY <2>1
<1>11. Sound(Leader)' /\ Kept(Leader)' /\ Behind(Leader)' /\ LeaderGrows /\ StaysTrue(Leader)
  <2>1. base[Leader] \in Nat /\ lastApplied[Leader] \in Nat
    BY <1>2, NodeTypes
  <2>2. LogFollows(Leader)'
    BY <1>1, <1>2 DEF Sound, LogFollows, StrayAt
  <2>3. CountersFollow(Leader)' /\ Kept(Leader)'
    BY <1>1, <1>2, <1>5, <1>9, <2>1 DEF Sound, CountersFollow, Kept
  <2>4. MarksFollow(Leader)' /\ Applied(Leader)'
    BY <1>1, <1>2 DEF Sound, MarksFollow, Held, Applied
  <2>5. StaysTrue(Leader)
    BY <1>1 DEF StaysTrue, HoldsTo
  <2> QED BY <1>1, <1>2, <1>5, <1>9, <2>2, <2>3, <2>4, <2>5 DEF Sound, Behind, LeaderGrows
<1>12. ASSUME NEW f \in Follower
       PROVE  Progresses(f)
  BY <1>1, <1>2, <1>3, <1>5 DEF Progresses, TypeOK
<1>13. StepOf(Leader)
  BY <1>1, <1>2, <1>9, <1>10, <1>11, <1>12, Constants DEF StepOf
<1> QED BY <1>8, <1>13, Preserved

----------------------------------------------------------------------------
\* raft_begin_snapshot, raft_cancel_snapshot, raft_end_snapshot.
LEMMA BeginSnapshotKeeps ==
  ASSUME SnapshotInv, NEW n \in Node, NEW how \in {"blocking", "nonblocking"},
         BeginSnapshot(n, how)
  PROVE  SnapshotInv'
<1> DEFINE c == commitIdx[n]
           mark == [idx |-> c, term |-> log[n][c].term]
<1>1. /\ taking[n] = "no" /\ ApplyAll(n) /\ Live(n, c)
      /\ saved' = [saved EXCEPT ![n] = snap[n]] /\ taking' = [taking EXCEPT ![n] = how]
      /\ snap' = [snap EXCEPT ![n] = mark]
      /\ UNCHANGED <<term, savedTerm, log, base, commitIdx, nextIdx, matchIdx, msgs, misled>>
  BY DEF BeginSnapshot, terms, progress
<1>2. /\ Leader \in Node /\ Kept(n) /\ TypeOK /\ c \in Nat /\ base[n] \in Nat
      /\ Len(log[n]) \in Nat /\ Len(log[Leader]) \in Nat /\ commitIdx[Leader] \in Nat
      /\ lastApplied[n] \in Nat /\ snap[n] \in Mark /\ log[n] \in Seq(Entry \cup {Gone, Stray})
  BY Constants, NodeTypes DEF SnapshotInv
<1>3. /\ lastApplied[n] <= lastApplied'[n] /\ lastApplied'[n] <= c /\ lastApplied'[n] \in Nat
      /\ fsm' \in [Node -> Seq(Nat)] /\ lastApplied' \in [Node -> Nat]
      /\ \A x \in Node \ {n} : fsm'[x] = fsm[x] /\ lastApplied'[x] = lastApplied[x]
  BY <1>1, <1>2, AppliesTypes
<1>4. mark \in Mark
  <2>1. c \in 1 .. Len(log[n])
    BY <1>1, <1>2 DEF Live
  <2> HIDE DEF c
  <2>2. log[n][c] \in Entry \cup {Gone, Stray}
    BY <1>2, <2>1
  <2>3. log[n][c].term \in Nat
    BY <2>2, Constants DEF Entry, Gone, Stray
  <2> QED BY <1>2, <2>3 DEF Mark
<1>5. c \in base[n] + 1 .. c
  BY <1>1, <1>2 DEF Live
<1> HIDE DEF c, mark
<1>6. snap'[n] = mark /\ saved'[n] = snap[n] /\ taking'[n] = how /\ taking'[n] # "no"
  BY <1>1, <1>2, <1>4 DEF TypeOK
<1>7. TypeOK'
  BY <1>1, <1>2, <1>3, <1>4 DEF TypeOK
<1>8. ASSUME n \notin misled'
      PROVE  Sound(n)' /\ Behind(n)'
  <2>1. Sound(n) /\ Behind(n)
    BY <1>1, <1>8 DEF SnapshotInv
  <2>2. lastApplied'[n] = c /\ fsm'[n] = [k \in 1 .. lastApplied'[n] |-> k]
    BY <1>1, <1>2, <2>1, AppliesAll DEF c
  <2>3. log[n][c] = EntryAt(c) /\ c \in Nat \ {0}
    BY <1>2, <1>5, <2>1, CommittedEntries DEF Sound, c
  <2>4. mark = MarkAt(c) /\ mark.idx = c
    BY <2>3, Entries DEF mark
  <2>5. saved'[n] = MarkAt(base[n])
    BY <1>1, <1>6, <2>1 DEF Sound, MarksFollow, Held
  <2>6. LogFollows(n)'
    BY <1>1, <2>1 DEF Sound, LogFollows, StrayAt
  <2>7. CountersFollow(n)' /\ Behind(n)'
    BY <1>1, <1>2, <1>3, <1>5, <2>1, <2>2 DEF Sound, CountersFollow, Behind, c
  <2>8. MarksFollow(n)' /\ Applied(n)'
    BY <1>1, <1>2, <1>5, <1>6, <2>2, <2>3, <2>4, <2>5 DEF MarksFollow, Held, Applied
  <2> QED BY <2>6, <2>7, <2>8 DEF Sound
<1>9. LeaderGrows /\ Kept(n)' /\ StaysTrue(n) /\ \A x \in Node \ {n} : KeptNode(x)
  BY <1>1, <1>2, <1>3 DEF LeaderGrows, Kept, StaysTrue, HoldsTo, KeptNode, TypeOK, c
<1>10. StepOf(n)
  BY <1>1, <1>8, <1>9 DEF StepOf, Progresses
<1> QED BY <1>7, <1>10, Preserved

LEMMA CancelSnapshotKeeps ==
  ASSUME SnapshotInv, NEW n \in Node, CancelSnapshot(n)
  PROVE  SnapshotInv'
<1>1. /\ taking[n] # "no" /\ taking' = [taking EXCEPT ![n] = "no"]
      /\ snap' = [snap EXCEPT ![n] = saved[n]]
      /\ UNCHANGED <<term, savedTerm, log, base, saved, commitIdx, lastApplied, fsm,
                     nextIdx, matchIdx, msgs, misled>>
  BY DEF CancelSnapshot, terms, applied, progress
<1>2. /\ Leader \in Node /\ Kept(n) /\ TypeOK /\ Len(log[n]) \in Nat
      /\ Len(log[Leader]) \in Nat /\ commitIdx[Leader] \in Nat /\ saved[n] \in Mark
  BY Constants, NodeTypes DEF SnapshotInv
<1>3. snap'[n] = saved[n] /\ taking'[n] = "no"
  BY <1>1, <1>2 DEF TypeOK
<1>4. TypeOK'
  BY <1>1, <1>2 DEF TypeOK
<1>5. n \notin misled' => Sound(n)' /\ Behind(n)'
  BY <1>1, <1>2, <1>3
     DEF SnapshotInv, Sound, LogFollows, StrayAt, CountersFollow, MarksFollow, Held, Applied, Behind
<1>6. LeaderGrows /\ Kept(n)' /\ StaysTrue(n) /\ \A x \in Node \ {n} : KeptNode(x)
  BY <1>1, <1>2 DEF LeaderGrows, Kept, StaysTrue, HoldsTo, KeptNode, TypeOK
<1>7. StepOf(n)
  BY <1>1, <1>5, <1>6 DEF StepOf, Progresses
<1> QED BY <1>4, <1>7, Preserved

LEMMA EndSnapshotKeeps ==
  ASSUME SnapshotInv, NEW n \in Node, EndSnapshot(n)
  PROVE  SnapshotInv'
<1> DEFINE c == commitIdx[n]
           lg == [k \in DOMAIN log[n] |-> IF k <= c THEN Gone ELSE log[n][k]]
<1>1. /\ taking[n] # "no" /\ taking' = [taking EXCEPT ![n] = "no"] /\ snap[n].idx = c
      /\ base' = [base EXCEPT ![n] = c] /\ log' = [log EXCEPT ![n] = lg]
      /\ UNCHANGED <<term, savedTerm, snap, saved, commitIdx, lastApplied, fsm, nextIdx, matchIdx,
                     misled>>
  BY DEF EndSnapshot, EndAssertions, terms, applied, progress
<1>2. /\ Leader \in Node /\ Kept(n) /\ TypeOK /\ c \in Nat /\ base[n] \in Nat
      /\ log[n] \in Seq(Entry \cup {Gone, Stray}) /\ Len(log[n]) \in Nat
      /\ Len(log[Leader]) \in Nat /\ commitIdx[Leader] \in Nat /\ lastApplied[n] \in Nat
  BY Constants, NodeTypes DEF SnapshotInv
<1>3. c <= Len(log[n])
  BY <1>2 DEF Kept
<1>4. /\ lg \in Seq(Entry \cup {Gone, Stray}) /\ Len(lg) = Len(log[n])
      /\ \A k \in c + 1 .. Len(lg) : lg[k] = log[n][k]
  <2>1. lg = [k \in 1 .. Len(log[n]) |-> IF k <= c THEN Gone ELSE log[n][k]]
    BY <1>2
  <2> HIDE DEF c
  <2> QED BY <1>2, <2>1
<1> HIDE DEF c, lg
<1>5. log'[n] = lg /\ base'[n] = c /\ taking'[n] = "no"
  BY <1>1, <1>2 DEF TypeOK
<1>6. TypeOK'
  BY <1>1, <1>2, <1>4 DEF TypeOK
<1>7. ASSUME n \notin misled
      PROVE  /\ Sound(n) /\ Behind(n) /\ snap[n] = MarkAt(c) /\ lastApplied[n] = c /\ base[n] < c
             /\ \A k \in c + 1 .. Len(lg) : k \in base[n] + 1 .. Len(log[n]) /\ lg[k] = log[n][k]
  <2>1. Sound(n) /\ Behind(n)
    BY <1>7 DEF SnapshotInv
  <2>2. snap[n] = MarkAt(c) /\ base[n] < c /\ c <= lastApplied[n]
    BY <1>1, <2>1 DEF Sound, MarksFollow
  <2>3. lastApplied[n] = c
    BY <1>2, <2>2 DEF Kept, c
  <2> QED BY <1>2, <1>3, <1>4, <2>1, <2>2, <2>3
<1>8. ASSUME n \notin misled'
      PROVE  Sound(n)' /\ Behind(n)' /\ StaysTrue(n)
  <2>0. n \notin misled
    BY <1>1, <1>8
  <2>1. LogFollows(n)'
    <3>1. ASSUME NEW k \in c + 1 .. Len(lg)
          PROVE  lg[k] = EntryAt(k) \/ (n # Leader /\ lg[k] = Stray /\ c < k /\ k = Len(lg))
      BY <1>2, <1>4, <1>7, <2>0 DEF Sound, LogFollows, StrayAt, c
    <3> QED BY <1>1, <1>5, <3>1 DEF LogFollows, StrayAt, c
  <2>2. CountersFollow(n)' /\ Behind(n)'
    <3>1. KeptNode(Leader) \/ n = Leader
      BY <1>1, <1>2 DEF KeptNode, TypeOK
    <3> QED BY <1>1, <1>2, <1>3, <1>4, <1>5, <1>7, <2>0, <3>1
         DEF Sound, CountersFollow, Behind, KeptNode, c
  <2>3. MarksFollow(n)' /\ Applied(n)'
    BY <1>1, <1>2, <1>5, <1>7, <2>0 DEF Sound, MarksFollow, Held, Applied
  <2>4. StaysTrue(n)
    <3>1. ASSUME NEW i \in Nat, HoldsTo(n, i)
          PROVE  i <= Len(lg) /\ \A k \in c + 1 .. i : lg[k] = EntryAt(k)
      BY <1>2, <1>4, <1>7, <2>0, <3>1 DEF HoldsTo
    <3> QED BY <1>5, <3>1 DEF StaysTrue, HoldsTo
  <2> QED BY <2>1, <2>2, <2>3, <2>4 DEF Sound
<1>9. LeaderGrows /\ Kept(n)' /\ \A x \in Node \ {n} : KeptNode(x)
  <2>1. \A x \in Node \ {n} : KeptNode(x)
    BY <1>1, <1>2 DEF KeptNode, TypeOK
  <2>2. LeaderGrows /\ Kept(n)'
    BY <1>1, <1>2, <1>4, <1>5, <2>1 DEF LeaderGrows, Kept, KeptNode
  <2> QED BY <2>1, <2>2
<1>10. \A m \in msgs' : m \in msgs \/ IsTrue(m)'
  <2>1. ASSUME NEW m \in msgs', m \notin msgs
        PROVE  IsTrue(m)'
    <3>1. /\ n = Leader
          /\ msgs' = Send({[type |-> "Snapshot", mark |-> snap[n], fsm |-> Prefix(fsm[n], snap[n].idx), dst |-> f] :
                             f \in {g \in Follower : NeedsSnapshot(nextIdx[g])}})
      BY <2>1 DEF EndSnapshot
    <3>2. PICK f \in Follower :
            m = [type |-> "Snapshot", mark |-> snap[n], fsm |-> Prefix(fsm[n], snap[n].idx), dst |-> f]
      BY <2>1, <3>1, Sending
    <3>3. n \notin misled
      BY <1>2, <3>1, LeaderIsNotMisled
    <3>4. m = [type |-> "Snapshot", mark |-> MarkAt(c), fsm |-> Prefix(fsm[n], c), dst |-> f]
      BY <1>1, <1>7, <3>2, <3>3
    <3>5. c \in Nat \ {0}
      BY <1>2, <1>7, <3>3
    <3>6. m.type = "Snapshot" /\ SnapshotIsTrue(m, c)
      BY <1>2, <1>7, <3>1, <3>3, <3>4, <3>5, SnapshotSent
    <3>7. commitIdx'[Leader] = c
      BY <1>1, <3>1 DEF c
    <3> QED BY <3>6, <3>7 DEF IsTrue, SentIsTrue
  <2> QED BY <2>1
<1>11. StepOf(n)
  BY <1>1, <1>8, <1>9, <1>10 DEF StepOf, Progresses
<1> QED BY <1>6, <1>11, Preserved

LEMMA LoseKeeps ==
  ASSUME SnapshotInv, NEW m \in msgs, Lose(m)
  PROVE  SnapshotInv'
<1>1. UNCHANGED <<log, snapshots, commitIdx, applied, term, savedTerm, nextIdx, matchIdx, misled>>
      /\ \A k \in msgs' : k \in msgs
  BY DEF Lose, terms, progress
<1>2. TypeOK'
  BY <1>1 DEF SnapshotInv, TypeOK, snapshots, applied
<1>3. StepOf(Leader)
  <2>1. Leader \in Node \ misled
    BY LeaderIsNotMisled DEF SnapshotInv
  <2> QED BY <1>1, <2>1, NothingMoves DEF StepOf, Progresses
<1> QED BY <1>2, <1>3, Preserved

----------------------------------------------------------------------------
\* raft_begin_load_snapshot .. raft_end_load_snapshot.
LEMMA LoadSnapshotKeeps ==
  ASSUME SnapshotInv, NEW f \in Follower, NEW m \in msgs, m.dst = f, LoadSnapshot(f, m)
  PROVE  SnapshotInv'
<1> DEFINE i == m.mark.idx
           lg == [k \in 1 .. i |-> Gone]
<1>1. /\ m.type = "Snapshot"
      /\ msgs' = IF snap'[f] = m.mark THEN Send({AppendReply(f, term'[f], TRUE, i)}) ELSE msgs
      /\ misled' = misled \cup (IF Loadable(f, m.mark) /\ taking[f] # "no" THEN {f} ELSE {})
      /\ UNCHANGED <<savedTerm, taking, nextIdx, matchIdx>>
  BY DEF LoadSnapshot, progress
<1>2. /\ f \in Node /\ f # Leader /\ Leader \in Node /\ Kept(f) /\ TypeOK
      /\ Len(log[f]) \in Nat /\ base[f] \in Nat /\ commitIdx[f] \in Nat /\ lastApplied[f] \in Nat
      /\ Sound(Leader) /\ Kept(Leader) /\ commitIdx[Leader] \in Nat /\ Len(log[Leader]) \in Nat
      /\ commitIdx[Leader] <= Len(log[Leader]) /\ snap[f] \in Mark
  BY Constants, NodeTypes, LeaderIsNotMisled DEF SnapshotInv, Sound, CountersFollow
<1>3. SnapshotIsTrue(m, commitIdx[Leader])
  BY <1>1 DEF SnapshotInv, IsTrue, SentIsTrue, ReplyIsTrue
<1>4. /\ i \in Nat \ {0} /\ m.mark = MarkAt(i) /\ i <= commitIdx[Leader]
      /\ m.fsm = [k \in 1 .. i |-> k]
  BY <1>3 DEF SnapshotIsTrue
<1>5. m.mark \in Mark /\ m.mark.term \in {OldTerm, Term} /\ m.fsm \in Seq(Nat)
  <2>1. m.mark \in Mark
    BY <1>4, Marks
  <2>2. m.mark.term \in {OldTerm, Term}
    BY <1>4, Entries
  <2> HIDE DEF i
  <2> QED BY <1>4, <2>1, <2>2
<1> HIDE DEF i
<1>6. lg \in Seq(Entry \cup {Gone, Stray}) /\ Len(lg) = i
  BY <1>4
<1> HIDE DEF lg
<1>7. misled \subseteq misled' /\ misled' \subseteq misled \cup {f} /\ misled' \subseteq Follower
  BY <1>1, <1>2 DEF TypeOK
<1>8. /\ TypeOK' /\ Kept(f)' /\ LeaderGrows /\ \A x \in Node \ {f} : KeptNode(x)
      /\ f \notin misled' =>
           /\ Sound(f)' /\ Behind(f)' /\ StaysTrue(f)
           /\ snap'[f] = m.mark => HoldsTo(f, i)'
  <2>1. CASE Loadable(f, m.mark)
    <3>1. /\ term' = [term EXCEPT ![f] = m.mark.term] /\ log' = [log EXCEPT ![f] = lg]
          /\ base' = [base EXCEPT ![f] = i]
          /\ commitIdx' = [commitIdx EXCEPT ![f] = Larger(@, i)]
          /\ lastApplied' = [lastApplied EXCEPT ![f] = i]
          /\ fsm' = [fsm EXCEPT ![f] = m.fsm]
          /\ saved' = [saved EXCEPT ![f] = snap[f]] /\ snap' = [snap EXCEPT ![f] = m.mark]
      BY <2>1 DEF LoadSnapshot, i, lg
    <3>2. Len(log[f]) <= i /\ commitIdx[f] <= i
      BY <1>2, <1>4, <2>1 DEF Loadable, Kept, i
    <3>3. Larger(commitIdx[f], i) = i
      BY <1>2, <1>4, <3>2 DEF Larger
    <3>4. commitIdx' = [commitIdx EXCEPT ![f] = i]
      BY <3>1, <3>3
    <3>5. /\ log'[f] = lg /\ base'[f] = i /\ commitIdx'[f] = i /\ lastApplied'[f] = i
          /\ fsm'[f] = m.fsm /\ snap'[f] = MarkAt(i) /\ taking'[f] = taking[f]
      BY <1>1, <1>2, <1>4, <3>1, <3>4 DEF TypeOK
    <3>6. TypeOK'
      <4>1. i \in Nat /\ m.mark.term \in {OldTerm, Term} /\ m.mark \in Mark /\ m.fsm \in Seq(Nat)
        BY <1>4, <1>5
      <4>2. /\ term' \in [Node -> {OldTerm, Term}] /\ base' \in [Node -> Nat]
            /\ commitIdx' \in [Node -> Nat] /\ lastApplied' \in [Node -> Nat]
        BY <1>2, <3>1, <3>4, <4>1 DEF TypeOK
      <4>3. /\ log' \in [Node -> Seq(Entry \cup {Gone, Stray})] /\ fsm' \in [Node -> Seq(Nat)]
            /\ snap' \in [Node -> Mark] /\ saved' \in [Node -> Mark]
        BY <1>2, <1>6, <3>1, <4>1 DEF TypeOK
      <4> QED BY <1>1, <1>2, <1>7, <4>2, <4>3 DEF TypeOK
    <3>7. LogFollows(f)' /\ HoldsTo(f, i)'
      <4>1. i <= Len(lg) /\ \A k \in i + 1 .. i : FALSE
        BY <1>4, <1>6
      <4>2. \A k \in i + 1 .. Len(lg) : FALSE
        BY <1>4, <1>6
      <4> QED BY <3>5, <4>1, <4>2 DEF LogFollows, HoldsTo, i
    <3>8. CountersFollow(f)' /\ Applied(f)' /\ Kept(f)'
      BY <1>4, <1>6, <3>5 DEF CountersFollow, Applied, Kept
    <3>9. \A x \in Node \ {f} : KeptNode(x)
      BY <1>1, <1>2, <3>1, <3>4 DEF KeptNode, TypeOK
    <3>10. LeaderGrows /\ Behind(f)' /\ StaysTrue(f)
      <4>1. LeaderGrows /\ Behind(f)'
        BY <1>2, <1>4, <1>6, <3>5, <3>9 DEF LeaderGrows, Behind, KeptNode
      <4>2. ASSUME NEW j \in Nat, HoldsTo(f, j)
            PROVE  j <= Len(lg) /\ \A k \in i + 1 .. j : FALSE
        BY <1>2, <1>4, <1>6, <3>2, <4>2 DEF HoldsTo
      <4> QED BY <3>5, <4>1, <4>2 DEF StaysTrue, HoldsTo
    <3>11. f \notin misled' => MarksFollow(f)'
      BY <1>1, <2>1, <3>5 DEF MarksFollow, Held
    <3> QED BY <3>6, <3>7, <3>8, <3>9, <3>10, <3>11 DEF Sound
  <2>2. CASE ~Loadable(f, m.mark)
    <3>1. UNCHANGED <<log, snapshots, commitIdx, applied, term, misled>>
      BY <1>1, <2>2 DEF LoadSnapshot, snapshots, applied
    <3>2. /\ LeaderGrows /\ Kept(f)' /\ StaysTrue(f)
          /\ f \notin misled => Sound(f)' /\ Behind(f)'
          /\ \A x \in Node \ {f} : KeptNode(x)
      BY <1>2, <3>1, NothingMoves
    <3>3. TypeOK'
      BY <1>1, <1>2, <3>1 DEF TypeOK, snapshots, applied
    <3>4. ASSUME snap'[f] = m.mark, f \notin misled
          PROVE  HoldsTo(f, i)'
      <4>1. snap[f] = MarkAt(i) /\ snap[f].idx = i
        BY <1>4, <3>1, <3>4, Marks DEF snapshots
      <4>2. Sound(f)
        BY <1>2, <3>4 DEF SnapshotInv
      <4>3. i <= commitIdx[f] /\ i <= Len(log[f])
        <5>1. CASE taking[f] = "no"
          <6>1. i = base[f]
            BY <1>2, <1>4, <4>1, <4>2, <5>1, Marks DEF Sound, MarksFollow, Held
          <6> QED BY <1>2, <4>2, <6>1 DEF Sound, CountersFollow
        <5>2. CASE taking[f] # "no"
          <6>1. i <= lastApplied[f]
            BY <4>1, <4>2, <5>2 DEF Sound, MarksFollow
          <6> QED BY <1>2, <1>4, <6>1 DEF Kept
        <5> QED BY <5>1, <5>2
      <4>4. \A k \in base[f] + 1 .. i : log[f][k] = EntryAt(k)
        BY <1>2, <1>4, <4>2, <4>3, CommittedEntries DEF Sound
      <4> QED BY <3>1, <4>3, <4>4 DEF HoldsTo, snapshots, i
    <3> QED BY <3>1, <3>2, <3>3, <3>4
  <2> QED BY <2>1, <2>2
<1>9. \A k \in msgs' : k \in msgs \/ IsTrue(k)'
  <2>1. ASSUME NEW k \in msgs', k \notin msgs
        PROVE  IsTrue(k)'
    <3>1. snap'[f] = m.mark /\ k = AppendReply(f, term'[f], TRUE, i)
      <4>1. snap'[f] = m.mark
        BY <1>1, <2>1
      <4>2. PICK r : r = AppendReply(f, term'[f], TRUE, i)
        OBVIOUS
      <4>3. msgs' = Send({r})
        BY <1>1, <4>1, <4>2
      <4>4. k \in {r}
        BY <2>1, <4>3, Sending
      <4> QED BY <4>1, <4>2, <4>4
    <3>2. PICK j : j = i /\ j \in Nat
      BY <1>4
    <3>3. /\ k.type = "AppendEntriesResponse" /\ k.src = f /\ k.success = TRUE /\ k.idx = j
      BY <3>1, <3>2 DEF AppendReply
    <3>4. f \notin misled' => HoldsTo(f, i)'
      BY <1>8, <3>1
    <3>5. f \notin misled' => HoldsTo(f, j)'
      BY <3>2, <3>4 DEF HoldsTo, i
    <3>6. ReplyIsTrue(k)'
      BY <3>2, <3>3, <3>5 DEF ReplyIsTrue
    <3> QED BY <3>6 DEF IsTrue
  <2> QED BY <2>1
<1>10. StepOf(f)
  BY <1>1, <1>2, <1>7, <1>8, <1>9 DEF StepOf, Progresses
<1> QED BY <1>8, <1>10, Preserved

----------------------------------------------------------------------------
\* raft_recv_appendentries.  A follower that was not misled, and a message: an entry of the
\* log whose term differs from the leader's is the stray one, any other is the leader's.
EntriesKnown(f, m) ==
  /\ f \in Follower /\ f \in Node /\ f # Leader /\ f \notin misled /\ Sound(f) /\ Behind(f)
  /\ m.prev.idx \in Nat /\ Len(m.entries) \in Nat /\ m.prev = MarkAt(m.prev.idx)
  /\ m.entries \in Seq(Entry) /\ m.commit \in Nat
  /\ Len(log[f]) \in Nat /\ base[f] \in Nat /\ commitIdx[f] \in Nat /\ lastApplied[f] \in Nat
  /\ snap[f].idx \in Nat /\ log[f] \in Seq(Entry \cup {Gone, Stray})
  /\ Len(log[Leader]) \in Nat /\ commitIdx[Leader] \in Nat

LEMMA EntriesArrive ==
  ASSUME SnapshotInv, NEW m \in msgs, m.type = "AppendEntries"
  PROVE  /\ EntriesAreSent(m) /\ m.prev.idx \in Nat /\ Len(m.entries) \in Nat
         /\ m.dst \notin misled => EntriesKnown(m.dst, m)
         /\ ~Misplaced(m) => EntriesAreTrue(m, Len(log[Leader]), commitIdx[Leader])
<1>1. /\ EntriesAreSent(m)
      /\ ~Misplaced(m) => EntriesAreTrue(m, Len(log[Leader]), commitIdx[Leader])
  BY DEF SnapshotInv, IsTrue, SentIsTrue, ReplyIsTrue
<1>2. m.prev.idx \in Nat /\ Len(m.entries) \in Nat
  BY <1>1, LenProperties DEF EntriesAreSent, Mark
<1>3. ASSUME NEW f, f = m.dst, f \notin misled
      PROVE  EntriesKnown(f, m)
  <2>1. f \in Follower /\ f \in Node /\ f # Leader /\ Leader \in Node
    BY <1>1, <1>3, Constants DEF EntriesAreSent
  <2>2. TypeOK /\ Sound(f) /\ Behind(f)
    BY <1>3, <2>1 DEF SnapshotInv
  <2>3. /\ Len(log[Leader]) \in Nat /\ commitIdx[Leader] \in Nat
        /\ Len(log[f]) \in Nat /\ base[f] \in Nat /\ commitIdx[f] \in Nat /\ lastApplied[f] \in Nat
        /\ snap[f].idx \in Nat /\ log[f] \in Seq(Entry \cup {Gone, Stray})
    BY <2>1, <2>2, NodeTypes
  <2> QED BY <1>1, <1>2, <1>3, <2>1, <2>2, <2>3 DEF EntriesAreSent, EntriesKnown
<1> QED BY <1>1, <1>2, <1>3

LEMMA SameTerm ==
  ASSUME NEW m, NEW f, EntriesKnown(f, m), NEW k, Live(f, k)
  PROVE  /\ k \in Nat \ {0} /\ k <= Len(log[f]) /\ k \in base[f] + 1 .. Len(log[f])
         /\ log[f][k].term = EntryAt(k).term => log[f][k] = EntryAt(k)
         /\ log[f][k].term # EntryAt(k).term => StrayAt(f, k)
<1>1. k \in Nat \ {0} /\ k \in base[f] + 1 .. Len(log[f]) /\ k <= Len(log[f])
  BY DEF EntriesKnown, Live
<1>2. log[f][k] = EntryAt(k) \/ (StrayAt(f, k) /\ log[f][k] = Stray)
  BY <1>1 DEF EntriesKnown, Sound, LogFollows, StrayAt
<1>3. EntryAt(k).term # Stray.term
  BY <1>1, Entries
<1> QED BY <1>1, <1>2, <1>3

\* The mark a follower keeps is the leader's, of an entry it has applied.
LEMMA SnapOf ==
  ASSUME NEW m, NEW f, EntriesKnown(f, m)
  PROVE  /\ snap[f] = MarkAt(snap[f].idx) /\ base[f] <= snap[f].idx /\ snap[f].idx <= commitIdx[f]
         /\ commitIdx[f] <= Len(log[f]) /\ base[f] <= Len(log[f])
<1>1. /\ base[f] \in Nat /\ lastApplied[f] \in Nat /\ commitIdx[f] \in Nat /\ snap[f].idx \in Nat
      /\ Len(log[f]) \in Nat
      /\ base[f] <= lastApplied[f] /\ lastApplied[f] <= commitIdx[f] /\ commitIdx[f] <= Len(log[f])
  BY DEF EntriesKnown, Sound, CountersFollow
<1>2. CASE taking[f] = "no"
  <2>1. snap[f] = MarkAt(base[f])
    BY <1>2 DEF EntriesKnown, Sound, MarksFollow, Held
  <2>2. snap[f].idx = base[f]
    BY <1>1, <2>1, Marks
  <2> QED BY <1>1, <2>1, <2>2
<1>3. CASE taking[f] # "no"
  BY <1>1, <1>3 DEF EntriesKnown, Sound, MarksFollow
<1> QED BY <1>2, <1>3

\* An entry that conflicts with the one the message names is the stray one.
LEMMA ConflictIsStray ==
  ASSUME NEW m, NEW f, EntriesKnown(f, m), PrevConflicts(f, m)
  PROVE  /\ StrayAt(f, m.prev.idx) /\ m.prev.idx \in Nat \ {0}
         /\ m.prev.idx \in base[f] + 1 .. Len(log[f])
<1> DEFINE p == m.prev.idx
<1>1. Live(f, p) /\ log[f][p].term # m.prev.term /\ p # 0
  BY DEF PrevConflicts
<1>2. m.prev.term = EntryAt(p).term
  BY <1>1 DEF EntriesKnown, MarkAt
<1> QED BY <1>1, <1>2, SameTerm

\* Nothing in flight makes a follower shut down.
LEMMA NeverShutsDown ==
  ASSUME SnapshotInv, NEW m \in msgs, m.type = "AppendEntries", ~Misplaced(m), m.dst \notin misled
  PROVE  ~Shutdown(m.dst, m)
<1>0. PICK f : f = m.dst
  OBVIOUS
<1> DEFINE p == m.prev.idx
           k == NumPresent(f, m)
<1>1. EntriesKnown(f, m) /\ EntriesAreTrue(m, Len(log[Leader]), commitIdx[Leader])
  BY <1>0, EntriesArrive
<1>2. f \in Node /\ commitIdx[f] \in Nat /\ base[f] \in Nat /\ p \in Nat
      /\ m.prev = MarkAt(p) /\ Len(m.entries) \in Nat
  BY <1>1 DEF EntriesKnown
<1>4. p = snap[f].idx => m.prev.term = snap[f].term
  BY <1>1, <1>2, SnapOf
<1>5. ASSUME PrevConflicts(f, m)
      PROVE  ~(p <= commitIdx[f])
  BY <1>1, <1>2, <1>5, ConflictIsStray DEF StrayAt
<1>6. ASSUME k < Len(m.entries), Live(f, p + k + 1)
      PROVE  ~(p + k + 1 <= commitIdx[f])
  <2>1. k \in 0 .. Len(m.entries) /\ Present(f, m, k) /\ ~Present(f, m, k + 1)
    BY <1>2, <1>6, NumPresentType
  <2> HIDE DEF k, p
  <2>2. m.entries[k + 1] = EntryAt(p + k + 1)
    <3>1. k + 1 \in 1 .. Len(m.entries) /\ p + (k + 1) = p + k + 1
      BY <1>2, <1>6, <2>1
    <3> QED BY <1>1, <3>1 DEF EntriesAreTrue, p
  <2>3. log[f][p + k + 1].term # m.entries[k + 1].term
    <3>1. ASSUME log[f][p + k + 1].term = m.entries[k + 1].term
          PROVE  FALSE
      <4>1. ASSUME NEW j \in 1 .. k + 1
            PROVE  Live(f, p + j) /\ log[f][p + j].term = m.entries[j].term
        <5>1. CASE j = k + 1
          <6>1. p + j = p + k + 1
            BY <1>2, <2>1, <5>1
          <6> QED BY <1>6, <3>1, <5>1, <6>1 DEF p
        <5>2. CASE j \in 1 .. k
          BY <2>1, <5>2 DEF Present, p
        <5> QED BY <2>1, <5>1, <5>2
      <4> QED BY <2>1, <4>1 DEF Present, p
    <3> QED BY <3>1
  <2>4. StrayAt(f, p + k + 1)
    BY <1>1, <1>6, <2>2, <2>3, SameTerm DEF p
  <2> QED BY <1>2, <2>1, <2>4 DEF StrayAt
<1> QED BY <1>0, <1>4, <1>5, <1>6 DEF Shutdown

\* What a follower's log is after it took the entries of a message.
Matches(f, m, lg) ==
  LET n == m.prev.idx + Len(m.entries) IN
  /\ lg \in Seq(Entry \cup {Gone, Stray}) /\ Len(lg) \in Nat
  /\ n <= Len(lg) /\ Len(lg) <= Len(log[Leader]) /\ commitIdx[f] <= Len(lg)
  /\ \A x \in base[f] + 1 .. Len(lg) :
       \/ lg[x] = EntryAt(x)
       \/ lg[x] = Stray /\ commitIdx[f] < x /\ n < x /\ x = Len(lg)
  /\ \A i \in Nat : HoldsTo(f, i) =>
       i <= Len(lg) /\ \A x \in base[f] + 1 .. i : lg[x] = EntryAt(x)

LEMMA MergeMatches ==
  ASSUME NEW f, NEW m, EntriesKnown(f, m),
         EntriesAreTrue(m, Len(log[Leader]), commitIdx[Leader]),
         m.prev.idx # 0 \/ base[f] = 0 \/ m.entries = <<>>,
         ~PrevMissing(f, m), ~PrevConflicts(f, m)
  PROVE  Matches(f, m, Merge(f, m))
<1> DEFINE p == m.prev.idx
           e == Len(m.entries)
           b == base[f]
           k == NumPresent(f, m)
           old == log[f]
           len == Len(old)
           top == Len(log[Leader])
           rest == SubSeq(m.entries, k + 1, e)
<1>1. /\ p \in Nat /\ e \in Nat /\ b \in Nat /\ len \in Nat /\ top \in Nat
      /\ p + e <= top /\ len <= top /\ b <= len
      /\ commitIdx[f] \in Nat /\ commitIdx[f] <= len
      /\ old \in Seq(Entry \cup {Gone, Stray}) /\ m.entries \in Seq(Entry)
      /\ \A j \in 1 .. e : m.entries[j] = EntryAt(p + j)
      /\ \A x \in b + 1 .. len : old[x] = EntryAt(x) \/ (old[x] = Stray /\ commitIdx[f] < x /\ x = len)
  BY SnapOf DEF EntriesKnown, EntriesAreTrue, Behind, Sound, LogFollows, StrayAt
<1>2. /\ k \in 0 .. e /\ Present(f, m, k)
      /\ k < e => ~Present(f, m, k + 1)
  BY <1>1, NumPresentType
<1>3. \A x : Live(f, x) <=> x \in b + 1 .. len
  BY DEF Live
\* No entry up to the one the message names is the stray one.
<1>4. /\ p <= len /\ (b <= p \/ e = 0)
      /\ \A x \in b + 1 .. p : old[x] = EntryAt(x)
  <2>1. CASE p = 0
    <3>1. b = 0 \/ e = 0
      BY <2>1
    <3> HIDE DEF p, b, e, old, len
    <3> QED BY <1>1, <2>1, <3>1
  <2>2. CASE p = snap[f].idx
    <3>1. b <= p /\ p <= commitIdx[f]
      BY <2>2, SnapOf
    <3> HIDE DEF p, b, e, old, len
    <3> QED BY <1>1, <3>1
  <2>3. CASE p \notin {0, snap[f].idx}
    <3>1. Live(f, p) /\ log[f][p].term = m.prev.term
      BY <2>3 DEF PrevMissing, PrevConflicts
    <3>2. m.prev.term = EntryAt(p).term
      BY <2>3 DEF EntriesKnown, MarkAt
    <3>3. old[p] = EntryAt(p) /\ p \in b + 1 .. len
      BY <3>1, <3>2, SameTerm
    <3> HIDE DEF p, b, e, old, len
    <3>4. ASSUME NEW x \in b + 1 .. p
          PROVE  old[x] = EntryAt(x)
      BY <1>1, <3>3
    <3> QED BY <1>1, <3>3, <3>4
  <2> QED BY <2>1, <2>2, <2>3
<1>5. ASSUME NEW j \in 1 .. k
      PROVE  p + j \in b + 1 .. len /\ old[p + j] = EntryAt(p + j)
  <2>1. Live(f, p + j) /\ old[p + j].term = m.entries[j].term
    BY <1>2 DEF Present
  <2>2. m.entries[j] = EntryAt(p + j)
    BY <1>1, <1>2
  <2> QED BY <1>3, <2>1, <2>2, SameTerm
<1> HIDE DEF k
<1>6. p + k <= len /\ \A x \in b + 1 .. p + k : old[x] = EntryAt(x)
  <2> HIDE DEF p, b, e, old, len
  <2>1. p + k <= len
    <3>1. CASE k = 0
      BY <1>1, <1>4, <3>1
    <3>2. CASE k # 0
      <4>1. k \in 1 .. k
        BY <1>2, <3>2
      <4> QED BY <1>1, <1>5, <4>1
    <3> QED BY <3>1, <3>2
  <2>2. ASSUME NEW x \in b + 1 .. p + k
        PROVE  old[x] = EntryAt(x)
    <3>1. CASE x <= p
      BY <1>1, <1>4, <3>1
    <3>2. CASE ~(x <= p)
      <4>1. x - p \in 1 .. k /\ p + (x - p) = x
        BY <1>1, <1>2, <3>2
      <4> QED BY <1>5, <4>1
    <3> QED BY <3>1, <3>2
  <2> QED BY <2>1, <2>2
<1>7. /\ rest \in Seq(Entry) /\ Len(rest) = e - k
      /\ \A j \in 1 .. e - k : rest[j] = EntryAt(p + k + j)
  <2>1. \A j \in k + 1 .. e : m.entries[j] \in Entry
    BY <1>1, <1>2
  <2>2. k + 1 \in Int /\ e \in Int
    BY <1>1, <1>2
  <2> HIDE DEF e
  <2>3. /\ rest \in Seq(Entry) /\ Len(rest) = IF k + 1 <= e THEN e - (k + 1) + 1 ELSE 0
        /\ \A j \in 1 .. e - (k + 1) + 1 : rest[j] = m.entries[(k + 1) + j - 1]
    BY <2>1, <2>2, SubSeqProperties
  <2>4. Len(rest) = e - k
    BY <1>1, <1>2, <2>3
  <2>5. ASSUME NEW j \in 1 .. e - k
        PROVE  rest[j] = EntryAt(p + k + j)
    <3>1. /\ j \in 1 .. e - (k + 1) + 1 /\ (k + 1) + j - 1 \in 1 .. e
          /\ p + ((k + 1) + j - 1) = p + k + j
      BY <1>1, <1>2
    <3>2. rest[j] = m.entries[(k + 1) + j - 1]
      BY <2>3, <3>1
    <3>3. m.entries[(k + 1) + j - 1] = EntryAt(p + ((k + 1) + j - 1))
      BY <1>1, <3>1
    <3> QED BY <3>1, <3>2, <3>3
  <2> QED BY <2>3, <2>4, <2>5
<1> HIDE DEF rest
<1>11. /\ p \in Nat /\ e \in Nat /\ b \in Nat /\ len \in Nat /\ top \in Nat
       /\ k \in Nat /\ k <= e /\ (b <= p \/ e = 0) /\ p + k <= len /\ len <= top /\ p + e <= top
       /\ commitIdx[f] \in Nat /\ commitIdx[f] <= len /\ b <= len
  BY <1>1, <1>2, <1>4, <1>6
<1> HIDE DEF p, e, b, len, top, old
<1>9. CASE k < e /\ Live(f, p + k + 1)
  <2> DEFINE head == Prefix(old, p + k)
             lg == head \o rest
  <2>1. Merge(f, m) = lg
    BY <1>9 DEF Merge, rest, k, p, e, old
  <2>2. p + k + 1 \in b + 1 .. len /\ StrayAt(f, p + k + 1)
    <3>1. ~Present(f, m, k + 1)
      BY <1>2, <1>9
    <3>2. PICK j \in 1 .. k + 1 : ~(Live(f, p + j) /\ old[p + j].term = m.entries[j].term)
      BY <3>1 DEF Present, p, old
    <3>3. j = k + 1
      <4>1. j \in 1 .. k => Live(f, p + j) /\ old[p + j].term = m.entries[j].term
        BY <1>2 DEF Present, p, old
      <4> QED BY <1>11, <3>2, <4>1
    <3>4. p + j = p + k + 1 /\ j \in 1 .. e
      BY <1>11, <1>9, <3>3
    <3>5. old[p + k + 1].term # m.entries[j].term /\ m.entries[j] = EntryAt(p + k + 1)
      BY <1>1, <1>9, <3>2, <3>4
    <3>6. StrayAt(f, p + k + 1)
      BY <1>9, <3>5, SameTerm DEF old
    <3> QED BY <1>3, <1>9, <3>6
  <2>3. len = p + k + 1 /\ commitIdx[f] < p + k + 1 /\ old[p + k + 1] = Stray
    BY <2>2 DEF StrayAt, old, len
  <2>4. /\ head \in Seq(Entry \cup {Gone, Stray}) /\ Len(head) = p + k
        /\ \A x \in 1 .. p + k : head[x] = old[x]
    <3>1. old \in Seq(Entry \cup {Gone, Stray}) /\ Len(old) = len /\ p + k \in 0 .. len
      BY <1>1, <1>11 DEF len
    <3> QED BY <3>1 DEF Prefix
  <2> HIDE DEF head
  <2>5. rest \in Seq(Entry \cup {Gone, Stray})
    BY <1>7
  <2>6. /\ lg \in Seq(Entry \cup {Gone, Stray}) /\ Len(lg) = p + k + (e - k)
        /\ \A x \in 1 .. p + k + (e - k) : lg[x] = IF x <= p + k THEN head[x] ELSE rest[x - (p + k)]
    <3>1. /\ lg \in Seq(Entry \cup {Gone, Stray}) /\ Len(lg) = Len(head) + Len(rest)
          /\ \A x \in 1 .. Len(head) + Len(rest) :
               lg[x] = IF x <= Len(head) THEN head[x] ELSE rest[x - Len(head)]
      BY <2>4, <2>5, ConcatProperties
    <3> HIDE DEF lg
    <3> QED BY <1>7, <2>4, <3>1
  <2> HIDE DEF lg
  <2>7. Len(lg) = p + e
    BY <1>11, <2>6
  <2>8. ASSUME NEW x \in b + 1 .. Len(lg)
        PROVE  lg[x] = EntryAt(x)
    <3>1. x \in 1 .. p + k + (e - k)
      BY <1>11, <2>6
    <3>2. CASE x <= p + k
      <4>1. x \in b + 1 .. p + k /\ x \in 1 .. p + k
        BY <1>11, <3>1, <3>2
      <4>2. old[x] = EntryAt(x)
        BY <1>6, <4>1
      <4> QED BY <2>4, <2>6, <3>1, <3>2, <4>1, <4>2
    <3>3. CASE ~(x <= p + k)
      <4>1. x - (p + k) \in 1 .. e - k /\ p + k + (x - (p + k)) = x
        BY <1>11, <3>1, <3>3
      <4> QED BY <1>7, <2>6, <3>1, <3>3, <4>1
    <3> QED BY <3>2, <3>3
  <2>9. ASSUME NEW i \in Nat, HoldsTo(f, i)
        PROVE  i <= Len(lg) /\ \A x \in b + 1 .. i : lg[x] = EntryAt(x)
    <3>1. i <= len /\ \A x \in b + 1 .. i : old[x] = EntryAt(x)
      BY <2>9 DEF HoldsTo, len, old, b
    <3>2. p + k + 1 \in Nat \ {0} /\ EntryAt(p + k + 1) # Stray
      BY <1>11, Entries
    <3>3. i # p + k + 1
      BY <1>11, <2>2, <2>3, <3>1, <3>2
    <3>4. i <= p + e
      BY <1>11, <1>9, <2>3, <3>1, <3>3
    <3>5. \A x \in b + 1 .. i : x \in b + 1 .. Len(lg)
      BY <1>11, <2>7, <3>4
    <3> QED BY <2>7, <2>8, <3>4, <3>5
  <2>10. commitIdx[f] <= Len(lg) /\ Len(lg) \in Nat
    BY <1>11, <1>9, <2>3, <2>7
  <2> QED BY <1>1, <1>11, <2>1, <2>6, <2>7, <2>8, <2>9, <2>10 DEF Matches, p, e, b, len, top, old
<1>10. CASE ~(k < e /\ Live(f, p + k + 1))
  <2> DEFINE lg == old \o rest
  <2>1. Merge(f, m) = lg
    BY <1>10 DEF Merge, rest, k, p, e, old
  <2>2. k = e \/ (k < e /\ len = p + k)
    <3>1. CASE k < e
      <4>1. p + k + 1 \notin b + 1 .. len /\ b <= p
        BY <1>3, <1>10, <1>11, <3>1
      <4> QED BY <1>11, <3>1, <4>1
    <3> QED BY <1>11, <3>1
  <2>3. rest \in Seq(Entry \cup {Gone, Stray})
    BY <1>7
  <2>4. /\ lg \in Seq(Entry \cup {Gone, Stray}) /\ Len(lg) = len + (e - k)
        /\ \A x \in 1 .. len + (e - k) : lg[x] = IF x <= len THEN old[x] ELSE rest[x - len]
    <3>1. /\ lg \in Seq(Entry \cup {Gone, Stray}) /\ Len(lg) = Len(old) + Len(rest)
          /\ \A x \in 1 .. Len(old) + Len(rest) :
               lg[x] = IF x <= Len(old) THEN old[x] ELSE rest[x - Len(old)]
      BY <1>1, <2>3, ConcatProperties
    <3> HIDE DEF lg
    <3> QED BY <1>7, <3>1 DEF len
  <2> HIDE DEF lg
  <2>5. ASSUME NEW x \in b + 1 .. Len(lg)
        PROVE  \/ lg[x] = EntryAt(x)
               \/ lg[x] = Stray /\ commitIdx[f] < x /\ p + e < x /\ x = Len(lg)
    <3>1. x \in 1 .. len + (e - k)
      BY <1>11, <2>4
    <3>2. CASE x <= len
      <4>1. x \in b + 1 .. len /\ lg[x] = old[x]
        BY <1>11, <2>4, <3>1, <3>2
      <4>2. CASE x <= p + k
        BY <1>6, <1>11, <4>1, <4>2
      <4>3. CASE ~(x <= p + k)
        <5>1. k = e /\ p + e < x /\ Len(lg) = len
          BY <1>11, <2>2, <2>4, <4>1, <4>3
        <5> QED BY <1>1, <4>1, <5>1
      <4> QED BY <4>2, <4>3
    <3>3. CASE ~(x <= len)
      <4>1. x \in Nat /\ len < x /\ x <= len + (e - k)
        BY <1>11, <3>1, <3>3
      <4>2. len = p + k
        BY <1>11, <2>2, <4>1
      <4>3. x - len \in 1 .. e - k /\ p + k + (x - len) = x
        BY <1>11, <4>1, <4>2
      <4>4. lg[x] = rest[x - len]
        BY <2>4, <3>1, <3>3
      <4> QED BY <1>7, <4>3, <4>4
    <3> QED BY <3>2, <3>3
  <2>6. /\ Len(lg) \in Nat /\ p + e <= Len(lg) /\ Len(lg) <= top /\ commitIdx[f] <= Len(lg)
        /\ len <= Len(lg)
    BY <1>11, <2>2, <2>4
  <2>7. ASSUME NEW i \in Nat, HoldsTo(f, i)
        PROVE  i <= Len(lg) /\ \A x \in b + 1 .. i : lg[x] = EntryAt(x)
    <3>1. i <= len /\ \A x \in b + 1 .. i : old[x] = EntryAt(x)
      BY <2>7 DEF HoldsTo, len, old, b
    <3>2. ASSUME NEW x \in b + 1 .. i
          PROVE  lg[x] = EntryAt(x)
      <4>1. x \in 1 .. len + (e - k) /\ x <= len
        BY <1>11, <3>1
      <4> QED BY <2>4, <3>1, <4>1
    <3> QED BY <1>11, <2>6, <3>1, <3>2
  <2> QED BY <2>1, <2>4, <2>5, <2>6, <2>7 DEF Matches, p, e, b, len, top, old
<1> QED BY <1>9, <1>10

\* What becomes of the follower's log and commit index, and its answer: the types, and, for
\* a follower that was not misled, what they say.
Answers(f, lg, c, ok, idx) ==
  /\ lg \in Seq(Entry \cup {Gone, Stray}) /\ Len(lg) \in Nat /\ c \in Nat /\ idx \in Nat
  /\ ok \in BOOLEAN
  /\ log' = [log EXCEPT ![f] = lg] /\ commitIdx' = [commitIdx EXCEPT ![f] = c]
  /\ msgs' = Send({AppendReply(f, Term, ok, idx)})
  /\ commitIdx[f] <= c /\ c <= Len(lg)
AnswersTruly(f, lg, c, ok, idx) ==
  /\ c <= commitIdx[Leader] /\ Len(lg) <= Len(log[Leader])
  /\ \A x \in base[f] + 1 .. Len(lg) :
       lg[x] = EntryAt(x) \/ (lg[x] = Stray /\ c < x /\ x = Len(lg))
  /\ \A i \in Nat : HoldsTo(f, i) =>
       i <= Len(lg) /\ \A x \in base[f] + 1 .. i : lg[x] = EntryAt(x)
  /\ ok => idx <= Len(lg) /\ \A x \in base[f] + 1 .. idx : lg[x] = EntryAt(x)

LEMMA EntryRefused ==
  ASSUME TypeOK, NEW f \in Node, Kept(f), NEW m,
         UNCHANGED <<log, commitIdx>>, msgs' = Send({AppendReply(f, Term, FALSE, Len(log[f]))})
  PROVE  /\ Answers(f, log[f], commitIdx[f], FALSE, Len(log[f]))
         /\ EntriesKnown(f, m) => AnswersTruly(f, log[f], commitIdx[f], FALSE, Len(log[f]))
<1>1. /\ log[f] \in Seq(Entry \cup {Gone, Stray}) /\ Len(log[f]) \in Nat /\ commitIdx[f] \in Nat
      /\ commitIdx[f] <= Len(log[f]) /\ commitIdx[f] <= commitIdx[f]
      /\ log' = [log EXCEPT ![f] = log[f]] /\ commitIdx' = [commitIdx EXCEPT ![f] = commitIdx[f]]
  BY NodeTypes DEF Kept, TypeOK
<1>2. FALSE \in BOOLEAN
  OBVIOUS
<1>3. Answers(f, log[f], commitIdx[f], FALSE, Len(log[f]))
  BY <1>1, <1>2, Zenon DEF Answers
<1>4. ASSUME EntriesKnown(f, m)
      PROVE  AnswersTruly(f, log[f], commitIdx[f], FALSE, Len(log[f]))
  <2>1. /\ commitIdx[f] <= commitIdx[Leader] /\ Len(log[f]) <= Len(log[Leader])
        /\ \A x \in base[f] + 1 .. Len(log[f]) :
             log[f][x] = EntryAt(x) \/ (log[f][x] = Stray /\ commitIdx[f] < x /\ x = Len(log[f]))
    BY <1>4 DEF EntriesKnown, Sound, Behind, LogFollows, StrayAt
  <2>2. \A i \in Nat : HoldsTo(f, i) =>
          i <= Len(log[f]) /\ \A x \in base[f] + 1 .. i : log[f][x] = EntryAt(x)
    BY DEF HoldsTo
  <2> QED BY <2>1, <2>2, Zenon DEF AnswersTruly
<1> QED BY <1>3, <1>4

LEMMA EntryDeleted ==
  ASSUME TypeOK, NEW f \in Node, Kept(f), NEW m, m.prev.idx \in Nat,
         PrevConflicts(f, m), ~(m.prev.idx <= commitIdx[f]),
         UNCHANGED commitIdx, log' = [log EXCEPT ![f] = Prefix(@, m.prev.idx - 1)],
         msgs' = Send({AppendReply(f, Term, FALSE, m.prev.idx - 1)})
  PROVE  \E lg, c, ok, idx :
           Answers(f, lg, c, ok, idx) /\ (EntriesKnown(f, m) => AnswersTruly(f, lg, c, ok, idx))
<1> DEFINE q == m.prev.idx - 1
<1>1. /\ log[f] \in Seq(Entry \cup {Gone, Stray}) /\ Len(log[f]) \in Nat /\ commitIdx[f] \in Nat
      /\ base[f] \in Nat
  BY NodeTypes
<1>2. m.prev.idx \in base[f] + 1 .. Len(log[f])
  BY DEF PrevConflicts, Live
<1>3. q \in Nat /\ q < Len(log[f]) /\ commitIdx[f] <= q
  BY <1>1, <1>2
<1>4. PICK lg : lg = Prefix(log[f], q)
  OBVIOUS
<1>5. PICK k : k = q
  OBVIOUS
<1>6. /\ lg \in Seq(Entry \cup {Gone, Stray}) /\ Len(lg) = k
      /\ \A x \in 1 .. k : lg[x] = log[f][x]
  <2>1. k \in 0 .. Len(log[f]) /\ lg = SubSeq(log[f], 1, k)
    BY <1>1, <1>3, <1>4, <1>5 DEF Prefix
  <2> QED BY <1>1, <2>1
<1>7. log' = [log EXCEPT ![f] = lg] /\ commitIdx' = [commitIdx EXCEPT ![f] = commitIdx[f]]
  BY <1>4 DEF TypeOK
<1>8. msgs' = Send({AppendReply(f, Term, FALSE, k)})
  BY <1>5
<1>9. Answers(f, lg, commitIdx[f], FALSE, k)
  <2>1. k \in Nat /\ Len(lg) \in Nat /\ commitIdx[f] <= commitIdx[f] /\ commitIdx[f] <= Len(lg)
        /\ FALSE \in BOOLEAN
    BY <1>1, <1>3, <1>5, <1>6
  <2> QED BY <1>1, <1>6, <1>7, <1>8, <2>1, Zenon DEF Answers
<1>10. ASSUME EntriesKnown(f, m)
       PROVE  AnswersTruly(f, lg, commitIdx[f], FALSE, k)
  <2>1. StrayAt(f, m.prev.idx)
    BY <1>10, ConflictIsStray
  <2>2. Len(log[f]) = k + 1 /\ log[f][k + 1] = Stray /\ k + 1 \in Nat \ {0} /\ k \in Nat
    BY <1>1, <1>2, <1>3, <1>5, <2>1 DEF StrayAt
  <2>3. /\ commitIdx[f] <= commitIdx[Leader] /\ Len(log[f]) <= Len(log[Leader])
        /\ Len(log[Leader]) \in Nat
        /\ \A x \in base[f] + 1 .. Len(log[f]) :
             log[f][x] = EntryAt(x) \/ (log[f][x] = Stray /\ x = Len(log[f]))
    BY <1>10 DEF EntriesKnown, Sound, Behind, LogFollows, StrayAt
  <2>4. ASSUME NEW x \in base[f] + 1 .. Len(lg)
        PROVE  lg[x] = EntryAt(x)
    <3>1. x \in 1 .. k /\ x \in base[f] + 1 .. Len(log[f]) /\ x # Len(log[f])
      BY <1>1, <1>6, <2>2
    <3> QED BY <1>6, <2>3, <3>1
  <2>5. ASSUME NEW i \in Nat, HoldsTo(f, i)
        PROVE  i <= Len(lg) /\ \A x \in base[f] + 1 .. i : lg[x] = EntryAt(x)
    <3>1. i <= Len(log[f]) /\ \A x \in base[f] + 1 .. i : log[f][x] = EntryAt(x)
      BY <2>5 DEF HoldsTo
    <3>2. EntryAt(k + 1) # Stray /\ k + 1 \in base[f] + 1 .. k + 1
      BY <1>1, <1>2, <2>2, Entries, <1>5
    <3>3. i # k + 1
      BY <2>2, <3>1, <3>2
    <3>4. i <= Len(lg) /\ \A x \in base[f] + 1 .. i : x \in base[f] + 1 .. Len(lg)
      BY <1>1, <1>6, <2>2, <3>1, <3>3
    <3> QED BY <2>4, <3>4
  <2>6. Len(lg) <= Len(log[Leader])
    BY <1>6, <2>2, <2>3
  <2> QED BY <2>3, <2>4, <2>5, <2>6, Zenon DEF AnswersTruly
<1> QED BY <1>9, <1>10

\* The types of the log after it took the entries of any message.
LEMMA MergeType ==
  ASSUME TypeOK, NEW f \in Node, Kept(f), NEW m, m.prev.idx \in Nat, m.entries \in Seq(Entry),
         ~PrevMissing(f, m), ~PrevConflicts(f, m), ~Shutdown(f, m)
  PROVE  /\ Merge(f, m) \in Seq(Entry \cup {Gone, Stray}) /\ Len(Merge(f, m)) \in Nat
         /\ commitIdx[f] <= Len(Merge(f, m))
<1> DEFINE p == m.prev.idx
           e == Len(m.entries)
           k == NumPresent(f, m)
           rest == SubSeq(m.entries, k + 1, e)
<1>1. /\ log[f] \in Seq(Entry \cup {Gone, Stray}) /\ Len(log[f]) \in Nat /\ commitIdx[f] \in Nat
      /\ base[f] \in Nat /\ commitIdx[f] <= Len(log[f]) /\ e \in Nat
  BY NodeTypes, LenProperties DEF Kept
<1>2. k \in 0 .. e
  BY <1>1, NumPresentType
<1>3. rest \in Seq(Entry) /\ Len(rest) \in Nat
  <2>1. \A j \in k + 1 .. e : m.entries[j] \in Entry
    BY <1>1, <1>2
  <2>2. k + 1 \in Int /\ e \in Int
    BY <1>1, <1>2
  <2> HIDE DEF e, k
  <2>3. rest \in Seq(Entry)
    BY <2>1, <2>2, SubSeqProperties
  <2> QED BY <2>3, LenProperties
<1>4. rest \in Seq(Entry \cup {Gone, Stray})
  BY <1>3
<1> HIDE DEF rest, k, e
<1>5. CASE k < e /\ Live(f, p + k + 1)
  <2>1. PICK i : i = p + k
    OBVIOUS
  <2>2. i \in 0 .. Len(log[f])
    BY <1>1, <1>2, <1>5, <2>1 DEF Live
  <2>3. commitIdx[f] <= i
    <3>1. ~(p + k + 1 <= commitIdx[f])
      BY <1>5 DEF Shutdown, k, e
    <3> QED BY <1>1, <1>2, <2>1, <3>1
  <2>4. PICK head : head = SubSeq(log[f], 1, i)
    OBVIOUS
  <2>5. head \in Seq(Entry \cup {Gone, Stray}) /\ Len(head) = i
    BY <1>1, <2>2, <2>4
  <2>6. Merge(f, m) = head \o rest
    BY <1>5, <2>1, <2>4 DEF Merge, Prefix, rest, k, e
  <2>7. head \o rest \in Seq(Entry \cup {Gone, Stray}) /\ Len(head \o rest) = i + Len(rest)
    BY <1>4, <2>5, ConcatProperties
  <2> QED BY <1>1, <1>3, <2>2, <2>3, <2>6, <2>7
<1>6. CASE ~(k < e /\ Live(f, p + k + 1))
  <2>1. Merge(f, m) = log[f] \o rest
    BY <1>6 DEF Merge, rest, k, e
  <2>2. /\ log[f] \o rest \in Seq(Entry \cup {Gone, Stray})
        /\ Len(log[f] \o rest) = Len(log[f]) + Len(rest)
    BY <1>1, <1>4, ConcatProperties
  <2> QED BY <1>1, <1>3, <2>1, <2>2
<1> QED BY <1>5, <1>6

LEMMA EntriesTaken ==
  ASSUME TypeOK, NEW f \in Node, Kept(f), NEW m, m.prev.idx \in Nat, Len(m.entries) \in Nat,
         EntriesAreSent(m), ~Shutdown(f, m), ~PrevMissing(f, m), ~PrevConflicts(f, m),
         ~Misplaced(m) => EntriesAreTrue(m, Len(log[Leader]), commitIdx[Leader]),
         log' = [log EXCEPT ![f] = Merge(f, m)],
         FollowedCommit(f, m, log'[f]) <= Len(log'[f]),
         commitIdx' = [commitIdx EXCEPT ![f] = FollowedCommit(f, m, log'[f])],
         msgs' = Send({AppendReply(f, Term, TRUE, m.prev.idx + Len(m.entries))})
  PROVE  \E lg, c, ok, idx :
           /\ Answers(f, lg, c, ok, idx)
           /\ EntriesKnown(f, m) /\ ~Misleads(f, m) => AnswersTruly(f, lg, c, ok, idx)
<1>1. PICK lg, c, n : /\ lg = Merge(f, m) /\ c = FollowedCommit(f, m, lg)
                      /\ n = m.prev.idx + Len(m.entries)
  OBVIOUS
<1>2. log'[f] = lg
  BY <1>1 DEF TypeOK
<1>3. lg \in Seq(Entry \cup {Gone, Stray}) /\ Len(lg) \in Nat /\ commitIdx[f] <= Len(lg)
  BY <1>1, MergeType DEF EntriesAreSent
<1>4. commitIdx[f] \in Nat /\ m.commit \in Nat /\ n \in Nat
  BY <1>1, NodeTypes DEF EntriesAreSent
<1>5. /\ c \in Nat /\ commitIdx[f] <= c /\ c <= Len(lg)
      /\ c = commitIdx[f] \/ (commitIdx[f] < m.commit /\ c <= m.commit)
  <2>1. c <= Len(lg)
    BY <1>1, <1>2
  <2>2. CASE commitIdx[f] < m.commit
    <3>1. c = Smaller(Larger(Len(lg), 1), m.commit)
      BY <1>1, <2>2 DEF FollowedCommit
    <3> QED BY <1>3, <1>4, <2>1, <2>2, <3>1 DEF Smaller, Larger
  <2>3. CASE ~(commitIdx[f] < m.commit)
    BY <1>1, <1>3, <1>4, <2>3 DEF FollowedCommit
  <2> QED BY <2>2, <2>3
<1>6. Answers(f, lg, c, TRUE, n)
  <2>1. /\ log' = [log EXCEPT ![f] = lg] /\ commitIdx' = [commitIdx EXCEPT ![f] = c]
        /\ msgs' = Send({AppendReply(f, Term, TRUE, n)}) /\ TRUE \in BOOLEAN
    BY <1>1, <1>2
  <2> QED BY <1>3, <1>4, <1>5, <2>1, Zenon DEF Answers
<1>7. ASSUME EntriesKnown(f, m), ~Misleads(f, m)
      PROVE  AnswersTruly(f, lg, c, TRUE, n)
  <2>1. /\ ~Misplaced(m)
        /\ ~(m.prev.idx = 0 /\ base[f] > 0 /\ m.entries # <<>>)
        /\ ~(commitIdx[f] < m.commit /\ c > n)
    BY <1>1, <1>7 DEF Misleads
  <2>2. base[f] \in Nat /\ commitIdx[Leader] \in Nat /\ commitIdx[f] <= commitIdx[Leader]
    BY <1>7 DEF EntriesKnown, Behind
  <2>3. EntriesAreTrue(m, Len(log[Leader]), commitIdx[Leader])
    BY <2>1
  <2>4. m.prev.idx # 0 \/ base[f] = 0 \/ m.entries = <<>>
    BY <2>1, <2>2
  <2>5. Matches(f, m, lg)
    BY <1>1, <1>7, <2>3, <2>4, MergeMatches
  <2>6. /\ n <= Len(lg) /\ Len(lg) <= Len(log[Leader])
        /\ \A x \in base[f] + 1 .. Len(lg) :
             \/ lg[x] = EntryAt(x)
             \/ lg[x] = Stray /\ commitIdx[f] < x /\ n < x /\ x = Len(lg)
        /\ \A i \in Nat : HoldsTo(f, i) =>
             i <= Len(lg) /\ \A x \in base[f] + 1 .. i : lg[x] = EntryAt(x)
    BY <1>1, <2>5 DEF Matches
  <2>7. c <= commitIdx[Leader]
    BY <1>4, <1>5, <2>2, <2>3 DEF EntriesAreTrue
  <2>8. c = commitIdx[f] \/ c <= n
    BY <1>4, <1>5, <2>1
  <2>9. ASSUME NEW x \in base[f] + 1 .. Len(lg)
        PROVE  lg[x] = EntryAt(x) \/ (lg[x] = Stray /\ c < x /\ x = Len(lg))
    BY <1>4, <1>5, <2>2, <2>6, <2>8
  <2>10. ASSUME NEW x \in base[f] + 1 .. n
         PROVE  lg[x] = EntryAt(x)
    <3>1. x \in base[f] + 1 .. Len(lg) /\ ~(n < x)
      BY <1>3, <1>4, <2>2, <2>6
    <3> QED BY <2>6, <3>1
  <2> QED BY <2>6, <2>7, <2>9, <2>10, Zenon DEF AnswersTruly
<1> QED BY <1>6, <1>7

LEMMA RecvAppendEntriesKeeps ==
  ASSUME SnapshotInv, NEW f \in Follower, NEW m \in msgs, m.dst = f,
         RecvAppendEntries(f, m)
  PROVE  SnapshotInv'
<1>1. /\ m.type = "AppendEntries" /\ ~Shutdown(f, m)
      /\ term' = [term EXCEPT ![f] = Term]
      /\ savedTerm' = [savedTerm EXCEPT ![f] = IF term[f] < Term THEN Term ELSE @]
      /\ misled' = misled \cup (IF Misleads(f, m) THEN {f} ELSE {})
      /\ UNCHANGED <<base, snap, saved, taking, lastApplied, fsm, nextIdx, matchIdx>>
  BY DEF RecvAppendEntries, snapshots, applied, progress
<1>2. /\ EntriesAreSent(m) /\ m.prev.idx \in Nat /\ Len(m.entries) \in Nat
      /\ f \notin misled => EntriesKnown(f, m)
      /\ ~Misplaced(m) => EntriesAreTrue(m, Len(log[Leader]), commitIdx[Leader])
  BY <1>1, EntriesArrive
<1>3. /\ f \in Node /\ f # Leader /\ Leader \in Node /\ Kept(f) /\ TypeOK
      /\ Len(log[f]) \in Nat /\ commitIdx[f] \in Nat /\ base[f] \in Nat /\ lastApplied[f] \in Nat
      /\ commitIdx[Leader] \in Nat /\ Len(log[Leader]) \in Nat
  BY Constants, NodeTypes DEF SnapshotInv
<1>4. misled \subseteq misled' /\ misled' \subseteq misled \cup {f} /\ misled' \subseteq Follower
      /\ (f \notin misled' => f \notin misled /\ ~Misleads(f, m))
  BY <1>1, <1>3 DEF TypeOK
<1>5. PICK lg, c, ok, idx :
        /\ Answers(f, lg, c, ok, idx)
        /\ EntriesKnown(f, m) /\ ~Misleads(f, m) => AnswersTruly(f, lg, c, ok, idx)
  <2>1. CASE /\ PrevMissing(f, m) /\ UNCHANGED <<log, commitIdx>>
             /\ msgs' = Send({AppendReply(f, Term, FALSE, Len(log[f]))})
    BY <1>3, <2>1, EntryRefused
  <2>2. CASE /\ PrevConflicts(f, m) /\ UNCHANGED commitIdx
             /\ log' = [log EXCEPT ![f] = Prefix(@, m.prev.idx - 1)]
             /\ msgs' = Send({AppendReply(f, Term, FALSE, m.prev.idx - 1)})
    <3>1. ~(m.prev.idx <= commitIdx[f])
      BY <1>1, <2>2 DEF Shutdown
    <3> QED BY <1>2, <1>3, <2>2, <3>1, EntryDeleted
  <2>3. CASE /\ ~PrevMissing(f, m) /\ ~PrevConflicts(f, m)
             /\ log' = [log EXCEPT ![f] = Merge(f, m)]
             /\ FollowedCommit(f, m, log'[f]) <= Len(log'[f])
             /\ commitIdx' = [commitIdx EXCEPT ![f] = FollowedCommit(f, m, log'[f])]
             /\ msgs' = Send({AppendReply(f, Term, TRUE, m.prev.idx + Len(m.entries))})
    BY <1>1, <1>2, <1>3, <2>3, EntriesTaken
  <2> QED BY <2>1, <2>2, <2>3 DEF RecvAppendEntries
<1>6. /\ lg \in Seq(Entry \cup {Gone, Stray}) /\ Len(lg) \in Nat /\ c \in Nat /\ idx \in Nat
      /\ ok \in BOOLEAN
      /\ log' = [log EXCEPT ![f] = lg] /\ commitIdx' = [commitIdx EXCEPT ![f] = c]
      /\ msgs' = Send({AppendReply(f, Term, ok, idx)})
      /\ commitIdx[f] <= c /\ c <= Len(lg)
  BY <1>5 DEF Answers
<1>7. log'[f] = lg /\ commitIdx'[f] = c /\ \A x \in Node \ {f} : KeptNode(x)
  BY <1>1, <1>3, <1>6 DEF KeptNode, TypeOK
<1>8. TypeOK'
  <2>1. term' \in [Node -> {OldTerm, Term}] /\ savedTerm' \in [Node -> {OldTerm, Term}]
    BY <1>1, <1>3 DEF TypeOK
  <2> QED BY <1>1, <1>3, <1>4, <1>6, <2>1 DEF TypeOK
<1>9. LeaderGrows /\ Kept(f)'
  <2>1. KeptNode(Leader)
    BY <1>3, <1>7
  <2> QED BY <1>1, <1>3, <1>6, <1>7, <2>1 DEF KeptNode, LeaderGrows, Kept
<1>10. ASSUME f \notin misled'
       PROVE  Sound(f) /\ AnswersTruly(f, lg, c, ok, idx)
  BY <1>2, <1>4, <1>5, <1>10 DEF EntriesKnown
<1>11. ASSUME f \notin misled'
       PROVE  Sound(f)' /\ Behind(f)' /\ StaysTrue(f)
  <2>1. LogFollows(f)'
    BY <1>1, <1>3, <1>7, <1>10, <1>11 DEF LogFollows, StrayAt, AnswersTruly
  <2>2. CountersFollow(f)'
    BY <1>1, <1>3, <1>6, <1>7, <1>10, <1>11 DEF Sound, CountersFollow
  <2>3. MarksFollow(f)' /\ Applied(f)'
    BY <1>1, <1>3, <1>10, <1>11 DEF Sound, MarksFollow, Held, Applied
  <2>4. KeptNode(Leader)
    BY <1>3, <1>7
  <2>5. Behind(f)'
    BY <1>7, <1>10, <1>11, <2>4 DEF Behind, KeptNode, AnswersTruly
  <2>6. StaysTrue(f)
    BY <1>1, <1>7, <1>10, <1>11 DEF StaysTrue, HoldsTo, AnswersTruly
  <2> QED BY <2>1, <2>2, <2>3, <2>5, <2>6 DEF Sound
<1>12. \A k \in msgs' : k \in msgs \/ IsTrue(k)'
  <2>1. ASSUME NEW k \in msgs', k \notin msgs
        PROVE  IsTrue(k)'
    <3>1. PICK r : r = AppendReply(f, Term, ok, idx)
      OBVIOUS
    <3>2. msgs' = Send({r})
      BY <1>6, <3>1
    <3>3. k = AppendReply(f, Term, ok, idx)
      BY <2>1, <3>1, <3>2, Sending
    <3>4. k.type = "AppendEntriesResponse" /\ k.src = f /\ k.success = ok /\ k.idx = idx
      BY <3>3 DEF AppendReply
    <3>5. ok /\ f \notin misled' => HoldsTo(f, idx)'
      BY <1>1, <1>7, <1>10 DEF HoldsTo, AnswersTruly
    <3>6. ReplyIsTrue(k)'
      BY <1>6, <3>4, <3>5 DEF ReplyIsTrue
    <3> QED BY <3>6 DEF IsTrue
  <2> QED BY <2>1
<1>13. StepOf(f)
  BY <1>1, <1>3, <1>4, <1>7, <1>9, <1>11, <1>12 DEF StepOf, Progresses
<1> QED BY <1>8, <1>13, Preserved

----------------------------------------------------------------------------
LEMMA InitSnapshotInv ==
  ASSUME Init
  PROVE  SnapshotInv
<1> DEFINE Old(k) == [x \in 1 .. k |-> [term |-> OldTerm, id |-> x]]
<1>1. PICK have \in [Follower -> 0 .. Prior], stray \in SUBSET Follower, known \in 0 .. Prior :
        /\ \A f \in stray : have[f] < Prior
        /\ log = [n \in Node |-> IF n = Leader THEN Old(Prior)
                                 ELSE IF n \in stray THEN Append(Old(have[n]), Stray)
                                 ELSE Old(have[n])]
        /\ commitIdx = [n \in Node |-> IF n = Leader THEN known ELSE 0]
  <2>1. \E have \in [Follower -> 0 .. Prior], stray \in SUBSET Follower, c \in 0 .. Prior :
          /\ Cardinality(Node) \div 2 < 1 + Cardinality({f \in Follower : c <= have[f]})
          /\ \A f \in stray : have[f] < Prior
          /\ log = [n \in Node |-> IF n = Leader THEN Old(Prior)
                                   ELSE IF n \in stray THEN Append(Old(have[n]), Stray)
                                   ELSE Old(have[n])]
          /\ commitIdx = [n \in Node |-> IF n = Leader THEN c ELSE 0]
    BY Zenon DEF Init
  <2> HIDE DEF Old
  <2> QED BY <2>1, Zenon
<1>2. /\ term = [n \in Node |-> Term] /\ savedTerm = term
      /\ base = [n \in Node |-> 0] /\ snap = [n \in Node |-> NoMark] /\ saved = snap
      /\ taking = [n \in Node |-> "no"] /\ lastApplied = [n \in Node |-> 0]
      /\ fsm = [n \in Node |-> <<>>] /\ nextIdx = [f \in Follower |-> Prior + 1]
      /\ matchIdx = [f \in Follower |-> 0] /\ msgs = {} /\ misled = {}
  BY DEF Init
<1>3. ASSUME NEW k \in 0 .. Prior
      PROVE  /\ Old(k) \in Seq(Entry) /\ Len(Old(k)) = k
             /\ \A x \in 1 .. k : Old(k)[x] = EntryAt(x)
  <2>1. \A x \in 1 .. k : [term |-> OldTerm, id |-> x] = EntryAt(x) /\ EntryAt(x) \in Entry
    BY Constants, Entries DEF EntryAt
  <2> QED BY <2>1, Constants
<1> HIDE DEF Old
<1>4. ASSUME NEW n \in Node
      PROVE  /\ log[n] \in Seq(Entry \cup {Gone, Stray}) /\ Len(log[n]) \in Nat
             /\ Len(log[n]) <= Prior /\ (n = Leader => Len(log[n]) = Prior)
             /\ \A k \in 1 .. Len(log[n]) :
                  \/ log[n][k] = EntryAt(k)
                  \/ n # Leader /\ log[n][k] = Stray /\ k = Len(log[n])
  <2>1. CASE n = Leader
    <3>1. log[n] = Old(Prior) /\ Prior \in 0 .. Prior
      BY <1>1, <2>1, Constants
    <3> QED BY <1>3, <2>1, <3>1
  <2>2. CASE n # Leader
    <3>1. n \in Follower /\ have[n] \in 0 .. Prior
      BY <2>2, Constants DEF Node
    <3>2. PICK s : s = Old(have[n])
      OBVIOUS
    <3>3. /\ s \in Seq(Entry \cup {Gone, Stray}) /\ Len(s) = have[n]
          /\ \A x \in 1 .. Len(s) : s[x] = EntryAt(x)
      BY <1>3, <3>1, <3>2
    <3>4. CASE n \notin stray
      BY <1>1, <2>2, <3>1, <3>2, <3>3, <3>4, Constants
    <3>5. CASE n \in stray
      <4>1. log[n] = Append(s, Stray) /\ have[n] < Prior
        BY <1>1, <2>2, <3>2, <3>5
      <4>2. /\ log[n] \in Seq(Entry \cup {Gone, Stray}) /\ Len(log[n]) = Len(s) + 1
            /\ \A x \in 1 .. Len(s) : log[n][x] = s[x]
            /\ log[n][Len(s) + 1] = Stray
        BY <3>3, <4>1, AppendProperties
      <4> QED BY <2>2, <3>1, <3>3, <4>1, <4>2, Constants
    <3> QED BY <3>4, <3>5
  <2> QED BY <2>1, <2>2
<1>5. Leader \in Node /\ Follower \subseteq Node /\ Leader \notin Follower /\ Prior \in Nat /\ NoMark \in Mark /\ MarkAt(0) = NoMark
  BY Constants, Marks
<1>6. TypeOK
  <2>1. log \in [Node -> Seq(Entry \cup {Gone, Stray})]
    BY <1>1, <1>4
  <2> QED BY <1>1, <1>2, <1>5, <2>1 DEF TypeOK
<1>7. ASSUME NEW n \in Node
      PROVE  Sound(n) /\ Behind(n) /\ Kept(n)
  <2>1. /\ base[n] = 0 /\ lastApplied[n] = 0 /\ taking[n] = "no" /\ snap[n] = NoMark /\ fsm[n] = <<>>
        /\ commitIdx[n] = IF n = Leader THEN known ELSE 0
    BY <1>1, <1>2
  <2>2. LogFollows(n)
    BY <1>4, <2>1 DEF LogFollows, StrayAt
  <2>3. CountersFollow(n) /\ Behind(n) /\ Kept(n)
    BY <1>1, <1>4, <1>5, <2>1 DEF CountersFollow, Behind, Kept
  <2>4. MarksFollow(n)
    BY <1>5, <2>1 DEF MarksFollow, Held
  <2>5. Applied(n)
    BY <2>1 DEF Applied
  <2> QED BY <2>2, <2>3, <2>4, <2>5 DEF Sound
<1>8. ASSUME NEW f \in Follower
      PROVE  Acknowledged(f)
  <2>1. /\ f \in Node /\ nextIdx[f] = Prior + 1 /\ Len(log[Leader]) = Prior
        /\ matchIdx[f] = 0 /\ base[f] = 0 /\ Len(log[f]) \in Nat
    BY <1>2, <1>4, <1>5
  <2>2. HoldsTo(f, matchIdx[f])
    BY <2>1 DEF HoldsTo
  <2> QED BY <1>5, <2>1, <2>2 DEF Acknowledged
<1> QED BY <1>2, <1>4, <1>5, <1>6, <1>7, <1>8 DEF SnapshotInv

LEMMA StepSnapshotInv ==
  ASSUME SnapshotInv, [Next]_vars
  PROVE  SnapshotInv'
<1>1. CASE UNCHANGED vars
  <2>1. /\ UNCHANGED <<log, snapshots, commitIdx, applied, term, savedTerm, nextIdx, matchIdx, misled>>
        /\ msgs' = msgs
    BY <1>1 DEF vars, snapshots, applied
  <2>2. TypeOK'
    BY <2>1 DEF SnapshotInv, TypeOK, snapshots, applied
  <2>3. StepOf(Leader)
    <3>1. Leader \in Node \ misled
      BY LeaderIsNotMisled DEF SnapshotInv
    <3> QED BY <2>1, <3>1, NothingMoves DEF StepOf, Progresses
  <2> QED BY <2>2, <2>3, Preserved
<1>2. CASE \E cut \in 0 .. MaxLog : RecvEntry(cut) \/ LeaderPeriodic(cut)
  BY <1>2, RecvEntryKeeps, LeaderPeriodicKeeps
<1>3. CASE \E f \in Follower \cap Going : FollowerPeriodic(f)
  BY <1>3, FollowerPeriodicKeeps
<1>4. CASE \E f \in Follower \cap Going : \E m \in msgs :
             m.type # "AppendEntriesResponse" /\ m.dst = f
               /\ (RecvAppendEntries(f, m) \/ LoadSnapshot(f, m))
  BY <1>4, RecvAppendEntriesKeeps, LoadSnapshotKeeps
<1>5. CASE \E m \in msgs, cut \in 0 .. MaxLog : RecvAppendEntriesResponse(m, cut)
  BY <1>5, ResponseKeeps
<1>6. CASE \E n \in Going, how \in {"blocking", "nonblocking"} : BeginSnapshot(n, how)
  BY <1>6, BeginSnapshotKeeps DEF Going
<1>7. CASE \E n \in Going : CancelSnapshot(n) \/ EndSnapshot(n)
  BY <1>7, CancelSnapshotKeeps, EndSnapshotKeeps DEF Going
<1>8. CASE \E m \in msgs : Lose(m)
  BY <1>8, LoseKeeps
<1> QED BY <1>1, <1>2, <1>3, <1>4, <1>5, <1>6, <1>7, <1>8 DEF Next

LEMMA SnapshotInvHolds == Spec => []SnapshotInv
<1>1. Init => SnapshotInv
  BY InitSnapshotInv
<1>2. SnapshotInv /\ [Next]_vars => SnapshotInv'
  BY StepSnapshotInv
<1> QED BY <1>1, <1>2, PTL DEF Spec

\* Whether its entries came one by one or in a snapshot, every state machine has applied the
\* leader's entries, each once and in order, though its node worked on while it took a
\* snapshot: raft_begin_snapshot applies what is committed before it marks the snapshot,
\* raft_end_snapshot polls no more than that, and raft_begin_load_snapshot refuses a snapshot
\* that ends before the log does.
THEOREM MachinesApplyInOrder == Spec => []AppliedInOrder
<1>1. SnapshotInv => AppliedInOrder
  BY DEF SnapshotInv, Sound, Applied, AppliedInOrder
<1> QED BY <1>1, SnapshotInvHolds, PTL

\* What compaction leaves of a log is the leader's, but for the entry a follower held before
\* and has not committed: raft_recv_appendentries deletes it before it commits that far,
\* whatever prev_log_idx the leader could still look up.
THEOREM LogsAreTheLeaders == Spec => []LogIsTheLeaders
<1>1. SnapshotInv => LogIsTheLeaders
  BY DEF SnapshotInv, Sound, LogFollows, StrayAt, EntryAt, LogIsTheLeaders
<1> QED BY <1>1, SnapshotInvHolds, PTL

\* Only what was applied is compacted, only what is committed is applied and only what is
\* held is committed, and snapshot_last_idx stands for the last entry that went, through
\* raft_begin_snapshot, raft_cancel_snapshot, raft_end_snapshot and the loading of another,
\* whatever arrives in between.
THEOREM MarksKeepTheirOrder == Spec => []MarksInOrder
<1>1. ASSUME SnapshotInv PROVE MarksInOrder
  <2>1. ASSUME NEW n \in Node \ misled, base[n] > 0 PROVE Held(n).idx = base[n]
    BY <1>1, <2>1, NodeTypes, Marks DEF SnapshotInv, Sound, MarksFollow
  <2> QED BY <1>1, <2>1 DEF SnapshotInv, Sound, CountersFollow, MarksInOrder
<1> QED BY <1>1, SnapshotInvHolds, PTL

\* What raft_recv_appendentries_response counted towards a majority is still held by the
\* follower, in its log, where it is the leader's, or in its snapshot, and no follower commits
\* ahead of the leader.
THEOREM AcknowledgementsHold == Spec => []AcknowledgedIsHeld
<1>1. ASSUME SnapshotInv PROVE AcknowledgedIsHeld
  <2>1. ASSUME NEW f \in Follower \ misled
        PROVE  /\ matchIdx[f] <= Len(log[f]) /\ commitIdx[f] <= commitIdx[Leader]
               /\ \A k \in base[f] + 1 .. matchIdx[f] : log[f][k] # Stray
    <3>1. /\ f \in Node \ misled /\ HoldsTo(f, matchIdx[f]) /\ Behind(f) /\ base[f] \in Nat
          /\ matchIdx[f] \in Nat
      BY <1>1, Constants, NodeTypes DEF SnapshotInv, Acknowledged, TypeOK
    <3>2. \A k \in base[f] + 1 .. matchIdx[f] : k \in Nat \ {0}
      BY <3>1
    <3> QED BY <3>1, <3>2, Entries DEF HoldsTo, Behind
  <2> QED BY <2>1 DEF AcknowledgedIsHeld
<1> QED BY <1>1, SnapshotInvHolds, PTL

\* No message in flight, however old, makes raft_recv_appendentries return
\* RAFT_ERR_SHUTDOWN: what it calls "should never happen" does not, but for a message whose
\* entries the leader misplaced.
THEOREM NobodyShutsDown == Spec => []NoShutdown
<1>1. SnapshotInv => NoShutdown
  BY NeverShutsDown DEF NoShutdown
<1> QED BY <1>1, SnapshotInvHolds, PTL
=============================================================================

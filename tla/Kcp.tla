-------------------------------- MODULE Kcp --------------------------------
(***************************************************************************)
(* Two kcp connections (kcp/cc/ikcp.c, set up as kcp/cc/lkcp.c does: no    *)
(* congestion window) over a network that loses, duplicates and reorders.  *)
(* Time is abstracted: a segment may be due for another transmission at    *)
(* any flush, which covers the retransmission timeout and fast resend, and *)
(* a window probe may be due at any flush.  The segments of a datagram     *)
(* travel one by one.                                                      *)
(***************************************************************************)
EXTENDS Integers, Sequences, FiniteSets

CONSTANTS
  a, b,       \* the two ends
  SeqMod,     \* sequence numbers are counted modulo this (2^32)
  SndWnd,     \* snd_wnd
  RcvWnd,     \* rcv_wnd, and IKCP_WND_RCV, the limit of a message's fragments
  Start,      \* the number of the next segment: what came before was delivered
  Lengths,    \* the lengths of messages, in full segments
  Messages,   \* bound: how many messages a and b send, in all
  Duplicates, \* bound: whether the network delivers a packet twice
  MaxAcks,    \* bound: nothing is received while so many acks wait
  InFlight    \* bound: what is sent to a peer with this much under way is lost

ASSUME WindowAssumption ==
  /\ SndWnd \in Nat \ {0} /\ RcvWnd \in Nat \ {0}
  /\ SeqMod \in Nat /\ 2 * (SndWnd + RcvWnd) < SeqMod
  /\ Start \in 0 .. SeqMod - 1
ASSUME PeerAssumption == a # b
ASSUME BoundsAssumption ==
  Lengths \subseteq Nat /\ Duplicates \in BOOLEAN /\ MaxAcks \in Nat /\ InFlight \in Nat /\ Messages \in [{a, b} -> Nat]
\* Packets may stay under way forever, where those of a network are gone long before the
\* numbers come round: half of them are enough for all there is to send.
ASSUME NumbersAssumption ==
  \A p \in {a, b} : 2 * (Messages[p] * RcvWnd + RcvWnd + SndWnd) < SeqMod

Peer == {a, b}
Other(p) == IF p = a THEN b ELSE a

VARIABLES
  sndQueue, sndBuf,  \* segments to be numbered; segments not acknowledged
  sndUna, sndNxt, rmtWnd,
  rcvBuf, rcvQueue, rcvNxt,
  ackList, probing, tell, \* probe_wait # 0; IKCP_ASK_TELL
  net,
  sent, read         \* lengths of the messages, for what they promise together

sending == <<sndQueue, sndBuf, sndUna, sndNxt, rmtWnd, probing>>
receiving == <<rcvBuf, rcvQueue, rcvNxt>>
vars == <<sending, receiving, ackList, tell, net, sent, read>>

Plus(n, k) == (n + k) % SeqMod

\* _itimediff: the difference of two numbers as a signed integer.
Diff(later, earlier) ==
  LET d == (later - earlier) % SeqMod IN IF 2 * d < SeqMod THEN d ELSE d - SeqMod

Smaller(m, n) == IF m < n THEN m ELSE n

\* A message of n full segments; the empty message is one empty segment.  The
\* data of a segment is the message it is part of.
Fragments(msg, n) ==
  IF n = 0 THEN <<[msg |-> msg, frg |-> 0, len |-> 0]>>
  ELSE [k \in 1 .. n |-> [msg |-> msg, frg |-> n - k, len |-> 1]]

Init ==
  /\ sndQueue = [p \in Peer |-> <<>>] /\ sndBuf = [p \in Peer |-> {}]
  /\ sndUna = [p \in Peer |-> Start] /\ sndNxt = sndUna
  /\ rmtWnd = [p \in Peer |-> RcvWnd]
  /\ rcvBuf = [p \in Peer |-> {}] /\ rcvQueue = [p \in Peer |-> <<>>] /\ rcvNxt = sndUna
  /\ ackList = [p \in Peer |-> <<>>]
  /\ probing = [p \in Peer |-> FALSE] /\ tell = probing
  /\ net = {}
  /\ sent = [p \in Peer |-> <<>>] /\ read = [p \in Peer |-> <<>>]

----------------------------------------------------------------------------

\* ikcp_send, not in stream mode, of a message of n full segments.  A message of
\* RcvWnd fragments or more is refused, and lkcp.c does not tell.
Send(p, n) ==
  /\ Len(sent[p]) < Messages[p]
  /\ n < RcvWnd
  /\ sndQueue' = [sndQueue EXCEPT ![p] = @ \o Fragments(Len(sent[p]) + 1, n)]
  /\ sent' = [sent EXCEPT ![p] = Append(@, n)]
  /\ UNCHANGED <<sndBuf, sndUna, sndNxt, rmtWnd, probing, receiving, ackList, tell, net, read>>

\* Mutant: takes what there is for a message.
CanPeekAny(p) == rcvQueue[p] # <<>>

\* ikcp_peeksize finds a whole message.
CanPeek(p) == rcvQueue[p] # <<>> /\ Len(rcvQueue[p]) >= rcvQueue[p][1].frg + 1

\* Mutant: moves without looking for room.
MovableUnlimited(buf, queue, nxt) ==
  CHOOSE k \in 0 .. Cardinality(buf) :
    /\ \A j \in 0 .. k - 1 : \E s \in buf : s.sn = Plus(nxt, j)
    /\ ~\E s \in buf : s.sn = Plus(nxt, k)

\* What ikcp_recv and ikcp_parse_data move from rcv_buf to rcv_queue: the next
\* segments in order, while there is room.
Movable(buf, queue, nxt) ==
  CHOOSE k \in 0 .. RcvWnd - Len(queue) :
    /\ \A j \in 0 .. k - 1 : \E s \in buf : s.sn = Plus(nxt, j)
    /\ k = RcvWnd - Len(queue) \/ ~\E s \in buf : s.sn = Plus(nxt, k)
Moved(buf, nxt, k) ==
  [j \in 1 .. k |-> (CHOOSE s \in buf : s.sn = Plus(nxt, j - 1)).data]
MoveReceived(p, buf, queue) ==
  LET k == Movable(buf, queue, rcvNxt[p])
  IN  /\ rcvBuf' = [rcvBuf EXCEPT ![p] =
                      {s \in buf : Diff(s.sn, Plus(rcvNxt[p], k)) >= 0}]
      /\ rcvQueue' = [rcvQueue EXCEPT ![p] = queue \o Moved(buf, rcvNxt[p], k)]
      /\ rcvNxt' = [rcvNxt EXCEPT ![p] = Plus(@, k)]

\* How many segments ikcp_recv merges: up to the first that ends a message.
FirstMessage(queue) ==
  CHOOSE k \in DOMAIN queue :
    /\ queue[k].frg = 0 \/ k = Len(queue)
    /\ \A j \in 1 .. k - 1 : queue[j].frg # 0

\* The length of a message merged from these segments, if they are the ones it
\* was cut into; no length at all if they are not.
Merged(p, segments) ==
  LET n == IF segments[1].len = 0 THEN 0 ELSE Len(segments)
  IN  IF segments = Fragments(Len(read[p]) + 1, n) THEN n ELSE -1

\* ikcp_recv with a buffer that is long enough.  When the queue was full and is
\* not any more, the other end is told.
Recv(p) ==
  LET k == FirstMessage(rcvQueue[p])
  IN  /\ CanPeek(p)
      /\ MoveReceived(p, rcvBuf[p], SubSeq(rcvQueue[p], k + 1, Len(rcvQueue[p])))
      /\ tell' = [tell EXCEPT ![p] =
                    @ \/ (Len(rcvQueue[p]) >= RcvWnd /\ Len(rcvQueue'[p]) < RcvWnd)]
      /\ read' = [read EXCEPT ![Other(p)] = Append(@, Merged(Other(p), SubSeq(rcvQueue[p], 1, k)))]
      /\ UNCHANGED <<sending, ackList, net, sent>>

----------------------------------------------------------------------------
\* Mutant: the number the peer waits for is taken to have arrived.
UnacknowledgedPast(p, m) ==
  {s \in sndBuf[p] : Diff(m.una, s.sn) < 0 /\ ~(m.cmd = "ACK" /\ m.sn = s.sn)}

\* ikcp_parse_una and ikcp_parse_ack: what is left to be acknowledged.
Unacknowledged(p, m) ==
  {s \in sndBuf[p] : Diff(m.una, s.sn) <= 0 /\ ~(m.cmd = "ACK" /\ m.sn = s.sn)}

\* ikcp_shrink_buf.
FirstUnacknowledged(p, buf) ==
  IF buf = {} THEN sndNxt[p]
  ELSE (CHOOSE s \in buf : \A t \in buf : Diff(s.sn, t.sn) <= 0).sn

InputAcknowledges(p, m) ==
  /\ rmtWnd' = [rmtWnd EXCEPT ![p] = m.wnd]
  /\ sndBuf' = [sndBuf EXCEPT ![p] = Unacknowledged(p, m)]
  /\ sndUna' = [sndUna EXCEPT ![p] = FirstUnacknowledged(p, sndBuf'[p])]
  /\ UNCHANGED <<sndQueue, sndNxt, probing, sent, read>>

\* ikcp_parse_data of a segment inside the window.
ParseData(p, m) ==
  LET new == IF \E s \in rcvBuf[p] : s.sn = m.sn THEN {} ELSE {[sn |-> m.sn, data |-> m.data]}
  IN  MoveReceived(p, rcvBuf[p] \cup new, rcvQueue[p])

\* ikcp_input of one segment: a push is acknowledged unless it is beyond the window,
\* though it may have been received before.
InputPush(p, m) ==
  /\ m.cmd = "PUSH" /\ InputAcknowledges(p, m)
  /\ \/ /\ Diff(m.sn, Plus(rcvNxt[p], RcvWnd)) >= 0
        /\ UNCHANGED <<receiving, ackList>>
     \/ /\ Diff(m.sn, Plus(rcvNxt[p], RcvWnd)) < 0
        /\ ackList' = [ackList EXCEPT ![p] = Append(@, m.sn)]
        /\ IF Diff(m.sn, rcvNxt[p]) >= 0 THEN ParseData(p, m) ELSE UNCHANGED receiving
  /\ UNCHANGED tell
InputAck(p, m) ==
  /\ m.cmd = "ACK" /\ InputAcknowledges(p, m)
  /\ UNCHANGED <<receiving, ackList, tell>>
InputProbe(p, m) ==
  /\ m.cmd \in {"WASK", "WINS"} /\ InputAcknowledges(p, m)
  /\ tell' = [tell EXCEPT ![p] = @ \/ m.cmd = "WASK"]
  /\ UNCHANGED <<receiving, ackList>>

Input(p, m) ==
  /\ m \in net /\ m.dst = p /\ Len(ackList[p]) < MaxAcks
  /\ InputPush(p, m) \/ InputAck(p, m) \/ InputProbe(p, m)

----------------------------------------------------------------------------
\* ikcp_wnd_unused.
WndUnused(p) == IF Len(rcvQueue[p]) < RcvWnd THEN RcvWnd - Len(rcvQueue[p]) ELSE 0

\* How many segments move from snd_queue to snd_buf and are numbered.
Sendable(p) ==
  LET room == Diff(Plus(sndUna[p], Smaller(SndWnd, rmtWnd[p])), sndNxt[p])
  IN  IF room <= 0 THEN 0 ELSE Smaller(room, Len(sndQueue[p]))

Numbered(p, n) == {[sn |-> Plus(sndNxt[p], k - 1), data |-> sndQueue[p][k]] : k \in 1 .. n}

Packet(p, cmd, sn, data) ==
  [cmd |-> cmd, sn |-> sn, data |-> data, una |-> rcvNxt[p], wnd |-> WndUnused(p),
   dst |-> Other(p)]
NoData == [msg |-> 0, frg |-> 0, len |-> 0]

\* Mutant: a closed window is not probed.
PacketsWithoutProbe(p, due, probe) ==
  {Packet(p, "ACK", ackList[p][k], NoData) : k \in DOMAIN ackList[p]}
  \cup {Packet(p, "WINS", 0, NoData) : x \in {y \in {1} : tell[p]}}
  \cup {Packet(p, "PUSH", s.sn, s.data) : s \in due \cup Numbered(p, Sendable(p))}

\* What ikcp_flush hands to output: the acks, the probes, new segments up to the
\* window, and the segments that are due again.  A closed window is probed from
\* the second flush on.
Packets(p, due, probe) ==
  LET ask == rmtWnd[p] = 0 /\ probing[p] /\ probe
  IN    {Packet(p, "ACK", ackList[p][k], NoData) : k \in DOMAIN ackList[p]}
        \cup {Packet(p, "WASK", 0, NoData) : x \in {y \in {1} : ask}}
        \cup {Packet(p, "WINS", 0, NoData) : x \in {y \in {1} : tell[p]}}
        \cup {Packet(p, "PUSH", s.sn, s.data) : s \in due \cup Numbered(p, Sendable(p))}

\* ikcp_flush, by which some of the packets are lost at once.
Flush(p, due, probe, lost) ==
  LET n == Sendable(p)
  IN  /\ net' = net \cup (Packets(p, due, probe) \ lost)
      /\ Cardinality({m \in net' : m.dst # p}) <= InFlight
      /\ ackList' = [ackList EXCEPT ![p] = <<>>]
      /\ probing' = [probing EXCEPT ![p] = rmtWnd[p] = 0]
      /\ tell' = [tell EXCEPT ![p] = FALSE]
      /\ sndQueue' = [sndQueue EXCEPT ![p] = SubSeq(@, n + 1, Len(@))]
      /\ sndBuf' = [sndBuf EXCEPT ![p] = @ \cup Numbered(p, n)]
      /\ sndNxt' = [sndNxt EXCEPT ![p] = Plus(@, n)]
      /\ UNCHANGED <<sndUna, rmtWnd, receiving, sent, read>>

----------------------------------------------------------------------------
\* A packet is received, and may be received again, or lost.
Receive(m) == Input(m.dst, m) /\ net' \in {net \ {m}} \cup (IF Duplicates THEN {net} ELSE {})
Lose(m) ==
  /\ net' = net \ {m}
  /\ UNCHANGED <<sending, receiving, ackList, tell, sent, read>>

Next ==
  \/ \E p \in Peer :
       \/ \E n \in Lengths : Send(p, n)
       \/ Recv(p)
       \/ \E due \in SUBSET sndBuf[p], probe \in BOOLEAN :
            \E lost \in SUBSET Packets(p, due, probe) : Flush(p, due, probe, lost)
  \/ \E m \in net : Receive(m) \/ Lose(m)

Spec == Init /\ [][Next]_vars

----------------------------------------------------------------------------
Data == [msg : Nat, frg : 0 .. RcvWnd - 1, len : {0, 1}]
Segment == [sn : 0 .. SeqMod - 1, data : Data]

TypeOK ==
  /\ sndQueue \in [Peer -> Seq(Data)] /\ rcvQueue \in [Peer -> Seq(Data)]
  /\ \A p \in Peer : sndBuf[p] \subseteq Segment /\ rcvBuf[p] \subseteq Segment
  /\ sndUna \in [Peer -> 0 .. SeqMod - 1] /\ sndNxt \in [Peer -> 0 .. SeqMod - 1]
  /\ rcvNxt \in [Peer -> 0 .. SeqMod - 1] /\ rmtWnd \in [Peer -> 0 .. RcvWnd]
  /\ ackList \in [Peer -> Seq(0 .. SeqMod - 1)]
  /\ probing \in [Peer -> BOOLEAN] /\ tell \in [Peer -> BOOLEAN]
  /\ sent \in [Peer -> Seq(Nat)] /\ read \in [Peer -> Seq(Nat)]

\* A segment is forgotten by its sender only when the other end has it.
NothingForgotten ==
  \A p \in Peer : LET q == Other(p) IN
    /\ Diff(sndUna[p], rcvNxt[q]) <= RcvWnd /\ Diff(sndNxt[p], rcvNxt[q]) >= 0
    /\ \A k \in 0 .. Diff(sndNxt[p], rcvNxt[q]) - 1 :
         \E s \in sndBuf[p] \cup rcvBuf[q] : s.sn = Plus(rcvNxt[q], k)

\* Next to its types: the receiver holds at most a window in each of its two queues,
\* keeps back only what is out of order or finds the queue full, and never waits for the
\* rest of a message it has no room for.
ReceiveWindow ==
  /\ TypeOK
  /\ \A p \in Peer :
       /\ Len(rcvQueue[p]) <= RcvWnd
       /\ \A s \in rcvBuf[p] : Diff(s.sn, rcvNxt[p]) \in 0 .. RcvWnd - 1
       /\ \A s, t \in rcvBuf[p] : s.sn = t.sn => s = t
       /\ IF Len(rcvQueue[p]) = RcvWnd THEN CanPeek(p)
          ELSE \A s \in rcvBuf[p] : s.sn # rcvNxt[p]

\* The two connections are a channel of messages.
Channel == INSTANCE MessageChannel WITH Length <- Lengths
ImplementsChannel == Channel!Spec

----------------------------------------------------------------------------
\* The application calls ikcp_update over and over, by which a segment that stays
\* unacknowledged is due again and again, and reads what there is.  The network
\* loses, but not everything.
Fairness ==
  /\ \A p \in Peer : WF_vars(Recv(p))
  /\ \A p \in Peer :
       WF_vars(\E lost \in SUBSET Packets(p, sndBuf[p], TRUE) : Flush(p, sndBuf[p], TRUE, lost))
  /\ \A p \in Peer : SF_vars(Flush(p, sndBuf[p], TRUE, {}) /\ net # net')
  /\ \A p \in Peer : SF_vars(\E m \in net : m.dst = p /\ Input(p, m) /\ net' = net \ {m})
LiveSpec == Spec /\ Fairness

\* Everything that is sent is read, though the window closes in between.
EverythingArrives == \A p \in Peer : []<>(Len(read[p]) = Len(sent[p]))

----------------------------------------------------------------------------
\* For TLC: one side sends.
OneSender == [p \in Peer |-> IF p = a THEN 2 ELSE 0]
=============================================================================

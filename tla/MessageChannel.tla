--------------------------- MODULE MessageChannel ---------------------------
(***************************************************************************)
(* What a pair of kcp connections promises: every message that was sent    *)
(* is read whole by the other side, once, and in the order of sending.     *)
(***************************************************************************)
EXTENDS Integers, Sequences

CONSTANTS Peer, Length
VARIABLES sent, read  \* lengths of the messages sent by, and read from, each peer

Init == sent = [p \in Peer |-> <<>>] /\ read = [p \in Peer |-> <<>>]

Send(p, n) == sent' = [sent EXCEPT ![p] = Append(@, n)] /\ UNCHANGED read

Read(p) ==
  /\ Len(read[p]) < Len(sent[p])
  /\ read' = [read EXCEPT ![p] = Append(@, sent[p][Len(@) + 1])]
  /\ UNCHANGED sent

Next == \E p \in Peer : Read(p) \/ \E n \in Length : Send(p, n)

Spec == Init /\ [][Next]_<<sent, read>>
=============================================================================

------------------------------ MODULE EntryLog ------------------------------
(***************************************************************************)
(* What raft_server.c expects of its log: a sequence of entries after a    *)
(* base index, that grows at the end, is cut back at the end and is        *)
(* compacted at the front.                                                 *)
(***************************************************************************)
EXTENDS Integers, Sequences

CONSTANT Entry
VARIABLES base, entries

Init == base = 0 /\ entries = <<>>

\* log_append_entry.
Offer(e) == entries' = Append(entries, e) /\ UNCHANGED base

\* log_delete: any number of the youngest entries.
Pop == \E n \in 0 .. Len(entries) : entries' = SubSeq(entries, 1, n) /\ UNCHANGED base

\* log_poll.
Poll == entries # <<>> /\ entries' = Tail(entries) /\ base' = base + 1

\* log_load_from_snapshot: nothing is left but the index of the snapshot.
Load == base' \in Nat /\ base' >= base + Len(entries) /\ entries' = <<>>

Next ==
  \/ \E e \in Entry : Offer(e)
  \/ Pop
  \/ Poll
  \/ Load

Spec == Init /\ [][Next]_<<base, entries>>
=============================================================================

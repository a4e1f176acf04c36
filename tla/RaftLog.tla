------------------------------ MODULE RaftLog -------------------------------
(***************************************************************************)
(* The circular array of raft/raft/raft_log.c.  Each action is one of its  *)
(* functions with the calls the server makes of it; the callbacks          *)
(* log_offer, log_pop and log_poll may fail.  It implements EntryLog.      *)
(***************************************************************************)
EXTENDS Integers, Sequences

CONSTANTS
  Entry,
  Blank,            \* a slot as __raft_calloc leaves it
  InitialCapacity,  \* INITIAL_CAPACITY
  MaxIdx            \* bound: no entry is offered, no snapshot loaded beyond it

ASSUME CapacityAssumption == InitialCapacity \in Nat \ {0}
ASSUME BlankAssumption == Blank \notin Entry
ASSUME MaxIdxAssumption == MaxIdx \in Nat

VARIABLES size, count, front, back, base, slots

vars == <<size, count, front, back, base, slots>>

----------------------------------------------------------------------------
At(k) == slots[(front + k) % size]

\* The entries as the server sees them.
Entries == [k \in 1 .. count |-> At(k - 1)]

CurrentIdx == base + count

Init ==
  /\ size = InitialCapacity
  /\ slots = [k \in 0 .. InitialCapacity - 1 |-> Blank]
  /\ count = 0 /\ front = 0 /\ back = 0 /\ base = 0

\* Mutant: copies the array as it lies.
CopiedFlat == [k \in 0 .. 2 * size - 1 |-> IF k < count THEN slots[k] ELSE Blank]

\* The array of twice the size, the entries moved to its start.
Unrolled == [k \in 0 .. 2 * size - 1 |-> IF k < count THEN At(k) ELSE Blank]

\* log_append_entry: __ensurecapacity, then the entry is written, then offered;
\* one that log_offer refuses stays written but is not counted.
Offer(e, refused) ==
  LET grows == count >= size
      to == IF grows THEN count ELSE back
  IN  /\ CurrentIdx < MaxIdx
      /\ size' = IF grows THEN 2 * size ELSE size
      /\ front' = IF grows THEN 0 ELSE front
      /\ slots' = [IF grows THEN Unrolled ELSE slots EXCEPT ![to] = e]
      /\ IF refused
         THEN back' = to /\ UNCHANGED count
         ELSE back' = (to + 1) % size' /\ count' = count + 1
      /\ UNCHANGED base

\* How many entries log_delete(idx) takes off the end.
PoppedFrom(idx) ==
  IF idx > CurrentIdx THEN 0
  ELSE IF idx <= base THEN count ELSE CurrentIdx - idx + 1

\* Mutant: the position of the end is forgotten.
DeleteCountOnly(idx, n) ==
  /\ n \in 0 .. PoppedFrom(idx)
  /\ count' = count - n
  /\ UNCHANGED <<size, front, back, base, slots>>

\* log_delete, stopped after n entries when log_pop fails.
Delete(idx, n) ==
  /\ n \in 0 .. PoppedFrom(idx)
  /\ count' = count - n
  /\ back' = (back - n) % size
  /\ UNCHANGED <<size, front, base, slots>>

\* Mutant: the front runs off the array.
PollUnwrapped ==
  /\ count > 0
  /\ front' = front + 1
  /\ count' = count - 1
  /\ base' = base + 1
  /\ UNCHANGED <<size, back, slots>>

\* log_poll (raft_poll_entry).
Poll ==
  /\ count > 0
  /\ front' = (front + 1) % size
  /\ count' = count - 1
  /\ base' = base + 1
  /\ UNCHANGED <<size, back, slots>>

\* log_load_from_snapshot; raft_begin_load_snapshot calls it with an index not
\* below the current one.
LoadFromSnapshot(idx) ==
  /\ idx >= CurrentIdx /\ idx > 0
  /\ count' = 0 /\ front' = 0 /\ back' = 0
  /\ base' = idx
  /\ UNCHANGED <<size, slots>>

Next ==
  \/ \E e \in Entry, refused \in BOOLEAN : Offer(e, refused)
  \/ \E idx \in 1 .. MaxIdx : \E n \in 0 .. count : Delete(idx, n)
  \/ Poll
  \/ \E idx \in 1 .. MaxIdx : LoadFromSnapshot(idx)

Spec == Init /\ [][Next]_vars

----------------------------------------------------------------------------
\* Mutant: one entry too few.
GetShort(idx) ==
  LET i == (front + idx - 1 - base) % size
      n == IF i < back THEN back - i - 1 ELSE size - i
  IN  IF idx > CurrentIdx \/ idx <= base THEN <<>>
      ELSE [k \in 1 .. n |-> slots[i + k - 1]]

\* log_get_from_idx: the entries from idx on that lie in one piece.
GetFromIdx(idx) ==
  LET i == (front + idx - 1 - base) % size
      n == IF i < back THEN back - i ELSE size - i
  IN  IF idx > CurrentIdx \/ idx <= base THEN <<>>
      ELSE [k \in 1 .. n |-> slots[i + k - 1]]

----------------------------------------------------------------------------
TypeOK ==
  /\ size \in Nat \ {0} /\ count \in 0 .. size
  /\ front \in 0 .. size - 1 /\ back \in 0 .. size - 1 /\ base \in Nat
  /\ slots \in [0 .. size - 1 -> Entry \cup {Blank}]

\* The two ends agree with the count, through growth, deletions and compaction,
\* and no entry counted was never written: what __ensurecapacity, log_delete and
\* log_poll keep separately.
Ring ==
  /\ back = (front + count) % size
  /\ \A k \in 0 .. count - 1 : At(k) # Blank

\* log_get_from_idx hands raft_send_appendentries live entries only, in order and
\* at least one whenever there is one, though the array may have wrapped; and as
\* long as nothing was compacted, the whole rest of the log, which is what module
\* Raft takes for granted.
ReadsAreEntries ==
  \A idx \in 1 .. MaxIdx :
    LET got == GetFromIdx(idx)
        rest == SubSeq(Entries, idx - base, count)
    IN  IF idx \in base + 1 .. CurrentIdx
        THEN /\ Len(got) \in 1 .. Len(rest)
             /\ got = SubSeq(rest, 1, Len(got))
             /\ front = 0 => got = rest
        ELSE got = <<>>

\* The array is a sequence: every function of raft_log.c is one step of EntryLog.
Sequence == INSTANCE EntryLog WITH entries <- Entries
ImplementsEntryLog == Sequence!Spec
=============================================================================

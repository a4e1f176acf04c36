---------------------------- MODULE ParallelSet ----------------------------
(***************************************************************************)
(* parallel_hashmap/phmap.h, parallel_hash_set and parallel_hash_map: a    *)
(* container in parts, each with a lock of its own (phmap_base.h), that    *)
(* many threads call.  A call about one key locks the part of the key; one *)
(* about all keys locks the parts one after another.  What a thread reads  *)
(* under a lock and what it writes under it are two steps.  The parts are  *)
(* the tables of SwissTable.                                               *)
(* Mutex is "null" (phmap::NullMutex, for one thread), "plain" (std::mutex)*)
(* or "shared" (std::shared_mutex).                                        *)
(***************************************************************************)
EXTENDS Integers, TLAPS

CONSTANTS Thread, Key, MaxValue, Mutex,
          Calls,       \* Thread -> the calls it makes
          Start,       \* what the maps hold in the beginning
          num_tables,  \* parts of a map
          subidx       \* Key -> the part it belongs to

Map == {1, 2}
Parts == 0 .. num_tables - 1

VARIABLES sets,  \* Map -> Key -> value
          held,  \* Thread -> the parts it holds, <<map, part>>, to read and to write
          calls  \* Thread -> its call, where it is, at which part, what it saw, its answer

vars == <<sets, held, calls>>

KeysOf(c) == IF "key" \in DOMAIN c THEN {c.key} ELSE Key

\* The keys a call has not treated yet, and what its thread asked the maps for.
Left(r) == IF r.at \in {"idle", "done"} THEN {} ELSE {k \in KeysOf(r.call) : subidx[k] >= r.part}
Asked(r) == [call |-> r.call, answer |-> r.answer, left |-> Left(r)]

\* What the calls do, and the maps whose calls are atomic.
Atomic == INSTANCE AtomicMaps WITH content <- sets, asked <- [t \in Thread |-> Asked(calls[t])]

Nothing == [read |-> {}, write |-> {}]
Idle == [call |-> Atomic!NoCall, at |-> "idle", part |-> 0, saw |-> <<>>, answer |-> {}]

Init ==
  /\ sets \in Start
  /\ held = [t \in Thread |-> Nothing]
  /\ calls = [t \in Thread |-> Idle]

----------------------------------------------------------------------------
\* The locks of phmap_base.h.  A part is free to read when nobody writes it, and free to
\* write when nobody has it.
FreeToRead(i) == Mutex = "null" \/ \A u \in Thread : i \notin held[u].write
FreeToWrite(i) == Mutex = "null" \/ \A u \in Thread : i \notin held[u].write \cup held[u].read

Reads(op) == op \in {"if_contains", "find", "for_each", "equal"}
OneAfterTheOther(op) == op = "swap" \/ (op = "equal" /\ Mutex = "shared")
Both(op) == op = "merge" \/ (op = "equal" /\ Mutex = "plain")
Erases(op) == op \in {"erase_if", "erase"}

\* SharedLock and ReadWriteLock are WriteLocks when the mutex cannot be shared.
WriteLock(t, parts) ==
  /\ \A i \in parts : FreeToWrite(i)
  /\ held' = [held EXCEPT ![t].write = @ \cup parts]
ReadLock(t, i) ==
  IF Mutex = "shared"
  THEN FreeToRead(i) /\ held' = [held EXCEPT ![t].read = @ \cup {i}]
  ELSE WriteLock(t, {i})

Here(t) == <<calls[t].call.on, calls[t].part>>
There(t) == <<calls[t].call.with, calls[t].part>>
KeysHere(t) == {k \in KeysOf(calls[t].call) : subidx[k] = calls[t].part}
Saw(t) == [k \in KeysHere(t) |-> <<sets[calls[t].call.on][k], sets[calls[t].call.with][k]>>]

GoTo(t, at) == calls' = [calls EXCEPT ![t].at = at, ![t].saw = IF at = "held" THEN Saw(t) ELSE <<>>]

Ask(t) ==
  /\ calls[t].at = "idle"
  /\ \E c \in Calls[t] :
       calls' = [calls EXCEPT ![t] = [call |-> c, at |-> "lock", saw |-> <<>>, answer |-> {},
                                      part |-> IF "key" \in DOMAIN c THEN subidx[c.key] ELSE 0]]
  /\ UNCHANGED <<sets, held>>

\* The part is locked, and looked at.
Lock(t) ==
  LET op == calls[t].call.op
  IN  /\ calls[t].at = "lock" /\ op \notin {"size", "if_contains_unsafe"}
      /\ IF Both(op) THEN WriteLock(t, {Here(t), There(t)})
         ELSE IF Reads(op) \/ Erases(op) THEN ReadLock(t, Here(t))
         ELSE WriteLock(t, {Here(t)})
      /\ GoTo(t, IF OneAfterTheOther(op) THEN "second"
                 ELSE IF Erases(op) /\ Mutex = "shared" /\ Saw(t)[calls[t].call.key][1] # Atomic!NotThere THEN "switch"
                 ELSE "held")
      /\ UNCHANGED sets

LockSecond(t) ==
  /\ calls[t].at = "second"
  /\ IF calls[t].call.op = "equal" THEN ReadLock(t, There(t)) ELSE WriteLock(t, {There(t)})
  /\ GoTo(t, "held")
  /\ UNCHANGED sets

\* ReadWriteLock::switch_to_unique lets go of the part before it locks it to write; the
\* key is looked up again.
Unlock(t) ==
  /\ calls[t].at = "switch"
  /\ held' = [held EXCEPT ![t] = Nothing]
  /\ GoTo(t, "unlocked")
  /\ UNCHANGED sets
LockAgain(t) ==
  /\ calls[t].at = "unlocked"
  /\ WriteLock(t, {Here(t)})
  /\ GoTo(t, "held")
  /\ UNCHANGED sets

\* The call is done with the part, by what it saw there, and goes on to the next.
Finish(t, saw) ==
  LET answer == Atomic!Answer(calls[t].call, calls[t].answer, saw)
      last == "key" \in DOMAIN calls[t].call \/ calls[t].part = num_tables - 1 \/ Atomic!Ends(calls[t].call, answer)
  IN  calls' = [calls EXCEPT ![t].answer = answer, ![t].saw = <<>>, ![t].at = IF last THEN "done" ELSE "lock",
                             ![t].part = IF last THEN 0 ELSE @ + 1]

Work(t) ==
  LET c == calls[t].call
      saw == calls[t].saw
      made == [k \in DOMAIN saw |-> Atomic!Effect(c, saw[k][1], saw[k][2])]
      With(set, i) == [k \in Key |-> IF k \in DOMAIN made THEN made[k][i] ELSE set[k]]
  IN  /\ calls[t].at = "held"
      /\ sets' = IF Reads(c.op) THEN sets
                 ELSE IF c.op \in {"merge", "swap"}
                 THEN [sets EXCEPT ![c.on] = With(@, 1), ![c.with] = With(@, 2)]
                 ELSE [sets EXCEPT ![c.on] = With(@, 1)]
      /\ held' = [held EXCEPT ![t] = Nothing]
      /\ Finish(t, saw)

\* size() and if_contains_unsafe() lock nothing.
Look(t) ==
  /\ calls[t].at = "lock" /\ calls[t].call.op \in {"size", "if_contains_unsafe"}
  /\ Finish(t, Saw(t))
  /\ UNCHANGED <<sets, held>>

Return(t) ==
  /\ calls[t].at = "done"
  /\ calls' = [calls EXCEPT ![t] = Idle]
  /\ UNCHANGED <<sets, held>>

Next == \E t \in Thread :
  Ask(t) \/ Lock(t) \/ LockSecond(t) \/ Unlock(t) \/ LockAgain(t) \/ Work(t) \/ Look(t) \/ Return(t)

Spec == Init /\ [][Next]_vars

----------------------------------------------------------------------------
\* The types of the variables.
TypeOK ==
  /\ sets \in [Map -> [Key -> Atomic!Values]]
  /\ \A t \in Thread :
       /\ held[t].read \subseteq Map \X Parts /\ held[t].write \subseteq Map \X Parts
       /\ calls[t].call \in Calls[t] \cup {Atomic!NoCall} /\ calls[t].part \in Parts
       /\ calls[t].at \in {"idle", "lock", "second", "switch", "unlocked", "held", "done"}

\* Each call treats each of its keys once, at one moment while it runs, and answers by
\* what was there at that moment, although erase lets go of its lock in between and a
\* call about all keys holds one part at a time (phmap.h, erase_if_impl and for_each).
ImplementsAtomicMaps == Atomic!Spec

Waits(t) ==
  \/ calls[t].at \in {"lock", "second", "unlocked"} /\ ~ENABLED (Lock(t) \/ LockSecond(t) \/ LockAgain(t) \/ Look(t))
Opposite(t, u) ==
  /\ {calls[t].at, calls[u].at} = {"second"} /\ "swap" \in {calls[t].call.op, calls[u].call.op}
  /\ calls[t].call.on = calls[u].call.with
\* Threads wait for each other for ever only when two of them lock two maps in opposite
\* orders, as swap and operator== do and merge does not (phmap.h, swap and merge).
StuckOnlyBySwaps ==
  (\A t \in Thread : Waits(t)) => \E t, u \in Thread : Opposite(t, u)

----------------------------------------------------------------------------
(***************************************************************************)
(* For any threads, calls, keys and parts: what a call sees under its lock *)
(* is what is there when it works, since nobody else holds to write what a *)
(* call holds (LockInv); so its work on a part is one step of AtomicMaps.  *)
(***************************************************************************)

\* The calls are about two maps and keys of these; a mutex that locks nothing is for one
\* thread (phmap.h: NullMutex is the default, and means no synchronisation).
ProperUse ==
  /\ num_tables \in Nat \ {0} /\ subidx \in [Key -> Parts]
  /\ \A s \in Start : s = [m \in Map |-> [k \in Key |-> s[m][k]]]
  /\ \A t \in Thread : \A c \in Calls[t] :
       /\ c # Atomic!NoCall
       /\ c.on \in Map /\ c.with \in Map /\ c.on # c.with
       /\ "key" \in DOMAIN c => c.key \in Key
       /\ Erases(c.op) => "key" \in DOMAIN c
  /\ Mutex \in {"null", "plain", "shared"}
  /\ Mutex = "null" => \A t, u \in Thread : t = u

Running == {"lock", "second", "switch", "unlocked", "held"}
TwoMaps(op) == op \in {"merge", "swap", "equal"}
About(t) == {Here(t)} \cup (IF TwoMaps(calls[t].call.op) THEN {There(t)} ELSE {})

Shape ==
  /\ sets = [m \in Map |-> [k \in Key |-> sets[m][k]]]
  /\ held = [t \in Thread |-> [read |-> held[t].read, write |-> held[t].write]]
  /\ calls = [t \in Thread |-> [call |-> calls[t].call, at |-> calls[t].at, part |-> calls[t].part,
                                saw |-> calls[t].saw, answer |-> calls[t].answer]]

\* Where a call is.
Proper(t) ==
  LET c == calls[t].call
  IN  /\ calls[t].at \in Running \cup {"idle", "done"}
      /\ calls[t].at = "idle" => calls[t] = Idle
      /\ calls[t].at # "idle" => c \in Calls[t]
      /\ calls[t].at \in Running =>
           /\ calls[t].part \in Parts
           /\ "key" \in DOMAIN c => calls[t].part = subidx[c.key]
           /\ ~Atomic!Ends(c, calls[t].answer)
      /\ calls[t].at = "second" => OneAfterTheOther(c.op)
      /\ calls[t].at \in {"switch", "unlocked"} => Erases(c.op)

\* What it saw of the part is what is there.
Sees(t) ==
  calls[t].at = "held" =>
    /\ DOMAIN calls[t].saw = KeysHere(t)
    /\ \A k \in KeysHere(t) :
         /\ calls[t].saw[k][1] = sets[calls[t].call.on][k]
         /\ TwoMaps(calls[t].call.op) => calls[t].saw[k][2] = sets[calls[t].call.with][k]

\* What it holds: to write what it may change.
Holds(t) ==
  /\ calls[t].at = "second" =>
       /\ Here(t) \in held[t].read \cup held[t].write
       /\ calls[t].call.op = "swap" => Here(t) \in held[t].write
  /\ calls[t].at = "held" =>
       /\ About(t) \subseteq held[t].read \cup held[t].write
       /\ \/ Reads(calls[t].call.op)
          \/ About(t) \subseteq held[t].write
          \/ Erases(calls[t].call.op) /\ \A k \in KeysHere(t) : calls[t].saw[k][1] = Atomic!NotThere

Exclusive == \A t, u \in Thread : t # u => held[t].write \cap (held[u].read \cup held[u].write) = {}

LockInv ==
  /\ Shape
  /\ \A t \in Thread : Proper(t) /\ Sees(t)
  /\ Mutex # "null" => Exclusive /\ \A t \in Thread : Holds(t)

\* What a call does to one key: only a merge and a swap touch the other map, and only they
\* and a comparison look at it.
LEMMA EffectIs ==
  ASSUME NEW c, NEW x, NEW y
  PROVE  /\ Atomic!Effect(c, x, y)[2] = y \/ c.op \in {"merge", "swap"}
         /\ c.op \in {"merge", "swap"} \/ \A z : Atomic!Effect(c, x, z)[1] = Atomic!Effect(c, x, y)[1]
         /\ Reads(c.op) \/ c.op \in {"size", "if_contains_unsafe"} => Atomic!Effect(c, x, y) = <<x, y>>
         /\ Erases(c.op) /\ x = Atomic!NotThere => Atomic!Effect(c, x, y) = <<x, y>>
  BY SMTT(60) DEF Reads, Erases, Atomic!Effect, Atomic!IfContains, Atomic!Find, Atomic!ModifyIf, Atomic!LazyEmplaceL,
    Atomic!TryEmplaceL, Atomic!InsertOrAssign, Atomic!Emplace, Atomic!TryEmplace, Atomic!EmplaceSingle, Atomic!Insert,
    Atomic!EraseIf, Atomic!Erase, Atomic!Clear, Atomic!Merge, Atomic!Swap, Atomic!NotThere
LEMMA RecordsAre ==
  ASSUME NEW c, NEW x, NEW p, NEW s, NEW w, NEW v
  PROVE  /\ [[call |-> c, at |-> x, part |-> p, saw |-> s, answer |-> w] EXCEPT !.at = v] = [call |-> c, at |-> v, part |-> p, saw |-> s, answer |-> w]
         /\ [[call |-> c, at |-> x, part |-> p, saw |-> s, answer |-> w] EXCEPT !.part = v] = [call |-> c, at |-> x, part |-> v, saw |-> s, answer |-> w]
         /\ [[call |-> c, at |-> x, part |-> p, saw |-> s, answer |-> w] EXCEPT !.saw = v] = [call |-> c, at |-> x, part |-> p, saw |-> v, answer |-> w]
         /\ [[call |-> c, at |-> x, part |-> p, saw |-> s, answer |-> w] EXCEPT !.answer = v] = [call |-> c, at |-> x, part |-> p, saw |-> s, answer |-> v]
  <1>1. [[call |-> c, at |-> x, part |-> p, saw |-> s, answer |-> w] EXCEPT !.at = v] = [call |-> c, at |-> v, part |-> p, saw |-> s, answer |-> w]
    BY Z3
  <1>2. [[call |-> c, at |-> x, part |-> p, saw |-> s, answer |-> w] EXCEPT !.part = v] = [call |-> c, at |-> x, part |-> v, saw |-> s, answer |-> w]
    BY Z3
  <1>3. [[call |-> c, at |-> x, part |-> p, saw |-> s, answer |-> w] EXCEPT !.saw = v] = [call |-> c, at |-> x, part |-> p, saw |-> v, answer |-> w]
    BY Z3
  <1>4. [[call |-> c, at |-> x, part |-> p, saw |-> s, answer |-> w] EXCEPT !.answer = v] = [call |-> c, at |-> x, part |-> p, saw |-> s, answer |-> v]
    BY Z3
  <1> QED BY <1>1, <1>2, <1>3, <1>4

LEMMA GoToIs ==
  ASSUME Shape, NEW t \in Thread, NEW at, GoTo(t, at)
  PROVE  calls' = [calls EXCEPT ![t] = [call |-> calls[t].call, at |-> at, part |-> calls[t].part,
                                        saw |-> IF at = "held" THEN Saw(t) ELSE <<>>, answer |-> calls[t].answer]]
  <1> DEFINE a == calls[t]
             s == IF at = "held" THEN Saw(t) ELSE <<>>
             b == [call |-> a.call, at |-> at, part |-> a.part, saw |-> a.saw, answer |-> a.answer]
  <1>1. a = [call |-> a.call, at |-> a.at, part |-> a.part, saw |-> a.saw, answer |-> a.answer]
    BY DEF Shape
  <1>2. calls' = [[calls EXCEPT ![t] = [a EXCEPT !.at = at]] EXCEPT ![t] = [[a EXCEPT !.at = at] EXCEPT !.saw = s]]
    BY DEF GoTo, Shape
  <1> HIDE DEF s, a
  <1>3. [a EXCEPT !.at = at] = b
    BY ONLY <1>1, RecordsAre
  <1>4. [b EXCEPT !.saw = s] = [call |-> a.call, at |-> at, part |-> a.part, saw |-> s, answer |-> a.answer]
    BY ONLY RecordsAre
  <1>5. calls' = [[calls EXCEPT ![t] = b] EXCEPT ![t] = [call |-> a.call, at |-> at, part |-> a.part, saw |-> s, answer |-> a.answer]]
    BY ONLY <1>2, <1>3, <1>4
  <1> HIDE DEF b
  <1> QED BY <1>5 DEF s, a

LEMMA LocksAre ==
  ASSUME Shape, NEW t \in Thread
  PROVE  /\ \A S : WriteLock(t, S) =>
              /\ held' = [held EXCEPT ![t] = [read |-> held[t].read, write |-> held[t].write \cup S]]
              /\ Mutex # "null" => \A u \in Thread : S \cap (held[u].read \cup held[u].write) = {}
         /\ \A i : ReadLock(t, i) =>
              \/ WriteLock(t, {i})
              \/ /\ Mutex = "shared"
                 /\ held' = [held EXCEPT ![t] = [read |-> held[t].read \cup {i}, write |-> held[t].write]]
                 /\ \A u \in Thread : i \notin held[u].write
  BY DEF Shape, WriteLock, ReadLock, FreeToRead, FreeToWrite

\* A step of one thread that changes no map.
LEMMA OneThread ==
  ASSUME LockInv, sets' = sets, NEW t \in Thread, NEW r, NEW h,
         calls' = [calls EXCEPT ![t] = r], held' = [held EXCEPT ![t] = h],
         r = [call |-> r.call, at |-> r.at, part |-> r.part, saw |-> r.saw, answer |-> r.answer],
         h = [read |-> h.read, write |-> h.write],
         Proper(t)', Sees(t)',
         Mutex # "null" =>
           /\ Holds(t)'
           /\ \A u \in Thread \ {t} : /\ h.write \cap (held[u].read \cup held[u].write) = {}
                                      /\ held[u].write \cap (h.read \cup h.write) = {}
  PROVE  LockInv'
  <1>1. Shape'
    BY DEF LockInv, Shape
  <1>2. calls'[t] = r /\ held'[t] = h /\ \A u \in Thread \ {t} : calls'[u] = calls[u] /\ held'[u] = held[u]
    BY DEF LockInv, Shape
  <1>3. ASSUME NEW u \in Thread
        PROVE  Proper(u)' /\ Sees(u)' /\ (Mutex # "null" => Holds(u)')
    <2>1. CASE u = t
      BY <2>1
    <2>2. CASE u # t
      <3>1. calls'[u] = calls[u] /\ held'[u] = held[u]
        BY <1>2, <2>2
      <3>2. Here(u)' = Here(u) /\ There(u)' = There(u) /\ KeysHere(u)' = KeysHere(u) /\ About(u)' = About(u)
        BY <3>1 DEF Here, There, KeysHere, About
      <3>3. Proper(u)'
        BY <3>1 DEF LockInv, Proper
      <3>4. Sees(u)'
        BY <3>1, <3>2 DEF LockInv, Sees
      <3>5. Mutex # "null" => Holds(u)'
        BY <3>1, <3>2 DEF LockInv, Holds
      <3> QED BY <3>3, <3>4, <3>5
    <2> QED BY <2>1, <2>2
  <1>4. Mutex # "null" => Exclusive'
    <2> SUFFICES ASSUME Mutex # "null", NEW a \in Thread, NEW b \in Thread, a # b
                 PROVE  held'[a].write \cap (held'[b].read \cup held'[b].write) = {}
      BY DEF Exclusive
    <2>1. held[a].write \cap (held[b].read \cup held[b].write) = {}
      BY DEF LockInv, Exclusive
    <2>2. CASE a = t
      BY <1>2, <2>2
    <2>3. CASE b = t
      BY <1>2, <2>3
    <2>4. CASE a # t /\ b # t
      BY <1>2, <2>1, <2>4
    <2> QED BY <2>2, <2>3, <2>4
  <1> QED BY <1>1, <1>3, <1>4 DEF LockInv

\* What is seen now is what is there now.
LEMMA SawIs ==
  ASSUME NEW t \in Thread
  PROVE  /\ DOMAIN Saw(t) = KeysHere(t)
         /\ \A k \in KeysHere(t) : /\ Saw(t)[k][1] = sets[calls[t].call.on][k]
                                   /\ Saw(t)[k][2] = sets[calls[t].call.with][k]
  BY DEF Saw

LEMMA AskKeeps ==
  ASSUME ProperUse, LockInv, NEW t \in Thread, Ask(t)
  PROVE  LockInv'
  <1>1. PICK c \in Calls[t] :
          calls' = [calls EXCEPT ![t] = [call |-> c, at |-> "lock", saw |-> <<>>, answer |-> {},
                                         part |-> IF "key" \in DOMAIN c THEN subidx[c.key] ELSE 0]]
    BY DEF Ask
  <1> DEFINE r == [call |-> c, at |-> "lock", saw |-> <<>>, answer |-> {},
                   part |-> IF "key" \in DOMAIN c THEN subidx[c.key] ELSE 0]
  <1>2. calls'[t] = r
    BY <1>1 DEF LockInv, Shape
  <1>3. r.part \in Parts
    BY DEF ProperUse, Parts
  <1>4. ~Atomic!Ends(c, {})
    BY DEF Atomic!Ends
  <1>5. Proper(t)'
    BY <1>2, <1>3, <1>4 DEF Proper, Running
  <1>6. Sees(t)' /\ Holds(t)'
    BY <1>2 DEF Sees, Holds
  <1>7. held' = [held EXCEPT ![t] = held[t]] /\ sets' = sets
    BY DEF Ask, LockInv, Shape
  <1>8. held[t] = [read |-> held[t].read, write |-> held[t].write]
    BY DEF LockInv, Shape
  <1> HIDE DEF r
  <1>9. r = [call |-> r.call, at |-> r.at, part |-> r.part, saw |-> r.saw, answer |-> r.answer]
    BY DEF r
  <1>10. calls' = [calls EXCEPT ![t] = r]
    BY <1>1 DEF r
  <1>11. Mutex # "null" => \A u \in Thread \ {t} : /\ held[t].write \cap (held[u].read \cup held[u].write) = {}
                                      /\ held[u].write \cap (held[t].read \cup held[t].write) = {}
    BY DEF LockInv, Exclusive
  <1> QED BY <1>5, <1>6, <1>7, <1>8, <1>9, <1>10, <1>11, OneThread

\* A lock that is taken is nobody else's to write, and one to write nobody else's at all.
LEMMA Locked ==
  ASSUME LockInv, NEW t \in Thread, NEW S
  PROVE  \E h :
           /\ WriteLock(t, S) \/ (\E i : S = {i} /\ ReadLock(t, i)) => held' = [held EXCEPT ![t] = h]
           /\ h = [read |-> h.read, write |-> h.write]
           /\ held[t].read \subseteq h.read /\ held[t].write \subseteq h.write
           /\ S \subseteq h.read \cup h.write
           /\ WriteLock(t, S) \/ (Mutex # "shared" /\ \E i : S = {i} /\ ReadLock(t, i)) => S \subseteq h.write
           /\ Mutex # "null" /\ (WriteLock(t, S) \/ \E i : S = {i} /\ ReadLock(t, i)) =>
                \A u \in Thread \ {t} : /\ h.write \cap (held[u].read \cup held[u].write) = {}
                                        /\ held[u].write \cap (h.read \cup h.write) = {}
  <1>1. Mutex # "null" =>
          \A u \in Thread \ {t} : /\ held[t].write \cap (held[u].read \cup held[u].write) = {}
                                  /\ held[u].write \cap (held[t].read \cup held[t].write) = {}
    BY DEF LockInv, Exclusive
  <1>2. CASE WriteLock(t, S)
    <2> DEFINE h == [read |-> held[t].read, write |-> held[t].write \cup S]
    <2>1. held' = [held EXCEPT ![t] = h] /\ (Mutex # "null" => \A u \in Thread : S \cap (held[u].read \cup held[u].write) = {})
      BY <1>2, LocksAre DEF LockInv
    <2>2. h.read = held[t].read /\ h.write = held[t].write \cup S /\ h = [read |-> h.read, write |-> h.write]
      OBVIOUS
    <2> HIDE DEF h
    <2> QED BY <1>1, <2>1, <2>2
  <1>3. CASE ~WriteLock(t, S) /\ \E i : S = {i} /\ ReadLock(t, i)
    <2>1. PICK i : S = {i} /\ ReadLock(t, i)
      BY <1>3
    <2> DEFINE h == [read |-> held[t].read \cup {i}, write |-> held[t].write]
    <2>2. Mutex = "shared" /\ held' = [held EXCEPT ![t] = h] /\ \A u \in Thread : i \notin held[u].write
      BY <1>3, <2>1, LocksAre DEF LockInv
    <2>3. h.read = held[t].read \cup {i} /\ h.write = held[t].write /\ h = [read |-> h.read, write |-> h.write]
      OBVIOUS
    <2> HIDE DEF h
    <2>4. /\ held[t].read \subseteq h.read /\ held[t].write \subseteq h.write
          /\ S \subseteq h.read \cup h.write
      BY <2>1, <2>3
    <2>5. ASSUME Mutex # "null", NEW u \in Thread \ {t}
          PROVE  /\ h.write \cap (held[u].read \cup held[u].write) = {}
                 /\ held[u].write \cap (h.read \cup h.write) = {}
      BY <1>1, <2>2, <2>3, <2>5
    <2>6. held' = [held EXCEPT ![t] = h] /\ h = [read |-> h.read, write |-> h.write]
      BY <2>2, <2>3
    <2> QED BY ONLY <1>3, <2>2, <2>4, <2>5, <2>6
  <1>4. CASE ~WriteLock(t, S) /\ ~\E i : S = {i} /\ ReadLock(t, i)
    <2> DEFINE h == [read |-> S \cup held[t].read, write |-> held[t].write]
    <2>1. h.read = S \cup held[t].read /\ h.write = held[t].write /\ h = [read |-> h.read, write |-> h.write]
      OBVIOUS
    <2> HIDE DEF h
    <2> QED BY <1>4, <2>1
  <1> QED BY <1>2, <1>3, <1>4

LEMMA LockKeeps ==
  ASSUME ProperUse, LockInv, NEW t \in Thread, Lock(t)
  PROVE  LockInv'
  <1> DEFINE c == calls[t].call
             at == IF OneAfterTheOther(c.op) THEN "second"
                   ELSE IF Erases(c.op) /\ Mutex = "shared" /\ Saw(t)[c.key][1] # Atomic!NotThere THEN "switch"
                   ELSE "held"
             saw == IF at = "held" THEN Saw(t) ELSE <<>>
             r == [call |-> c, at |-> at, part |-> calls[t].part, saw |-> saw, answer |-> calls[t].answer]
             S == IF Both(c.op) THEN {Here(t), There(t)} ELSE {Here(t)}
             reads == ~Both(c.op) /\ (Reads(c.op) \/ Erases(c.op))
  <1>1. calls[t].at = "lock" /\ sets' = sets /\ GoTo(t, at)
    BY DEF Lock
  <1>2. IF reads THEN ReadLock(t, Here(t)) ELSE WriteLock(t, S)
    BY DEF Lock
  <1>3. calls' = [calls EXCEPT ![t] = r]
    BY <1>1, GoToIs DEF LockInv
  <1>4. calls'[t] = r
    BY <1>3 DEF LockInv, Shape
  <1>5. \E i : reads => S = {i} /\ ReadLock(t, i)
    BY <1>2
  <1>6. PICK h :
           /\ held' = [held EXCEPT ![t] = h]
           /\ h = [read |-> h.read, write |-> h.write]
           /\ S \subseteq h.read \cup h.write
           /\ ~reads \/ Mutex # "shared" => S \subseteq h.write
           /\ Mutex # "null" =>
                \A u \in Thread \ {t} : /\ h.write \cap (held[u].read \cup held[u].write) = {}
                                        /\ held[u].write \cap (h.read \cup h.write) = {}
    <2> HIDE DEF S, reads
    <2> QED BY <1>2, <1>5, Locked
  <1>7. held'[t] = h
    BY <1>6 DEF LockInv, Shape
  <1>8. /\ r = [call |-> r.call, at |-> r.at, part |-> r.part, saw |-> r.saw, answer |-> r.answer]
        /\ r.call = c /\ r.at = at /\ r.part = calls[t].part /\ r.saw = saw /\ r.answer = calls[t].answer
    OBVIOUS
  <1> HIDE DEF r, at
  <1>9. at \in {"second", "switch", "held"} /\ (at = "second" => OneAfterTheOther(c.op)) /\ (at = "switch" => Erases(c.op))
    BY DEF at
  <1>10. Proper(t)
    BY DEF LockInv
  <1>11. Proper(t)'
    BY <1>1, <1>4, <1>8, <1>9, <1>10 DEF Proper, Running
  <1>12. /\ Here(t)' = Here(t) /\ There(t)' = There(t) /\ KeysHere(t)' = KeysHere(t) /\ About(t)' = About(t)
    BY <1>4, <1>8 DEF Here, There, KeysHere, About
  <1>13. Sees(t)'
    <2> SUFFICES ASSUME at = "held" PROVE Sees(t)'
      BY <1>4, <1>8 DEF Sees
    <2>1. r.saw = Saw(t)
      BY <1>8
    <2> QED BY <1>1, <1>4, <1>8, <1>12, <2>1, SawIs DEF Sees
  <1>14. Mutex # "null" => Holds(t)'
    <2> SUFFICES ASSUME Mutex # "null" PROVE Holds(t)'
      OBVIOUS
    <2>1. CASE at = "second"
      <3>1. Here(t) \in S /\ (c.op = "swap" => ~reads)
        BY DEF Reads, Erases
      <3> QED BY <1>4, <1>6, <1>7, <1>8, <1>12, <2>1, <3>1 DEF Holds
    <2>2. CASE at = "switch"
      BY <1>4, <1>8, <2>2 DEF Holds
    <2>3. CASE at = "held"
      <3>1. ~OneAfterTheOther(c.op) /\ (Erases(c.op) /\ Mutex = "shared" => Saw(t)[c.key][1] = Atomic!NotThere)
        BY <2>3 DEF at
      <3>2. Mutex \in {"plain", "shared"}
        BY DEF ProperUse
      <3>3. About(t) = S
        BY <3>1, <3>2 DEF About, TwoMaps, OneAfterTheOther, Both
      <3>4. r.saw = Saw(t)
        BY <1>8, <2>3
      <3>5. Erases(c.op) => \A k \in KeysHere(t) : k = c.key
        BY <1>1, <1>10 DEF Proper, ProperUse, KeysHere, KeysOf
      <3>6. Reads(c.op) \/ S \subseteq h.write \/ (Erases(c.op) /\ \A k \in KeysHere(t) : r.saw[k][1] = Atomic!NotThere)
        BY <1>6, <3>1, <3>4, <3>5
      <3> QED BY <1>4, <1>6, <1>7, <1>8, <1>12, <2>3, <3>3, <3>6 DEF Holds
    <2> QED BY <1>9, <2>1, <2>2, <2>3
  <1> HIDE DEF S, reads
  <1> QED BY <1>1, <1>3, <1>6, <1>8, <1>11, <1>13, <1>14, OneThread

LEMMA LockSecondKeeps ==
  ASSUME ProperUse, LockInv, NEW t \in Thread, LockSecond(t)
  PROVE  LockInv'
  <1> DEFINE c == calls[t].call
             r == [call |-> c, at |-> "held", part |-> calls[t].part, saw |-> Saw(t), answer |-> calls[t].answer]
             reads == c.op = "equal"
  <1>1. calls[t].at = "second" /\ sets' = sets /\ GoTo(t, "held")
    BY DEF LockSecond
  <1>2. IF reads THEN ReadLock(t, There(t)) ELSE WriteLock(t, {There(t)})
    BY DEF LockSecond
  <1>3. calls' = [calls EXCEPT ![t] = r]
    BY <1>1, GoToIs DEF LockInv
  <1>4. calls'[t] = r
    BY <1>3 DEF LockInv, Shape
  <1>5. r.call = c /\ r.at = "held" /\ r.part = calls[t].part /\ r.saw = Saw(t) /\ r.answer = calls[t].answer
    OBVIOUS
  <1>6. r = [call |-> r.call, at |-> r.at, part |-> r.part, saw |-> r.saw, answer |-> r.answer]
    OBVIOUS
  <1> HIDE DEF r
  <1>7. PICK h :
           /\ held' = [held EXCEPT ![t] = h]
           /\ h = [read |-> h.read, write |-> h.write]
           /\ held[t].read \subseteq h.read /\ held[t].write \subseteq h.write
           /\ There(t) \in h.read \cup h.write
           /\ ~reads => There(t) \in h.write
           /\ Mutex # "null" =>
                \A u \in Thread \ {t} : /\ h.write \cap (held[u].read \cup held[u].write) = {}
                                        /\ held[u].write \cap (h.read \cup h.write) = {}
    <2> DEFINE S == {There(t)}
    <2>1. WriteLock(t, S) \/ (reads /\ \E i : S = {i} /\ ReadLock(t, i))
      BY <1>2
    <2>2. There(t) \in S
      OBVIOUS
    <2>3. ~reads => WriteLock(t, S)
      BY <1>2
    <2> HIDE DEF S, reads
    <2> QED BY <2>1, <2>2, <2>3, Locked
  <1>8. held'[t] = h
    BY <1>7 DEF LockInv, Shape
  <1>9. Proper(t)
    BY DEF LockInv
  <1>10. Proper(t)'
    BY <1>1, <1>4, <1>5, <1>9 DEF Proper, Running
  <1>11. /\ Here(t)' = Here(t) /\ There(t)' = There(t) /\ KeysHere(t)' = KeysHere(t) /\ About(t)' = About(t)
    BY <1>4, <1>5 DEF Here, There, KeysHere, About
  <1>12. Sees(t)'
    BY <1>1, <1>4, <1>5, <1>11, SawIs DEF Sees
  <1>13. Mutex # "null" => Holds(t)'
    <2> SUFFICES ASSUME Mutex # "null" PROVE Holds(t)'
      OBVIOUS
    <2>1. OneAfterTheOther(c.op)
      BY <1>1, <1>9 DEF Proper
    <2>2. Here(t) \in held[t].read \cup held[t].write /\ (c.op = "swap" => Here(t) \in held[t].write)
      BY <1>1 DEF LockInv, Holds
    <2>3. About(t) = {Here(t), There(t)} /\ (Reads(c.op) \/ c.op = "swap")
      BY <2>1 DEF About, TwoMaps, OneAfterTheOther, Reads
    <2>4. About(t) \subseteq h.read \cup h.write /\ (Reads(c.op) \/ About(t) \subseteq h.write)
      BY <1>7, <2>2, <2>3
    <2> QED BY <1>4, <1>5, <1>8, <1>11, <2>4 DEF Holds
  <1> QED BY <1>1, <1>3, <1>6, <1>7, <1>10, <1>12, <1>13, OneThread

\* A thread that gives up what it holds takes nothing from the others.
LEMMA LetGo ==
  ASSUME LockInv, NEW t \in Thread
  PROVE  /\ [held EXCEPT ![t] = held[t]] = held
         /\ held[t] = [read |-> held[t].read, write |-> held[t].write]
         /\ Nothing = [read |-> Nothing.read, write |-> Nothing.write]
         /\ Mutex # "null" =>
              \A u \in Thread \ {t} :
                /\ held[t].write \cap (held[u].read \cup held[u].write) = {}
                /\ held[u].write \cap (held[t].read \cup held[t].write) = {}
                /\ Nothing.write \cap (held[u].read \cup held[u].write) = {}
                /\ held[u].write \cap (Nothing.read \cup Nothing.write) = {}
  BY DEF LockInv, Shape, Exclusive, Nothing

LEMMA UnlockKeeps ==
  ASSUME LockInv, NEW t \in Thread, Unlock(t)
  PROVE  LockInv'
  <1> DEFINE r == [call |-> calls[t].call, at |-> "unlocked", part |-> calls[t].part, saw |-> <<>>, answer |-> calls[t].answer]
  <1>1. calls[t].at = "switch" /\ sets' = sets /\ held' = [held EXCEPT ![t] = Nothing] /\ GoTo(t, "unlocked")
    BY DEF Unlock
  <1>2. calls' = [calls EXCEPT ![t] = r]
    BY <1>1, GoToIs DEF LockInv
  <1>3. calls'[t] = r
    BY <1>2 DEF LockInv, Shape
  <1>4. r.call = calls[t].call /\ r.at = "unlocked" /\ r.part = calls[t].part /\ r.answer = calls[t].answer
    OBVIOUS
  <1>5. r = [call |-> r.call, at |-> r.at, part |-> r.part, saw |-> r.saw, answer |-> r.answer]
    OBVIOUS
  <1> HIDE DEF r
  <1>6. Proper(t)'
    <2>1. Proper(t)
      BY DEF LockInv
    <2> QED BY <1>1, <1>3, <1>4, <2>1 DEF Proper, Running
  <1>7. Sees(t)' /\ Holds(t)'
    BY <1>3, <1>4 DEF Sees, Holds
  <1> QED BY <1>1, <1>2, <1>5, <1>6, <1>7, LetGo, OneThread

LEMMA LockAgainKeeps ==
  ASSUME ProperUse, LockInv, NEW t \in Thread, LockAgain(t)
  PROVE  LockInv'
  <1> DEFINE c == calls[t].call
             r == [call |-> c, at |-> "held", part |-> calls[t].part, saw |-> Saw(t), answer |-> calls[t].answer]
  <1>1. calls[t].at = "unlocked" /\ sets' = sets /\ GoTo(t, "held") /\ WriteLock(t, {Here(t)})
    BY DEF LockAgain
  <1>2. calls' = [calls EXCEPT ![t] = r]
    BY <1>1, GoToIs DEF LockInv
  <1>3. calls'[t] = r
    BY <1>2 DEF LockInv, Shape
  <1>4. r.call = c /\ r.at = "held" /\ r.part = calls[t].part /\ r.saw = Saw(t) /\ r.answer = calls[t].answer
    OBVIOUS
  <1>5. r = [call |-> r.call, at |-> r.at, part |-> r.part, saw |-> r.saw, answer |-> r.answer]
    OBVIOUS
  <1> HIDE DEF r
  <1>6. PICK h :
           /\ held' = [held EXCEPT ![t] = h]
           /\ h = [read |-> h.read, write |-> h.write]
           /\ {Here(t)} \subseteq h.write
           /\ Mutex # "null" =>
                \A u \in Thread \ {t} : /\ h.write \cap (held[u].read \cup held[u].write) = {}
                                        /\ held[u].write \cap (h.read \cup h.write) = {}
    BY <1>1, Locked
  <1>7. held'[t] = h
    BY <1>6 DEF LockInv, Shape
  <1>8. Proper(t)
    BY DEF LockInv
  <1>9. Proper(t)'
    BY <1>1, <1>3, <1>4, <1>8 DEF Proper, Running
  <1>10. /\ Here(t)' = Here(t) /\ There(t)' = There(t) /\ KeysHere(t)' = KeysHere(t) /\ About(t)' = About(t)
    BY <1>3, <1>4 DEF Here, There, KeysHere, About
  <1>11. Sees(t)'
    BY <1>1, <1>3, <1>4, <1>10, SawIs DEF Sees
  <1>12. About(t) = {Here(t)}
    BY <1>1, <1>8 DEF Proper, About, TwoMaps, Erases
  <1>13. Holds(t)'
    BY <1>3, <1>4, <1>6, <1>7, <1>10, <1>12 DEF Holds
  <1> QED BY <1>1, <1>2, <1>5, <1>6, <1>9, <1>11, <1>13, OneThread

LEMMA ReturnKeeps ==
  ASSUME ProperUse, LockInv, NEW t \in Thread, Return(t)
  PROVE  LockInv'
  <1>1. calls' = [calls EXCEPT ![t] = Idle] /\ sets' = sets /\ held' = [held EXCEPT ![t] = held[t]]
    BY LetGo DEF Return
  <1>2. calls'[t] = Idle
    BY <1>1 DEF LockInv, Shape
  <1>3. Idle.at = "idle" /\ Idle = [call |-> Idle.call, at |-> Idle.at, part |-> Idle.part, saw |-> Idle.saw, answer |-> Idle.answer]
    BY DEF Idle
  <1>4. Proper(t)' /\ Sees(t)' /\ Holds(t)'
    BY <1>2, <1>3 DEF Proper, Sees, Holds, Running
  <1> QED BY <1>1, <1>3, <1>4, LetGo, OneThread

\* Where a call goes when it is done with a part.
Last(t, answer) ==
  "key" \in DOMAIN calls[t].call \/ calls[t].part = num_tables - 1 \/ Atomic!Ends(calls[t].call, answer)
Finished(t, answer) ==
  [call |-> calls[t].call, at |-> IF Last(t, answer) THEN "done" ELSE "lock",
   part |-> IF Last(t, answer) THEN 0 ELSE calls[t].part + 1, saw |-> <<>>, answer |-> answer]

LEMMA FinishIs ==
  ASSUME Shape, NEW t \in Thread, NEW saw, Finish(t, saw)
  PROVE  LET answer == Atomic!Answer(calls[t].call, calls[t].answer, saw)
         IN  calls' = [calls EXCEPT ![t] = Finished(t, answer)]
  <1> DEFINE a == calls[t]
             w == Atomic!Answer(calls[t].call, calls[t].answer, saw)
             x == IF Last(t, w) THEN "done" ELSE "lock"
             p == IF Last(t, w) THEN 0 ELSE calls[t].part + 1
             b == [call |-> a.call, at |-> a.at, part |-> a.part, saw |-> a.saw, answer |-> w]
             d == [call |-> a.call, at |-> a.at, part |-> a.part, saw |-> <<>>, answer |-> w]
             e == [call |-> a.call, at |-> x, part |-> a.part, saw |-> <<>>, answer |-> w]
             f == [call |-> a.call, at |-> x, part |-> p, saw |-> <<>>, answer |-> w]
  <1>1. a = [call |-> a.call, at |-> a.at, part |-> a.part, saw |-> a.saw, answer |-> a.answer]
    BY DEF Shape
  <1>2. calls' = [calls EXCEPT ![t].answer = w, ![t].saw = <<>>, ![t].at = x, ![t].part = IF Last(t, w) THEN 0 ELSE @ + 1]
    BY DEF Finish, Last
  <1> HIDE DEF x
  <1>3. PICK g : g = [[[a EXCEPT !.answer = w] EXCEPT !.saw = <<>>] EXCEPT !.at = x]
    OBVIOUS
  <1>4. calls' = [calls EXCEPT ![t] = [g EXCEPT !.part = IF Last(t, w) THEN 0 ELSE g.part + 1]]
    <2>1. calls = [u \in Thread |-> calls[u]]
      BY DEF Shape
    <2> HIDE DEF w, p
    <2> QED BY <1>2, <1>3, <2>1
  <1> HIDE DEF a, w, p
  <1>5. [a EXCEPT !.answer = w] = b
    BY ONLY <1>1, RecordsAre
  <1>6. [b EXCEPT !.saw = <<>>] = d
    BY ONLY RecordsAre
  <1>7. [d EXCEPT !.at = x] = e
    BY ONLY RecordsAre
  <1>8. [e EXCEPT !.part = p] = f
    BY ONLY RecordsAre
  <1>9. g = e
    BY ONLY <1>3, <1>5, <1>6, <1>7
  <1>10. (IF Last(t, w) THEN 0 ELSE g.part + 1) = p
    <2>1. g.part = a.part
      BY <1>9
    <2> QED BY <2>1 DEF p, a
  <1>11. calls' = [calls EXCEPT ![t] = f]
    BY ONLY <1>4, <1>8, <1>9, <1>10
  <1>12. f = Finished(t, w)
    BY DEF Finished, f, x, p, a
  <1> QED BY <1>11, <1>12 DEF w

\* The call is then where it should be.
LEMMA FinishedIs ==
  ASSUME ProperUse, LockInv, NEW t \in Thread, NEW answer, calls[t].at \in Running,
         calls' = [calls EXCEPT ![t] = Finished(t, answer)]
  PROVE  Proper(t)' /\ Sees(t)' /\ Holds(t)'
  <1> DEFINE r == Finished(t, answer)
  <1>1. calls'[t] = r
    BY DEF LockInv, Shape
  <1>2. /\ r.call = calls[t].call /\ r.at = (IF Last(t, answer) THEN "done" ELSE "lock")
        /\ r.part = (IF Last(t, answer) THEN 0 ELSE calls[t].part + 1) /\ r.answer = answer
    BY DEF Finished
  <1>3. Proper(t)
    BY DEF LockInv
  <1> HIDE DEF r
  <1>4. ~Last(t, answer) => calls[t].part + 1 \in Parts /\ ~("key" \in DOMAIN calls[t].call) /\ ~Atomic!Ends(calls[t].call, answer)
    <2>1. calls[t].part \in 0 .. num_tables - 1 /\ num_tables \in Nat \ {0}
      BY <1>3 DEF Proper, Parts, ProperUse
    <2> QED BY <2>1 DEF Last, Parts
  <1>5. r.at \in {"done", "lock"} /\ calls[t].call \in Calls[t]
    BY <1>2, <1>3 DEF Proper, Running
  <1>6. Proper(t)'
    BY <1>1, <1>2, <1>4, <1>5 DEF Proper, Running
  <1>7. Sees(t)' /\ Holds(t)'
    BY <1>1, <1>5 DEF Sees, Holds
  <1> QED BY <1>6, <1>7

LEMMA LookKeeps ==
  ASSUME ProperUse, LockInv, NEW t \in Thread, Look(t)
  PROVE  LockInv'
  <1>1. PICK answer : answer = Atomic!Answer(calls[t].call, calls[t].answer, Saw(t))
    OBVIOUS
  <1>2. /\ calls[t].at \in Running /\ sets' = sets /\ held' = [held EXCEPT ![t] = held[t]]
        /\ calls' = [calls EXCEPT ![t] = Finished(t, answer)]
    BY <1>1, FinishIs, LetGo DEF Look, LockInv, Running
  <1>3. PICK r : r = Finished(t, answer)
    OBVIOUS
  <1>4. r = [call |-> r.call, at |-> r.at, part |-> r.part, saw |-> r.saw, answer |-> r.answer]
    BY <1>3 DEF Finished
  <1> QED BY <1>2, <1>3, <1>4, FinishedIs, LetGo, OneThread

\* The map m after the call of t has treated the keys of its part as they are now.
After(t, m) ==
  LET c == calls[t].call
      made(k) == Atomic!Effect(c, sets[c.on][k], sets[c.with][k])
  IN  [k \in Key |-> IF k \notin KeysHere(t) THEN sets[m][k]
                     ELSE IF m = c.on THEN made(k)[1]
                     ELSE IF m = c.with THEN made(k)[2]
                     ELSE sets[m][k]]

LEMMA CallIs ==
  ASSUME ProperUse, LockInv, NEW t \in Thread, calls[t].at \in Running
  PROVE  /\ calls[t].call \in Calls[t] /\ calls[t].call.on \in Map /\ calls[t].call.with \in Map
         /\ calls[t].call.on # calls[t].call.with
         /\ KeysOf(calls[t].call) \subseteq Key /\ KeysHere(t) \subseteq Key
  <1>1. calls[t].call \in Calls[t]
    BY DEF LockInv, Proper, Running
  <1> QED BY <1>1 DEF ProperUse, KeysOf, KeysHere

\* A look changes nothing.
LEMMA LookIs ==
  ASSUME ProperUse, LockInv, NEW t \in Thread, calls[t].at \in Running,
         Reads(calls[t].call.op) \/ calls[t].call.op \in {"size", "if_contains_unsafe"}
  PROVE  sets = [m \in Map |-> After(t, m)]
  <1> DEFINE c == calls[t].call
  <1>1. sets = [m \in Map |-> [k \in Key |-> sets[m][k]]]
    BY DEF LockInv, Shape
  <1>2. ASSUME NEW m \in Map
        PROVE  [k \in Key |-> sets[m][k]] = After(t, m)
    <2>1. ASSUME NEW k \in Key
          PROVE  After(t, m)[k] = sets[m][k]
      <3>1. Atomic!Effect(c, sets[c.on][k], sets[c.with][k]) = <<sets[c.on][k], sets[c.with][k]>>
        BY EffectIs
      <3> QED BY <3>1 DEF After
    <2> QED BY <2>1 DEF After
  <1> QED BY <1>1, <1>2

LEMMA WorkIs ==
  ASSUME ProperUse, LockInv, NEW t \in Thread, Work(t)
  PROVE  sets' = [m \in Map |-> After(t, m)]
  <1> DEFINE c == calls[t].call
             saw == calls[t].saw
             made == [k \in DOMAIN saw |-> Atomic!Effect(c, saw[k][1], saw[k][2])]
             With(set, i) == [k \in Key |-> IF k \in DOMAIN made THEN made[k][i] ELSE set[k]]
  <1>1. calls[t].at = "held" /\ calls[t].at \in Running
    BY DEF Work, Running
  <1>2. c.on \in Map /\ c.with \in Map /\ c.on # c.with /\ KeysHere(t) \subseteq Key
    BY <1>1, CallIs
  <1>3. /\ DOMAIN made = KeysHere(t)
        /\ \A k \in KeysHere(t) : /\ saw[k][1] = sets[c.on][k] /\ (TwoMaps(c.op) => saw[k][2] = sets[c.with][k])
                                  /\ made[k] = Atomic!Effect(c, saw[k][1], saw[k][2])
    BY <1>1 DEF LockInv, Sees
  <1>4. sets = [m \in Map |-> [k \in Key |-> sets[m][k]]]
    BY DEF LockInv, Shape
  <1>5. ASSUME NEW k \in KeysHere(t)
        PROVE  /\ made[k][1] = Atomic!Effect(c, sets[c.on][k], sets[c.with][k])[1]
               /\ c.op \in {"merge", "swap"} => made[k][2] = Atomic!Effect(c, sets[c.on][k], sets[c.with][k])[2]
               /\ c.op \notin {"merge", "swap"} => Atomic!Effect(c, sets[c.on][k], sets[c.with][k])[2] = sets[c.with][k]
    <2>1. CASE c.op \in {"merge", "swap"}
      BY <1>3, <2>1 DEF TwoMaps
    <2>2. CASE c.op \notin {"merge", "swap"}
      <3> DEFINE x == sets[c.on][k]
                 y == sets[c.with][k]
                 z == saw[k][2]
      <3>1. made[k] = Atomic!Effect(c, x, z)
        BY <1>3
      <3>2. Atomic!Effect(c, x, z)[1] = Atomic!Effect(c, x, y)[1] /\ Atomic!Effect(c, x, y)[2] = y
        <4> HIDE DEF x, y, z, c
        <4> QED BY <2>2, EffectIs
      <3> QED BY <2>2, <3>1, <3>2
    <2> QED BY <2>1, <2>2
  <1>6. With(sets[c.on], 1) = After(t, c.on)
    BY <1>2, <1>3, <1>5 DEF After
  <1>7. c.op \in {"merge", "swap"} => With(sets[c.with], 2) = After(t, c.with)
    BY <1>2, <1>3, <1>5 DEF After
  <1>8. c.op \notin {"merge", "swap"} => sets[c.with] = After(t, c.with)
    BY <1>2, <1>4, <1>5 DEF After
  <1>9. \A m \in Map : m # c.on /\ m # c.with => sets[m] = After(t, m)
    BY <1>4 DEF After
  <1>10. CASE Reads(c.op)
    BY <1>1, <1>10, LookIs DEF Work
  <1>11. CASE ~Reads(c.op) /\ c.op \in {"merge", "swap"}
    <2>1. sets' = [sets EXCEPT ![c.on] = With(sets[c.on], 1), ![c.with] = With(sets[c.with], 2)]
      <3>1. sets' = [sets EXCEPT ![c.on] = With(@, 1), ![c.with] = With(@, 2)]
        BY <1>11 DEF Work
      <3> HIDE DEF With
      <3> QED BY <1>2, <1>4, <3>1
    <2> HIDE DEF With, c
    <2> QED BY <1>2, <1>4, <1>6, <1>7, <1>9, <1>11, <2>1
  <1>12. CASE ~Reads(c.op) /\ c.op \notin {"merge", "swap"}
    <2>1. sets' = [sets EXCEPT ![c.on] = With(sets[c.on], 1)]
      BY <1>12 DEF Work
    <2> HIDE DEF With, c
    <2> QED BY <1>2, <1>4, <1>6, <1>8, <1>9, <1>12, <2>1
  <1> QED BY <1>10, <1>11, <1>12

\* What a call changes, nobody else has locked.
LEMMA ChangesAreHeld ==
  ASSUME ProperUse, LockInv, NEW t \in Thread, Work(t), Mutex # "null",
         NEW m \in Map, NEW k \in Key, sets'[m][k] # sets[m][k]
  PROVE  <<m, subidx[k]>> \in held[t].write
  <1> DEFINE c == calls[t].call
             made == Atomic!Effect(c, sets[c.on][k], sets[c.with][k])
  <1>1. calls[t].at = "held" /\ calls[t].at \in Running
    BY DEF Work, Running
  <1>2. c.on # c.with
    BY <1>1, CallIs
  <1>3. After(t, m)[k] # sets[m][k]
    BY WorkIs
  <1>4. k \in KeysHere(t) /\ \/ m = c.on /\ made[1] # sets[c.on][k]
                             \/ m = c.with /\ made[2] # sets[c.with][k]
    BY <1>3 DEF After
  <1>5. subidx[k] = calls[t].part
    BY <1>4 DEF KeysHere
  <1>6. ~Reads(c.op) /\ ~(Erases(c.op) /\ sets[c.on][k] = Atomic!NotThere)
    BY <1>4, EffectIs
  <1>7. About(t) \subseteq held[t].write
    <2>1. calls[t].saw[k][1] = sets[c.on][k]
      BY <1>1, <1>4 DEF LockInv, Sees
    <2> QED BY <1>1, <1>4, <1>6, <2>1 DEF LockInv, Holds
  <1>8. CASE m = c.on
    BY <1>5, <1>7, <1>8 DEF About, Here
  <1>9. CASE m = c.with /\ made[2] # sets[c.with][k]
    <2>1. TwoMaps(c.op)
      BY <1>9, EffectIs DEF TwoMaps
    <2> QED BY <1>5, <1>7, <1>9, <2>1 DEF About, There
  <1> QED BY <1>4, <1>8, <1>9

LEMMA WorkKeeps ==
  ASSUME ProperUse, LockInv, NEW t \in Thread, Work(t)
  PROVE  LockInv'
  <1> DEFINE answer == Atomic!Answer(calls[t].call, calls[t].answer, calls[t].saw)
  <1>1. /\ calls[t].at \in Running /\ held' = [held EXCEPT ![t] = Nothing]
        /\ calls' = [calls EXCEPT ![t] = Finished(t, answer)]
    BY FinishIs DEF Work, LockInv, Running
  <1> HIDE DEF answer
  <1>2. Proper(t)' /\ Sees(t)' /\ Holds(t)'
    BY <1>1, FinishedIs
  <1>3. Shape'
    <2>1. sets' = [m \in Map |-> [k \in Key |-> sets'[m][k]]]
      BY WorkIs DEF After
    <2>2. held' = [u \in Thread |-> [read |-> held'[u].read, write |-> held'[u].write]]
      BY <1>1 DEF LockInv, Shape, Nothing
    <2>3. calls' = [u \in Thread |-> [call |-> calls'[u].call, at |-> calls'[u].at, part |-> calls'[u].part,
                                      saw |-> calls'[u].saw, answer |-> calls'[u].answer]]
      BY <1>1 DEF LockInv, Shape, Finished
    <2> QED BY <2>1, <2>2, <2>3 DEF Shape
  <1>4. /\ held'[t] = Nothing
        /\ \A u \in Thread \ {t} : held'[u] = held[u] /\ calls'[u] = calls[u]
    BY <1>1 DEF LockInv, Shape
  <1>5. Mutex # "null" => Exclusive'
    BY <1>4 DEF LockInv, Exclusive, Nothing
  <1>6. ASSUME NEW u \in Thread \ {t}
        PROVE  Proper(u)' /\ Sees(u)' /\ (Mutex # "null" => Holds(u)')
    <2>1. calls'[u] = calls[u] /\ held'[u] = held[u]
      BY <1>4
    <2>2. /\ Here(u)' = Here(u) /\ There(u)' = There(u) /\ KeysHere(u)' = KeysHere(u) /\ About(u)' = About(u)
      BY <2>1 DEF Here, There, KeysHere, About
    <2>3. Proper(u)'
      BY <2>1 DEF LockInv, Proper
    <2>4. Mutex # "null" => Holds(u)'
      BY <2>1, <2>2 DEF LockInv, Holds
    <2>5. Sees(u)'
      <3> SUFFICES ASSUME calls[u].at = "held" PROVE Sees(u)'
        BY <2>1 DEF Sees
      <3> DEFINE c == calls[u].call
      <3>1. Mutex # "null"
        BY DEF ProperUse
      <3>2. c.on \in Map /\ c.with \in Map /\ KeysHere(u) \subseteq Key
        BY CallIs DEF Running
      <3>3. About(u) \subseteq held[u].read \cup held[u].write
        BY <3>1 DEF LockInv, Holds
      <3>4. ASSUME NEW k \in KeysHere(u), NEW m \in Map, <<m, calls[u].part>> \in About(u)
            PROVE  sets'[m][k] = sets[m][k]
        <4>1. subidx[k] = calls[u].part
          BY DEF KeysHere
        <4>2. <<m, subidx[k]>> \notin held[t].write
          BY <3>1, <3>3, <3>4, <4>1 DEF LockInv, Exclusive
        <4> QED BY <3>1, <3>2, <4>2, ChangesAreHeld
      <3>5. <<c.on, calls[u].part>> \in About(u) /\ (TwoMaps(c.op) => <<c.with, calls[u].part>> \in About(u))
        BY DEF About, Here, There
      <3>6. \A k \in KeysHere(u) : /\ sets'[c.on][k] = sets[c.on][k]
                                   /\ TwoMaps(c.op) => sets'[c.with][k] = sets[c.with][k]
        BY <3>2, <3>4, <3>5
      <3>7. Sees(u)
        BY DEF LockInv
      <3> QED BY <2>1, <2>2, <3>6, <3>7 DEF Sees
    <2> QED BY <2>3, <2>4, <2>5
  <1> QED BY <1>2, <1>3, <1>5, <1>6 DEF LockInv

\* The threads of AtomicMaps.
AskedNow == [u \in Thread |-> Asked(calls[u])]

LEMMA AskedIs ==
  ASSUME Shape, NEW t \in Thread, NEW r, calls' = [calls EXCEPT ![t] = r]
  PROVE  AskedNow' = [AskedNow EXCEPT ![t] = Asked(r)]
  <1>1. calls'[t] = r /\ \A u \in Thread \ {t} : calls'[u] = calls[u]
    BY DEF Shape
  <1>2. AskedNow' = [u \in Thread |-> Asked(calls'[u])]
    BY DEF AskedNow
  <1>3. \A u \in Thread : AskedNow'[u] = IF u = t THEN Asked(r) ELSE AskedNow[u]
    BY <1>1, <1>2 DEF AskedNow
  <1> QED BY <1>2, <1>3 DEF AskedNow

\* The answer does not depend on what the other map holds but in a comparison.
LEMMA AnswerIs ==
  ASSUME NEW c, NEW a, NEW saw, NEW seen, DOMAIN saw = DOMAIN seen,
         \A k \in DOMAIN seen : saw[k][1] = seen[k][1] /\ (c.op = "equal" => saw[k][2] = seen[k][2])
  PROVE  Atomic!Answer(c, a, saw) = Atomic!Answer(c, a, seen)
  <1> DEFINE Is(x, y) == CASE c.op = "equal" -> x # y
                           [] c.op = "erase_if" -> x = 1
                           [] c.op \in {"clear", "merge", "swap", "for_each_m"} -> FALSE
                           [] OTHER -> x # Atomic!NotThere
  <1>1. \A k \in DOMAIN seen : Is(saw[k][1], saw[k][2]) = Is(seen[k][1], seen[k][2])
    <2> SUFFICES ASSUME NEW k \in DOMAIN seen
                 PROVE  Is(saw[k][1], saw[k][2]) = Is(seen[k][1], seen[k][2])
      OBVIOUS
    <2>1. CASE c.op = "equal"
      BY <2>1
    <2>2. CASE c.op # "equal"
      BY <2>2
    <2> QED BY <2>1, <2>2
  <1>2. /\ Atomic!Answer(c, a, saw) = a \cup {<<k, saw[k][1]>> : k \in {k \in DOMAIN saw : Is(saw[k][1], saw[k][2])}}
        /\ Atomic!Answer(c, a, seen) = a \cup {<<k, seen[k][1]>> : k \in {k \in DOMAIN seen : Is(seen[k][1], seen[k][2])}}
    BY Zenon DEF Atomic!Answer
  <1> HIDE DEF Is
  <1>3. {k \in DOMAIN saw : Is(saw[k][1], saw[k][2])} = {k \in DOMAIN seen : Is(seen[k][1], seen[k][2])}
    BY <1>1
  <1> QED BY <1>2, <1>3

\* One part is one step of AtomicMaps, or none if none of the keys are there.
LEMMA Treated ==
  ASSUME ProperUse, LockInv, NEW t \in Thread, calls[t].at \in Running, NEW saw, DOMAIN saw = KeysHere(t),
         \A k \in KeysHere(t) : /\ saw[k][1] = sets[calls[t].call.on][k]
                                /\ calls[t].call.op = "equal" => saw[k][2] = sets[calls[t].call.with][k],
         calls' = [calls EXCEPT ![t] = Finished(t, Atomic!Answer(calls[t].call, calls[t].answer, saw))],
         sets' = [m \in Map |-> After(t, m)]
  PROVE  IF KeysHere(t) = {} THEN UNCHANGED <<sets, AskedNow>> ELSE Atomic!Treat(t, KeysHere(t))
  <1> DEFINE c == calls[t].call
             keys == KeysHere(t)
             seen == [k \in keys |-> <<sets[c.on][k], sets[c.with][k]>>]
             made == [k \in keys |-> Atomic!Effect(c, seen[k][1], seen[k][2])]
             answer == Atomic!Answer(c, calls[t].answer, seen)
             left == Left(calls[t])
  <1>1. answer = Atomic!Answer(c, calls[t].answer, saw)
    BY AnswerIs
  <1> HIDE DEF answer
  <1>2. /\ c.on \in Map /\ c.with \in Map /\ c.on # c.with /\ KeysOf(c) \subseteq Key /\ keys \subseteq Key
    BY CallIs
  <1>3. Proper(t)
    BY DEF LockInv
  <1>4. /\ AskedNow[t].call = c /\ AskedNow[t].answer = calls[t].answer /\ AskedNow[t].left = left
        /\ AskedNow[t] = [call |-> c, answer |-> calls[t].answer, left |-> left]
    BY DEF AskedNow, Asked
  <1>5. left = {k \in KeysOf(c) : subidx[k] >= calls[t].part} /\ keys \subseteq left
    <2>1. \A k \in Key : subidx[k] \in Int
      BY DEF ProperUse, Parts
    <2> QED BY <1>2, <1>3, <2>1 DEF Left, Running, KeysHere, Proper, Parts
  <1>6. Left(Finished(t, answer)) = IF Atomic!Ends(c, answer) THEN {} ELSE left \ keys
    <2>1. num_tables \in Nat \ {0} /\ subidx \in [Key -> 0 .. num_tables - 1] /\ calls[t].part \in 0 .. num_tables - 1
      BY <1>3 DEF ProperUse, Parts, Proper
    <2>2. left \ keys = {k \in KeysOf(c) : subidx[k] >= calls[t].part + 1}
      BY <1>2, <1>5, <2>1 DEF KeysHere
    <2>3. CASE ~Last(t, answer)
      <3>1. Left(Finished(t, answer)) = {k \in KeysOf(c) : subidx[k] >= calls[t].part + 1}
        BY <2>3 DEF Left, Finished
      <3> QED BY <2>2, <2>3, <3>1 DEF Last
    <2>4. CASE Last(t, answer)
      <3>1. Left(Finished(t, answer)) = {}
        BY <2>4 DEF Left, Finished
      <3>2. "key" \in DOMAIN c => KeysOf(c) \subseteq keys
        BY <1>3 DEF Proper, KeysOf, KeysHere
      <3>3. calls[t].part = num_tables - 1 => left \ keys = {}
        BY <1>2, <2>1, <2>2
      <3> QED BY <1>5, <2>4, <3>1, <3>2, <3>3 DEF Last
    <2> QED BY <2>3, <2>4
  <1>7. AskedNow' = [AskedNow EXCEPT ![t] = [call |-> c, answer |-> answer,
                                             left |-> IF Atomic!Ends(c, answer) THEN {} ELSE left \ keys]]
    <2>1. Asked(Finished(t, answer)) = [call |-> c, answer |-> answer, left |-> Left(Finished(t, answer))]
      BY DEF Asked, Finished
    <2>2. PICK r : r = Finished(t, answer)
      OBVIOUS
    <2>3. calls' = [calls EXCEPT ![t] = r]
      BY <1>1, <2>2
    <2>4. AskedNow' = [AskedNow EXCEPT ![t] = Asked(r)]
      BY ONLY <2>3, AskedIs, LockInv, t \in Thread DEF LockInv
    <2> QED BY ONLY <1>6, <2>1, <2>2, <2>4
  <1>8. sets = [m \in Map |-> [k \in Key |-> sets[m][k]]]
    BY DEF LockInv, Shape
  <1>9. CASE keys = {}
    <2>1. sets' = sets
      BY <1>8, <1>9 DEF After
    <2>2. answer = calls[t].answer
      <3>1. seen = [k \in {} |-> <<sets[c.on][k], sets[c.with][k]>>]
        BY <1>9
      <3> QED BY <3>1 DEF answer, Atomic!Answer
    <2>3. ~Atomic!Ends(c, answer)
      BY <1>3, <2>2 DEF Proper
    <2>4. AskedNow' = [AskedNow EXCEPT ![t] = AskedNow[t]]
      BY <1>4, <1>7, <1>9, <2>2, <2>3
    <2> QED BY <1>9, <2>1, <2>4 DEF AskedNow
  <1>10. CASE keys # {}
    <2>1. AskedNow' = [AskedNow EXCEPT ![t].answer = answer,
                                       ![t].left = IF Atomic!Ends(c, answer) THEN {} ELSE @ \ keys]
      BY <1>4, <1>7 DEF AskedNow
    <2>2. sets' = [sets EXCEPT ![c.on] = [k \in Key |-> IF k \in keys THEN made[k][1] ELSE @[k]],
                               ![c.with] = [k \in Key |-> IF k \in keys THEN made[k][2] ELSE @[k]]]
      BY <1>2, <1>8 DEF After
    <2> QED BY <1>4, <1>5, <1>10, <2>1, <2>2 DEF Atomic!Treat, answer, AskedNow
  <1> QED BY <1>9, <1>10

LEMMA InitImplements ==
  ASSUME ProperUse, Init
  PROVE  LockInv /\ Atomic!Init
  <1>1. Idle.at = "idle" /\ Idle = [call |-> Idle.call, at |-> Idle.at, part |-> Idle.part, saw |-> Idle.saw, answer |-> Idle.answer]
    BY DEF Idle
  <1>2. Shape
    BY <1>1 DEF Init, Shape, ProperUse, Nothing
  <1>3. \A t \in Thread : Proper(t) /\ Sees(t) /\ Holds(t)
    BY <1>1 DEF Init, Proper, Sees, Holds, Running
  <1>4. Exclusive
    BY DEF Init, Exclusive, Nothing
  <1>5. \A t \in Thread : Asked(calls[t]) = Atomic!Idle
    BY DEF Init, Asked, Left, Idle, Atomic!Idle
  <1>6. Atomic!Init
    BY <1>5 DEF Init, Atomic!Init
  <1> QED BY <1>2, <1>3, <1>4, <1>6 DEF LockInv

\* The lock is taken, given back or taken again: nothing has happened yet.
LEMMA LocksAreSilent ==
  ASSUME ProperUse, LockInv, NEW t \in Thread,
         Lock(t) \/ LockSecond(t) \/ Unlock(t) \/ LockAgain(t)
  PROVE  UNCHANGED <<sets, AskedNow>>
  <1>1. PICK at : calls[t].at \in Running /\ at \in Running /\ GoTo(t, at) /\ sets' = sets
    BY DEF Lock, LockSecond, Unlock, LockAgain, Running
  <1>2. PICK r : r = [call |-> calls[t].call, at |-> at, part |-> calls[t].part,
                      saw |-> IF at = "held" THEN Saw(t) ELSE <<>>, answer |-> calls[t].answer]
    OBVIOUS
  <1>3. calls' = [calls EXCEPT ![t] = r]
    BY <1>1, <1>2, GoToIs DEF LockInv
  <1>4. Asked(r) = AskedNow[t]
    BY <1>1, <1>2 DEF Asked, Left, AskedNow, Running
  <1>5. AskedNow' = [AskedNow EXCEPT ![t] = AskedNow[t]]
    BY ONLY <1>3, <1>4, AskedIs, LockInv, t \in Thread DEF LockInv
  <1> QED BY <1>1, <1>5 DEF AskedNow

LEMMA StepImplements ==
  ASSUME ProperUse, LockInv, [Next]_vars
  PROVE  LockInv' /\ [Atomic!Next]_<<sets, AskedNow>>
  <1>1. CASE UNCHANGED vars
    <2>1. sets' = sets /\ held' = held /\ calls' = calls
      BY <1>1 DEF vars
    <2>2. AskedNow' = AskedNow
      BY <2>1 DEF AskedNow
    <2>3. Shape' /\ (Mutex # "null" => Exclusive')
      BY <2>1 DEF LockInv, Shape, Exclusive
    <2>4. \A t \in Thread : Proper(t)'
      BY <2>1 DEF LockInv, Proper
    <2>5. \A t \in Thread : Sees(t)'
      BY <2>1 DEF LockInv, Sees, KeysHere
    <2>6. Mutex # "null" => \A t \in Thread : Holds(t)'
      BY <2>1 DEF LockInv, Holds, About, Here, There, KeysHere
    <2>7. LockInv'
      BY <2>3, <2>4, <2>5, <2>6 DEF LockInv
    <2> QED BY <2>1, <2>2, <2>7
  <1> SUFFICES ASSUME NEW t \in Thread,
                      \/ Ask(t) \/ Lock(t) \/ LockSecond(t) \/ Unlock(t) \/ LockAgain(t)
                      \/ Work(t) \/ Look(t) \/ Return(t)
               PROVE  LockInv' /\ [Atomic!Next]_<<sets, AskedNow>>
    BY <1>1 DEF Next
  <1>2. CASE Ask(t)
    <2>1. LockInv'
      BY <1>2, AskKeeps
    <2>2. PICK c, r :
            /\ c \in Calls[t] /\ calls' = [calls EXCEPT ![t] = r]
            /\ r = [call |-> c, at |-> "lock", saw |-> <<>>, answer |-> {},
                    part |-> IF "key" \in DOMAIN c THEN subidx[c.key] ELSE 0]
      BY <1>2 DEF Ask
    <2>3. calls[t] = Idle /\ sets' = sets
      BY <1>2 DEF Ask, LockInv, Proper
    <2>4. Asked(calls[t]) = Atomic!Idle
      BY <2>3 DEF Asked, Left, Idle, Atomic!Idle
    <2>5. Left(r) = KeysOf(c)
      <3>1. Left(r) = {k \in KeysOf(c) : subidx[k] >= r.part}
        BY <2>2 DEF Left
      <3>2. \A k \in KeysOf(c) : subidx[k] >= r.part
        BY <2>2 DEF ProperUse, KeysOf, Parts
      <3> QED BY <3>1, <3>2
    <2>6. Asked(r) = [call |-> c, left |-> Atomic!KeysOf(c), answer |-> {}]
      BY <2>2, <2>5 DEF Asked, KeysOf, Atomic!KeysOf
    <2>7. AskedNow' = [AskedNow EXCEPT ![t] = Asked(r)]
      BY ONLY <2>2, AskedIs, LockInv, t \in Thread DEF LockInv
    <2>8. Atomic!Ask(t)
      <3>1. AskedNow[t] = Atomic!Idle
        BY <2>4 DEF AskedNow
      <3>2. AskedNow'[t] = Asked(r) /\ Asked(r).call = c
        BY <2>6, <2>7 DEF AskedNow
      <3>3. AskedNow' = [AskedNow EXCEPT ![t] = [call |-> AskedNow'[t].call, left |-> Atomic!KeysOf(AskedNow'[t].call), answer |-> {}]]
        BY <2>6, <2>7, <3>2
      <3> QED BY ONLY <2>3, <3>1, <3>3 DEF Atomic!Ask, AskedNow
    <2> QED BY <2>1, <2>8 DEF Atomic!Next
  <1>3. CASE Lock(t) \/ LockSecond(t) \/ Unlock(t) \/ LockAgain(t)
    <2>1. LockInv'
      BY <1>3, LockKeeps, LockSecondKeeps, UnlockKeeps, LockAgainKeeps
    <2> QED BY <1>3, <2>1, LocksAreSilent
  <1>4. CASE Work(t) \/ Look(t)
    <2>1. LockInv'
      BY <1>4, WorkKeeps, LookKeeps
    <2>2. PICK saw :
            /\ calls[t].at \in Running /\ DOMAIN saw = KeysHere(t)
            /\ \A k \in KeysHere(t) : /\ saw[k][1] = sets[calls[t].call.on][k]
                                      /\ calls[t].call.op = "equal" => saw[k][2] = sets[calls[t].call.with][k]
            /\ Finish(t, saw) /\ sets' = [m \in Map |-> After(t, m)]
      <3>1. CASE Work(t)
        BY <3>1, WorkIs DEF Work, LockInv, Sees, Running, TwoMaps
      <3>2. CASE Look(t)
        BY <3>2, SawIs, LookIs DEF Look, Running
      <3> QED BY <1>4, <3>1, <3>2
    <2>3. calls' = [calls EXCEPT ![t] = Finished(t, Atomic!Answer(calls[t].call, calls[t].answer, saw))]
      BY <2>2, FinishIs DEF LockInv
    <2>4. IF KeysHere(t) = {} THEN UNCHANGED <<sets, AskedNow>> ELSE Atomic!Treat(t, KeysHere(t))
      BY <2>2, <2>3, Treated
    <2>5. KeysHere(t) \in SUBSET Key
      BY <2>2, CallIs
    <2> QED BY <2>1, <2>4, <2>5 DEF Atomic!Next
  <1>5. CASE Return(t)
    <2>1. LockInv'
      BY <1>5, ReturnKeeps
    <2>2. calls[t].at = "done" /\ sets' = sets /\ calls' = [calls EXCEPT ![t] = Idle]
      BY <1>5 DEF Return
    <2>3. Asked(Idle) = Atomic!Idle
      BY DEF Asked, Left, Idle, Atomic!Idle
    <2>4. AskedNow[t].left = {} /\ AskedNow[t] # Atomic!Idle
      BY <2>2 DEF AskedNow, Asked, Left, Atomic!Idle, LockInv, Proper, ProperUse
    <2>5. AskedNow' = [AskedNow EXCEPT ![t] = Atomic!Idle]
      BY <2>2, <2>3, AskedIs DEF LockInv
    <2>6. Atomic!Return(t)
      BY <2>2, <2>4, <2>5 DEF Atomic!Return, AskedNow
    <2> QED BY <2>1, <2>6 DEF Atomic!Next
  <1> QED BY <1>2, <1>3, <1>4, <1>5

\* ImplementsAtomicMaps for any threads, calls, keys and parts (phmap.h: a call about one
\* key locks its part, one about all keys locks part after part).
THEOREM CallsAreAtomic == ProperUse => (Spec => ImplementsAtomicMaps)
<1> SUFFICES ASSUME ProperUse PROVE Spec => ImplementsAtomicMaps
  OBVIOUS
<1>1. Init => LockInv /\ Atomic!Init
  BY InitImplements
<1>2. LockInv /\ [Next]_vars => LockInv' /\ [Atomic!Next]_<<sets, [t \in Thread |-> Asked(calls[t])]>>
  BY StepImplements DEF AskedNow
<1> QED BY <1>1, <1>2, PTL DEF Spec, ImplementsAtomicMaps, Atomic!Spec
=============================================================================

------------------------------- MODULE Timer -------------------------------
(***************************************************************************)
(* timer/cc/ltimer.cc: timers of a name (id_, info_) and a time, held in   *)
(* two ordered sets: timer_ by name, and iter_, of the places in timer_,   *)
(* by time.  expire answers those that are due and takes them out.         *)
(***************************************************************************)
EXTENDS Integers, Sequences, Functions, FiniteSets

CONSTANTS
  TimerId, TimerInfo, \* numbers, so that they are ordered
  Times               \* the times that are given

ASSUME TimerAssumption == TimerId \subseteq Int /\ TimerInfo \subseteq Int /\ Times \subseteq Int

VARIABLES
  set,   \* timer_: (id_, info_) -> tm_
  iter,  \* iter_, as the triples its order compares
  wanted,  \* what was asked for and neither taken back nor answered
  answer,  \* the last answer of expire
  due      \* what was due then
timerVars == <<set, iter, wanted, answer, due>>

TimerName == TimerId \X TimerInfo
With(f, name, tm) == [n \in DOMAIN f \cup {name} |-> IF n = name THEN tm ELSE f[n]]
AllBut(f, names) == Restrict(f, DOMAIN f \ names)
PlaceOf(name, tm) == <<tm, name[1], name[2]>>

\* Itercmp.
Earlier(a, b) ==
  \/ a[1] < b[1]
  \/ a[1] = b[1] /\ a[2] < b[2]
  \/ a[1] = b[1] /\ a[2] = b[2] /\ a[3] < b[3]

TimerInit ==
  /\ set = [n \in {} |-> 0] /\ iter = {}
  /\ wanted = [n \in {} |-> 0] /\ answer = <<>> /\ due = {}

----------------------------------------------------------------------------
\* Timer::del: the place is found by the time the timer has, not by that of ele.
Places(names) == {PlaceOf(n, set[n]) : n \in names \cap DOMAIN set}

\* Mutant: the timer of the same name keeps its place.
AddWithoutDel(name, tm) ==
  /\ set' = With(set, name, tm)
  /\ iter' = iter \cup {PlaceOf(name, tm)}
  /\ wanted' = With(wanted, name, tm)
  /\ UNCHANGED <<answer, due>>

AddTimer(name, tm) ==
  /\ set' = With(set, name, tm)
  /\ iter' = (iter \ Places({name})) \cup {PlaceOf(name, tm)}
  /\ wanted' = With(wanted, name, tm)
  /\ UNCHANGED <<answer, due>>

TakeBack(names) ==
  /\ set' = AllBut(set, names)
  /\ iter' = iter \ Places(names)
  /\ wanted' = AllBut(wanted, names)
  /\ UNCHANGED <<answer, due>>

Del(name) == TakeBack({name})
Delid(id) == TakeBack({n \in DOMAIN set : n[1] = id})

\* Places in the order of iter_.
InTime(places) ==
  [i \in 1 .. Cardinality(places) |->
     CHOOSE p \in places : Cardinality({q \in places : Earlier(q, p)}) = i - 1]

\* Takes places from the front of iter_ as long as they are due.
Expire(tm) ==
  LET gone == {p \in iter : p[1] <= tm}
      names == {<<p[2], p[3]>> : p \in gone}
  IN  /\ answer' = InTime(gone)
      /\ set' = AllBut(set, names)
      /\ iter' = iter \ gone
      /\ due' = {n \in DOMAIN wanted : wanted[n] <= tm}
      /\ wanted' = AllBut(wanted, due')

TimerNext ==
  \/ \E name \in TimerName : Del(name) \/ \E tm \in Times : AddTimer(name, tm)
  \/ \E id \in TimerId : Delid(id)
  \/ \E tm \in Times : Expire(tm)

TimerSpec == TimerInit /\ [][TimerNext]_timerVars

----------------------------------------------------------------------------
TimerTypeOK ==
  /\ DOMAIN set \subseteq TimerName /\ \A n \in DOMAIN set : set[n] \in Times
  /\ iter \subseteq Times \X TimerId \X TimerInfo

\* Each timer that is due is answered once, the earlier first, at its last time, and
\* none that was taken back or set to a later time.
FiresOnce ==
  /\ Len(answer) = Cardinality(due)
  /\ {<<a[2], a[3]>> : a \in Range(answer)} = due
  /\ \A i, j \in DOMAIN answer : i < j => answer[i][1] <= answer[j][1]
=============================================================================

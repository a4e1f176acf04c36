----------------------------- MODULE TimeWindow -----------------------------
(***************************************************************************)
(* time/time.lua: when the window that a configuration describes opens and *)
(* closes, or, if it is over, the next one.  Times count ticks, of which a *)
(* day has PerDay; os.date and os.time are external, in a time zone whose  *)
(* clocks are never changed.                                               *)
(***************************************************************************)
EXTENDS Integers, Sequences, FiniteSets

CONSTANTS
  PerDay,
  FirstYear, \* the calendar begins on its first day, a Sunday
  Open,      \* server_open_time, the beginning of a day
  From, To,  \* the times that are gone through
  Longest,   \* bound on the length of a window
  Infos      \* configurations: [kind, at, dur, nth], at and dur as tables

VARIABLE now
timeVars == <<now>>

\* The days of a year before its months, and those of the calendar before a month,
\* counted from its first.
Before == <<0, 31, 59, 90, 120, 151, 181, 212, 243, 273, 304, 334>>
MonthBegins[k \in 0 .. (To + Longest) \div (28 * PerDay) + 24] ==
  LET y == k \div 12  m == (k % 12) + 1
      leaps == {i \in 0 .. y : (FirstYear + i) % 4 = 0 /\ (i < y \/ m > 2)}
  IN  365 * y + Before[m] + Cardinality(leaps)

\* os.date("*t", ts), and os.time of a table whose fields may be out of range.
Date(ts) ==
  LET day == ts \div PerDay
      begun == {k \in (day \div 32) .. (day \div 28) : MonthBegins[k] <= day}
      month == CHOOSE k \in begun : \A j \in begun : j <= k
  IN  [year |-> FirstYear + month \div 12, month |-> (month % 12) + 1,
       day |-> day - MonthBegins[month] + 1, tick |-> ts % PerDay]
Time(tb) ==
  PerDay * (MonthBegins[12 * (tb.year - FirstYear) + tb.month - 1] + tb.day - 1) + tb.tick

\* 1 for Monday to 7 for Sunday.
Weekday(ts) == LET w == (ts \div PerDay) % 7 IN IF w = 0 THEN 7 ELSE w

WeekStart(ts) == ts - (ts % PerDay) - PerDay * (Weekday(ts) - 1)

\* add_duration.
AddDuration(ts, dura) ==
  LET tb == Date(ts)
  IN  Time([tb EXCEPT !.month = @ + dura.month, !.day = @ + dura.day, !.tick = @ + dura.tick])

Window(start, dur) == <<start, AddDuration(start, dur)>>
None == <<>>
IfOpen(w) == IF now < w[2] THEN w ELSE None

\* Mutant: the occurrence before the current one is not tried.
FirstOfTwo(starts, dur) ==
  LET open == {i \in 2 .. 3 : now < Window(starts[i], dur)[2]}
  IN  IF open = {} THEN None ELSE Window(starts[CHOOSE i \in open : \A j \in open : i <= j], dur)

\* The loops over the occurrence before the current one, that one and the next.
FirstOfThree(starts, dur) ==
  LET open == {i \in 1 .. 3 : now < Window(starts[i], dur)[2]}
  IN  IF open = {} THEN None ELSE Window(starts[CHOOSE i \in open : \A j \in open : i <= j], dur)

ParseWeekly(info) ==
  LET first == AddDuration(WeekStart(now), info.at)
  IN  FirstOfThree([i \in 1 .. 3 |-> first + PerDay * (7 * (i - 2) - 1)], info.dur)
ParseDaily(info) ==
  LET tb == [Date(now) EXCEPT !.tick = info.at.tick]
  IN  FirstOfThree([i \in 1 .. 3 |-> Time([tb EXCEPT !.day = @ + i - 2])], info.dur)
\* os.time leaves the normal form in the table: a day that a month lacks would move the
\* months after it.  Days that every month has stay as they are.
ParseMonthly(info) ==
  LET tb == [Date(now) EXCEPT !.day = info.at.day, !.tick = info.at.tick]
  IN  FirstOfThree([i \in 1 .. 3 |-> Time([tb EXCEPT !.month = @ + i - 2])], info.dur)
ParseYearly(info) ==
  LET tb == [year |-> Date(now).year, month |-> info.at.month, day |-> info.at.day, tick |-> info.at.tick]
  IN  FirstOfThree([i \in 1 .. 3 |-> Time([tb EXCEPT !.year = @ + i - 2])], info.dur)
ParseDate(info) ==
  LET tb == [year |-> info.nth, month |-> info.at.month, day |-> info.at.day, tick |-> info.at.tick]
  IN  IfOpen(Window(Time(tb), info.dur))
ParseAfteropenPeriod(info) == IfOpen(Window(AddDuration(Open, info.at), info.dur))
ParseAfteropenWeek(info) ==
  LET wts == AddDuration(WeekStart(Open), info.at) - PerDay
      first == IF wts < Open THEN wts + 7 * PerDay ELSE wts
  IN  IfOpen(Window(first + 7 * PerDay * (info.nth - 1), info.dur))

\* switch.
ParseOne(info) ==
  CASE info.kind = "weekly" -> ParseWeekly(info)
    [] info.kind = "daily" -> ParseDaily(info)
    [] info.kind = "monthly" -> ParseMonthly(info)
    [] info.kind = "yearly" -> ParseYearly(info)
    [] info.kind = "date" -> ParseDate(info)
    [] info.kind = "afteropen_period" -> ParseAfteropenPeriod(info)
    [] info.kind = "afteropen_week" -> ParseAfteropenWeek(info)

\* M.parse: the window that opens first, of equal ones that of the first.
Earliest(windows) ==
  LET open == {i \in DOMAIN windows : windows[i] # None}
      first == CHOOSE i \in open : \A j \in open :
                 windows[i][1] < windows[j][1] \/ (windows[i][1] = windows[j][1] /\ i <= j)
  IN  IF open = {} THEN None ELSE windows[first]
Parse(infos) == Earliest([i \in DOMAIN infos |-> ParseOne(infos[i])])

Init == now = From
\* Time goes on.
Next == now < To /\ now' = now + 1
Spec == Init /\ [][Next]_timeVars

----------------------------------------------------------------------------
TypeOK == now \in From .. To

\* What a configuration says of the times when its window opens.
Opens(info, ts) ==
  LET d == Date(ts)
  IN  /\ info.kind \notin {"afteropen_period"} => d.tick = info.at.tick
      /\ CASE info.kind = "weekly" -> Weekday(ts) = info.at.day
           [] info.kind = "daily" -> TRUE
           [] info.kind = "monthly" -> d.day = info.at.day
           [] info.kind = "yearly" -> d.day = info.at.day /\ d.month = info.at.month
           [] info.kind = "date" -> d.day = info.at.day /\ d.month = info.at.month /\ d.year = info.nth
           [] info.kind = "afteropen_period" -> ts = Open + PerDay * info.at.day + info.at.tick
           [] info.kind = "afteropen_week" ->
                /\ Weekday(ts) = info.at.day
                /\ ts - Open \in 7 * PerDay * (info.nth - 1) .. 7 * PerDay * info.nth - 1

\* The windows of a configuration that are not over, from those that could be on.
Ahead(info, to) == {ts \in now - Longest .. to : Opens(info, ts) /\ now < AddDuration(ts, info.dur)}
IsNext(info, window) ==
  IF window = None THEN Ahead(info, now + Longest) = {}
  ELSE Ahead(info, window[1]) = {window[1]} /\ window[2] = AddDuration(window[1], info.dur)

IsFirst(window) ==
  IF window = None THEN \A i \in DOMAIN Infos : Ahead(Infos[i], now + Longest) = {}
  ELSE /\ \A i \in DOMAIN Infos : Ahead(Infos[i], window[1] - 1) = {}
       /\ \E i \in DOMAIN Infos : IsNext(Infos[i], window)

\* Whenever it is asked, the answer is the first of all windows that is not over: the
\* one that is open, or the next.
TellsTheNextWindow ==
  /\ \A i \in DOMAIN Infos : IsNext(Infos[i], ParseOne(Infos[i]))
  /\ IsFirst(Parse(Infos))
=============================================================================

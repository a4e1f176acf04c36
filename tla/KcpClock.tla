------------------------------ MODULE KcpClock ------------------------------
(***************************************************************************)
(* The times of one kcp connection (kcp/cc/ikcp.c, set up as lkcp.c does:  *)
(* nodelay 2, no congestion window), which Kcp leaves open: when a segment *)
(* is sent again, and when the loop of the application, which asks         *)
(* ikcp_check as ikcp.h advises (lkcp.c leaves the times to the Lua code), *)
(* calls ikcp_update.  The loop may be late by up to MaxLate.              *)
(* The other end takes up at once what is sent; its acks come at any time, *)
(* or never.                                                               *)
(***************************************************************************)
EXTENDS Integers, Functions

CONSTANTS
  TimeMod,      \* clocks count modulo this (2^32)
  Far,          \* 10000: a clock that is farther off was set anew
  Interval,
  RtoMin, RtoDef, RtoMax, \* IKCP_RTO_NDL, IKCP_RTO_DEF, IKCP_RTO_MAX
  FastResend, FastLimit,
  Segment,      \* numbers of the segments that are sent
  Start, MaxTime, \* the times that are gone through
  MaxLate       \* bound

VARIABLES
  now,    \* the clock, which never wraps here
  kcp,    \* [current, updated, ts_flush, queue, buf, rto, srtt, rttval]
  wake    \* when the loop calls ikcp_update
clockVars == <<now, kcp, wake>>

Wrap(t) == t % TimeMod
\* _itimediff.
Diff(later, earlier) == LET d == Wrap(later - earlier) IN IF 2 * d < TimeMod THEN d ELSE d - TimeMod
Least(S) == CHOOSE x \in S : \A y \in S : x <= y

\* ikcp_check, for a clock that shows t.
Check(k, t) ==
  LET ts == IF Diff(Wrap(t), k.ts_flush) \in -Far .. Far - 1 THEN k.ts_flush ELSE Wrap(t)
      packets == {Diff(k.buf[s].resendts, Wrap(t)) : s \in DOMAIN k.buf}
      left == Least({Diff(ts, Wrap(t)), Interval} \cup packets)
  IN  IF k.updated /\ left > 0 THEN t + left ELSE t

Init ==
  /\ now = Start /\ wake = Start
  /\ kcp = [current |-> 0, updated |-> FALSE, ts_flush |-> Interval, queue |-> {},
            buf |-> [s \in {} |-> 0], rto |-> RtoDef, srtt |-> 0, rttval |-> 0]

----------------------------------------------------------------------------
\* ikcp_flush: what is queued is sent, and what is due, or was overtaken, is sent again.
Sent(k, seg) == [seg EXCEPT !.xmit = @ + 1, !.ts = k.current]
Due(k, seg) == Diff(k.current, seg.resendts) >= 0
Flushed(k) ==
  LET new == [xmit |-> 1, ts |-> k.current, rto |-> k.rto, resendts |-> Wrap(k.current + k.rto), fastack |-> 0]
      late(seg) == [Sent(k, seg) EXCEPT !.rto = @ + k.rto \div 2,
                                        !.resendts = Wrap(k.current + seg.rto + k.rto \div 2)]
      fast(seg) == [Sent(k, seg) EXCEPT !.fastack = 0, !.resendts = Wrap(k.current + seg.rto)]
      again(seg) == IF Due(k, seg) THEN late(seg)
                    ELSE IF seg.fastack >= FastResend /\ seg.xmit <= FastLimit THEN fast(seg) ELSE seg
  IN  [k EXCEPT !.queue = {},
                !.buf = [s \in DOMAIN k.buf \cup k.queue |-> IF s \in k.queue THEN new ELSE again(k.buf[s])]]

\* ikcp_update.
Updated(k, t) ==
  LET first == IF k.updated THEN k.ts_flush ELSE Wrap(t)
      c == [k EXCEPT !.current = Wrap(t), !.updated = TRUE,
                     !.ts_flush = IF Diff(Wrap(t), first) \in -Far .. Far - 1 THEN first ELSE Wrap(t)]
      next == Wrap(c.ts_flush + Interval)
  IN  IF Diff(c.current, c.ts_flush) < 0 THEN c
      ELSE Flushed([c EXCEPT !.ts_flush = IF Diff(c.current, next) >= 0 THEN Wrap(t + Interval) ELSE next])

\* ikcp_update_ack.
Measured(k, rtt) ==
  LET delta == IF rtt < k.srtt THEN k.srtt - rtt ELSE rtt - k.srtt
      srtt == IF k.srtt = 0 THEN rtt ELSE IF (7 * k.srtt + rtt) \div 8 < 1 THEN 1 ELSE (7 * k.srtt + rtt) \div 8
      rttval == IF k.srtt = 0 THEN rtt \div 2 ELSE (3 * k.rttval + delta) \div 4
      rto == srtt + (IF Interval < 4 * rttval THEN 4 * rttval ELSE Interval)
  IN  [k EXCEPT !.srtt = srtt, !.rttval = rttval,
                !.rto = IF rto < RtoMin THEN RtoMin ELSE IF rto > RtoMax THEN RtoMax ELSE rto]

\* ikcp_input of the ack of s, which was sent at ts: ikcp_parse_ack, ikcp_parse_fastack.
Acknowledged(k, s, ts) ==
  LET m == IF Diff(k.current, ts) >= 0 THEN Measured(k, Diff(k.current, ts)) ELSE k
      passed(o) == o < s /\ Diff(ts, k.buf[o].ts) >= 0
  IN  [m EXCEPT !.buf = [o \in DOMAIN k.buf \ {s} |->
                           [k.buf[o] EXCEPT !.fastack = IF passed(o) THEN @ + 1 ELSE @]]]

----------------------------------------------------------------------------
\* The loop calls ikcp_update and asks when to do so again.
Update ==
  /\ now >= wake
  /\ kcp' = Updated(kcp, now) /\ wake' = Check(kcp', now)
  /\ UNCHANGED now

\* After ikcp_send and ikcp_input it asks again, unless it is late already.
Again(k) == wake' = IF wake < now THEN wake ELSE Check(k, now)
Send(s) ==
  /\ s \notin DOMAIN kcp.buf /\ \A o \in kcp.queue \cup DOMAIN kcp.buf : o < s
  /\ kcp' = [kcp EXCEPT !.queue = @ \cup {s}] /\ Again(kcp')
  /\ UNCHANGED now
Input(s) ==
  /\ s \in DOMAIN kcp.buf
  /\ kcp' = Acknowledged(kcp, s, kcp.buf[s].ts) /\ Again(kcp')
  /\ UNCHANGED now

Pass == now < wake + MaxLate /\ now < MaxTime /\ now' = now + 1 /\ UNCHANGED <<kcp, wake>>

Next == Update \/ Pass \/ \E s \in Segment : Send(s) \/ Input(s)

Spec == Init /\ [][Next]_clockVars

----------------------------------------------------------------------------
TypeOK ==
  /\ now \in Start .. MaxTime /\ kcp.current \in 0 .. TimeMod - 1 /\ kcp.ts_flush \in 0 .. TimeMod - 1
  /\ kcp.queue \subseteq Segment /\ DOMAIN kcp.buf \subseteq Segment
  /\ kcp.rto \in RtoMin .. RtoMax \/ kcp.rto = RtoDef

\* ikcp.h, 366: whoever calls ikcp_update when ikcp_check says, misses nothing.  Between
\* two calls no flush falls due, a flush is never more than an interval away, and so no
\* segment waits longer than that once it is due; also when clocks wrap, and after the
\* loop was late.
NothingIsLate ==
  kcp.updated =>
    /\ wake - now <= Interval
    /\ \A t \in now .. wake - 1 : Diff(Wrap(t), kcp.ts_flush) < 0
    /\ Diff(kcp.ts_flush, kcp.current) \in 1 .. Interval
    /\ \A s \in DOMAIN kcp.buf : Diff(kcp.current, kcp.buf[s].resendts) < Interval
=============================================================================

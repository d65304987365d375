----------------------------- MODULE DeviceClock -----------------------------
(***************************************************************************)
(* The heartbeat of the Arduino loop (main.cpp, sole_worker_policy.h).     *)
(* millis() counts in uint32 and starts over after 49 days; the width is a *)
(* parameter here.                                                         *)
(***************************************************************************)
EXTENDS Naturals

CONSTANTS
  Width,        \* how many values millis() has (2^32)
  Interval,     \* kHeartbeatMs (10 s)
  MaxPass       \* the longest pass of the loop, its blocking calls included

ASSUME ClockAssumption ==
  /\ Width \in Nat /\ Interval \in Nat \ {0}
  /\ MaxPass \in Nat \ {0}
  /\ Interval + MaxPass < Width

VARIABLES
  millis,       \* the clock
  lastBeat,     \* lastHeartbeatAt
  silence       \* time since the last heartbeat, by a clock that does not wrap

clockVars == <<millis, lastBeat, silence>>

\* A sum or a difference brought back to 0..Width - 1.
Wrap(x) == IF x < Width THEN x ELSE x - Width

\* (Slip: the due time is computed and compared.)
heartbeatDueAt(now, last, interval) == now >= Wrap(last + interval)

\* (now - last) >= interval, in uint32.
heartbeatDue(now, last, interval) == Wrap(now + Width - last) >= interval

ClockInit ==
  /\ millis \in 0..Width - 1
  /\ lastBeat = millis
  /\ silence = 0

\* A pass: a heartbeat if one is due, then a poll that takes its time.
Pass ==
  LET due == heartbeatDue(millis, lastBeat, Interval) IN
  \E d \in 1..MaxPass :
    /\ millis' = Wrap(millis + d)
    /\ lastBeat' = IF due THEN millis ELSE lastBeat
    /\ silence' = IF due THEN d ELSE silence + d

ClockNext == Pass

ClockSpec == ClockInit /\ [][ClockNext]_clockVars

-----------------------------------------------------------------------------
\* The worker is registered again in every stretch of one interval and one pass,
\* whatever millis() does, and never sooner than an interval after the last time.
HeartbeatKeepsPace ==
  /\ silence < Interval + MaxPass
  /\ heartbeatDue(millis, lastBeat, Interval) => silence >= Interval
=============================================================================

--------------------------- MODULE ShutterTracker ---------------------------
(***************************************************************************)
(* The time based position tracker (src/src/shutterPos.cpp) for ONE        *)
(* channel, as functions from a channel record to a channel record.  The   *)
(* module declares no variables: ShutterPos applies these functions to the *)
(* channels a handler touches and adds what crosses component borders (the *)
(* command queue, the radio, the broker).                                  *)
(*                                                                         *)
(* A channel record joins s_shutterState, s_calibState, the two configured *)
(* travel times and the retained status topic of the channel:              *)
(*   pos, posAtStart   position in 0..Full, or UNKNOWN                     *)
(*   target            intermediate target, or EndStop                     *)
(*   startMs, stopAtMs clock readings; stopAtMs = 0 means "no timed stop"  *)
(*   moving, goingDown, pendingMove                                        *)
(*   active, measuring, calDown, calStartMs   the calibration run          *)
(*   travelDown, travelUp                     config.jaro.ch_travel_*      *)
(*   shown             last value published on status/shutter/<n>          *)
(*                                                                         *)
(* An operator marked "Slip" is a plausible bug in the definition below    *)
(* it; no specification uses it, the README tells which property notices.  *)
(***************************************************************************)
EXTENDS Integers

CONSTANTS
  Full,                \* the fully open position, 100 in the code
  Wrap,                \* millis() counts modulo Wrap, 2^32 in the code
  UpNum, UpDen,        \* UP_FACTOR_NUM / UP_FACTOR_DEN, 12 / 10 in the code
  CalibMin, CalibMax   \* plausible travel times, 2000 and 180000 ms

ASSUME FullAssumption  == Full \in Nat /\ Full > 1
ASSUME WrapAssumption  == Wrap \in Nat /\ Wrap > 1
ASSUME UpAssumption    == UpNum \in Nat /\ UpDen \in Nat \ {0}
ASSUME CalibAssumption == CalibMin \in Nat \ {0} /\ CalibMax \in Nat

UNKNOWN == -1
EndStop == -1

Position    == 0 .. Full
Time        == 0 .. Wrap - 1
Ends        == {0, Full}
Between     == Position \ Ends        \* the positions that need a timed stop

\* The end of travel a direction runs into.
EndOf(down) == IF down THEN 0 ELSE Full

ChannelState ==
  [ pos        : Position \cup {UNKNOWN},
    posAtStart : Position \cup {UNKNOWN},
    target     : Between \cup {EndStop},
    startMs    : Time,
    stopAtMs   : Time,
    moving     : BOOLEAN,
    goingDown  : BOOLEAN,
    pendingMove: BOOLEAN,
    active     : BOOLEAN,
    measuring  : BOOLEAN,
    calDown    : BOOLEAN,
    calStartMs : Time,
    travelDown : Nat,
    travelUp   : Nat,
    shown      : Position \cup {UNKNOWN} ]

\* Unsigned difference of two clock readings.
Elapsed(since, now) == (now - since) % Wrap

\* (int32_t)(now - deadline) >= 0
DeadlinePassed(deadline, now) == 2 * Elapsed(deadline, now) < Wrap

Calibrated(s) == s.travelDown > 0

\* The full travel time of one direction; UP falls back to a factor of DOWN.
TravelTime(s, down) ==
  IF down THEN s.travelDown
  ELSE IF s.travelUp > 0 THEN s.travelUp
  ELSE (s.travelDown * UpNum) \div UpDen

\* The way covered since the telegram, in percent, never more than all of it.
Moved(s, now) ==
  LET way == (Elapsed(s.startMs, now) * Full) \div TravelTime(s, s.goingDown)
  IN  IF way > Full THEN Full ELSE way

\* Slip: an unknown start counts as position -1.
EstimateFromUnknown(s, now) ==
  IF ~s.moving \/ TravelTime(s, s.goingDown) = 0 THEN s.pos
  ELSE LET p == IF s.goingDown THEN s.posAtStart - Moved(s, now)
                               ELSE s.posAtStart + Moved(s, now)
       IN  IF p < 0 THEN 0 ELSE IF p > Full THEN Full ELSE p

EstimatePos(s, now) ==
  IF ~s.moving \/ s.posAtStart = UNKNOWN \/ TravelTime(s, s.goingDown) = 0
  THEN s.pos
  ELSE LET p == IF s.goingDown THEN s.posAtStart - Moved(s, now)
                               ELSE s.posAtStart + Moved(s, now)
       IN  IF p < 0 THEN 0 ELSE IF p > Full THEN Full ELSE p

Bank(s, now) == IF s.moving THEN [s EXCEPT !.pos = EstimatePos(s, now)] ELSE s

\* mqttSendPosition: only reaches the broker while there is a session.
Publish(s, p, online) == IF online THEN [s EXCEPT !.shown = p] ELSE s

\* Slip: the position is published before it is set.
SettlePublishingOld(s, p, online) ==
  LET t == Publish(s, s.pos, online)
  IN  [t EXCEPT !.pos = p, !.posAtStart = p, !.target = EndStop,
                !.stopAtMs = 0, !.moving = FALSE, !.pendingMove = FALSE]

SettleAt(s, p, online) ==
  LET t == [s EXCEPT !.pos = p, !.posAtStart = p, !.target = EndStop,
                     !.stopAtMs = 0, !.moving = FALSE, !.pendingMove = FALSE]
  IN  IF p = UNKNOWN THEN t ELSE Publish(t, p, online)

\* How far the target lies ahead in the direction of travel.
Span(s, down) == IF down THEN s.pos - s.target ELSE s.target - s.pos

RunTime(s, down) == (Span(s, down) * TravelTime(s, down)) \div Full

\* A telegram of a calibration run went out: the stopwatch starts here.
StartMeasuring(s, down, now) ==
  [s EXCEPT !.measuring = TRUE, !.calDown = down, !.calStartMs = now,
            !.pos = UNKNOWN, !.posAtStart = UNKNOWN, !.target = EndStop,
            !.stopAtMs = 0, !.pendingMove = FALSE, !.goingDown = down,
            !.moving = TRUE]

\* Slip: a running movement is not banked when the next telegram starts.
StartRunUnbanked(s, down, now) ==
  LET timed == s.pendingMove /\ s.target # EndStop /\ s.pos # UNKNOWN
      run   == [s EXCEPT !.posAtStart = s.pos, !.startMs = now, !.goingDown = down,
                         !.moving = TRUE, !.pendingMove = FALSE]
  IN  IF ~timed THEN [run EXCEPT !.stopAtMs = 0, !.target = EndStop]
      ELSE IF Span(s, down) <= 0 THEN [run EXCEPT !.stopAtMs = now]
      ELSE [run EXCEPT !.stopAtMs = (now + RunTime(s, down)) % Wrap]

\* Slip: the telegram went out, but the movement stays pending.
StartRunStillPending(s, down, now) ==
  [Bank(s, now) EXCEPT !.posAtStart = Bank(s, now).pos, !.startMs = now,
     !.goingDown = down, !.moving = TRUE, !.stopAtMs = 0, !.target = EndStop]

\* Slip: a target that was passed before the telegram went out is not noticed, and
\* the negative span wraps into a long run.
StartRunPastTarget(s, down, now) ==
  LET b     == Bank(s, now)
      timed == b.pendingMove /\ b.target # EndStop /\ b.pos # UNKNOWN
      run   == [b EXCEPT !.posAtStart = b.pos, !.startMs = now, !.goingDown = down,
                         !.moving = TRUE, !.pendingMove = FALSE]
  IN  IF ~timed THEN [run EXCEPT !.stopAtMs = 0, !.target = EndStop]
      ELSE [run EXCEPT !.stopAtMs = (now + RunTime(b, down)) % Wrap]

\* A telegram started an ordinary movement: arm the timed stop, if one is due.
StartRun(s, down, now) ==
  LET b     == Bank(s, now)
      timed == b.pendingMove /\ b.target # EndStop /\ b.pos # UNKNOWN
      run   == [b EXCEPT !.posAtStart = b.pos, !.startMs = now, !.goingDown = down,
                         !.moving = TRUE, !.pendingMove = FALSE]
  IN  IF ~timed THEN [run EXCEPT !.stopAtMs = 0, !.target = EndStop]
      ELSE IF Span(b, down) <= 0 THEN [run EXCEPT !.stopAtMs = now]
      ELSE [run EXCEPT !.stopAtMs = (now + RunTime(b, down)) % Wrap]

\* Slip: a calibration run is not recognised.
StartMovementUncalibrating(s, down, now, online) ==
  IF TravelTime(s, down) = 0 THEN SettleAt(s, EndOf(down), online)
  ELSE StartRun(s, down, now)

StartMovement(s, down, now, online) ==
  IF s.active THEN StartMeasuring(s, down, now)
  ELSE IF TravelTime(s, down) = 0 THEN SettleAt(s, EndOf(down), online)
  ELSE StartRun(s, down, now)

NotifyStop(s, now, online) ==
  IF s.moving THEN SettleAt(s, EstimatePos(s, now), online) ELSE s

\* What one pass of shutterPosCyclic decides for a channel.
StopDue(s, now) ==
  /\ s.moving /\ ~s.active
  /\ s.stopAtMs # 0 /\ DeadlinePassed(s.stopAtMs, now)

\* Slip: the end of a run from an unknown start is read off the estimate.
EndReachedByEstimate(s, now) ==
  /\ s.moving /\ ~s.active /\ s.stopAtMs = 0
  /\ IF s.goingDown THEN EstimatePos(s, now) <= 0 ELSE EstimatePos(s, now) >= Full

EndReached(s, now) ==
  /\ s.moving /\ ~s.active /\ s.stopAtMs = 0
  /\ IF s.posAtStart = UNKNOWN
     THEN Elapsed(s.startMs, now) >= TravelTime(s, s.goingDown)
     ELSE IF s.goingDown THEN EstimatePos(s, now) <= 0 ELSE EstimatePos(s, now) >= Full

\* Slip: the timed stop is sent, the channel is not settled.
CyclicUnsettled(s, now, online) ==
  IF StopDue(s, now) THEN [s EXCEPT !.stopAtMs = 0]
  ELSE IF EndReached(s, now) THEN SettleAt(s, EndOf(s.goingDown), online)
  ELSE s

CyclicChannel(s, now, online) ==
  IF StopDue(s, now) THEN SettleAt(s, s.target, online)
  ELSE IF EndReached(s, now) THEN SettleAt(s, EndOf(s.goingDown), online)
  ELSE s

\* shutterPosSetTarget: the direction in which the banked position b is left.
NeedsDown(b, pct) == IF b.pos = UNKNOWN THEN pct = 0 ELSE pct < b.pos

Aim(b, pct) == [b EXCEPT !.target = IF pct \in Ends THEN EndStop ELSE pct]

\* Slip: the clock of the movement restarts, its start position does not.
RetargetOldStart(b, pct, now) ==
  LET a    == [Aim(b, pct) EXCEPT !.pendingMove = FALSE]
      down == NeedsDown(b, pct)
  IN  IF a.target = EndStop THEN [a EXCEPT !.stopAtMs = 0]
      ELSE IF Span(a, down) <= 0 THEN [a EXCEPT !.stopAtMs = now]
      ELSE [a EXCEPT !.startMs = now, !.stopAtMs = (now + RunTime(a, down)) % Wrap]

\* Already running the right way: move the deadline, send nothing.
Retarget(b, pct, now) ==
  LET a    == [Aim(b, pct) EXCEPT !.pendingMove = FALSE]
      down == NeedsDown(b, pct)
  IN  IF a.target = EndStop THEN [a EXCEPT !.stopAtMs = 0]
      ELSE IF Span(a, down) <= 0 THEN [a EXCEPT !.stopAtMs = now]
      ELSE [a EXCEPT !.posAtStart = a.pos, !.startMs = now,
                     !.stopAtMs = (now + RunTime(a, down)) % Wrap]

\* Slip: the reversal keeps the deadline of the stopped movement.
RedirectOldStop(b, pct) ==
  LET a == [Aim(b, pct) EXCEPT !.pendingMove = TRUE, !.goingDown = NeedsDown(b, pct)]
  IN  IF b.moving THEN [a EXCEPT !.moving = FALSE] ELSE a

\* A new command is needed: a running motor is stopped before it is queued.
Redirect(b, pct) ==
  LET a == [Aim(b, pct) EXCEPT !.pendingMove = TRUE, !.goingDown = NeedsDown(b, pct)]
  IN  IF b.moving THEN [a EXCEPT !.stopAtMs = 0, !.moving = FALSE] ELSE a

\* shutterCalibStart, after a running movement has been stopped.
BeginCalibration(s, down, now, online) ==
  [ NotifyStop(s, now, online) EXCEPT
      !.active = TRUE, !.measuring = FALSE, !.calDown = down, !.calStartMs = 0 ]

EndCalibration(s) == [s EXCEPT !.active = FALSE, !.measuring = FALSE]

\* shutterCalibFinish keeps a measurement only inside the plausible range.
Measured(s, now)  == Elapsed(s.calStartMs, now)
Plausible(s, now) == s.measuring /\ Measured(s, now) \in CalibMin .. CalibMax

StoreMeasurement(s, now, online) ==
  LET t == IF s.calDown THEN [s EXCEPT !.travelDown = Measured(s, now)]
                        ELSE [s EXCEPT !.travelUp = Measured(s, now)]
  IN  SettleAt(EndCalibration(t), EndOf(s.calDown), online)

AbortCalibration(s) == SettleAt(EndCalibration(s), UNKNOWN, FALSE)

\* shutterPosSetup: everything but the configuration and the broker's copy.
PowerUp(s) ==
  [s EXCEPT !.pos = UNKNOWN, !.posAtStart = UNKNOWN, !.target = EndStop,
            !.startMs = 0, !.stopAtMs = 0, !.moving = FALSE, !.goingDown = FALSE,
            !.pendingMove = FALSE, !.active = FALSE, !.measuring = FALSE,
            !.calDown = FALSE, !.calStartMs = 0]
=============================================================================

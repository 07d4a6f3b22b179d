-------------------------- MODULE ShutterPosProofs --------------------------
(***************************************************************************)
(* The invariants of ShutterPos hold for every number of channels, every   *)
(* travel time, clock width and queue capacity, and for any inputs and any *)
(* lag of the loop.                                                        *)
(*                                                                         *)
(* The argument is one channel at a time: Good says that a channel record  *)
(* is well typed and consistent with the telegram the tracker goes by, and *)
(* one lemma per tracker operation says that the operation keeps it so.    *)
(* The step lemmas then only have to pair each action with the operation   *)
(* it applies and the telegram it sends.  Frame, for what a step may never *)
(* do, and Course, for what it may do to a movement, are proved the same   *)
(* way from it.                                                            *)
(***************************************************************************)
EXTENDS ShutterPos, SequenceTheorems, TLAPS

-----------------------------------------------------------------------------
(* The tracker: what its operators do to a well typed channel, for every   *)
(* full position, clock width and travel time.  The proofs about the       *)
(* system cite these lemmas and expand little of the tracker again.        *)

\* A difference of two readings of the wrapping clock is a reading again.
LEMMA ElapsedType ==
  ASSUME NEW a \in Time, NEW b \in Time
  PROVE  Elapsed(a, b) \in Time
  BY WrapAssumption DEF Elapsed, Time

\* A travel time is a natural number, 0 for a channel that is not calibrated.
LEMMA TravelTimeType ==
  ASSUME NEW s \in ChannelState, NEW down \in BOOLEAN
  PROVE  TravelTime(s, down) \in Nat
  BY UpAssumption DEF TravelTime, ChannelState

\* The way covered lies between nothing and all of the travel.
LEMMA MovedRange ==
  ASSUME NEW s \in ChannelState, NEW t \in Time, TravelTime(s, s.goingDown) # 0
  PROVE  Moved(s, t) \in 0 .. Full
<1>1. TravelTime(s, s.goingDown) \in Nat \ {0}
  BY TravelTimeType DEF ChannelState
<1>2. Elapsed(s.startMs, t) \in Nat
  BY ElapsedType DEF ChannelState, Time
<1>3. Elapsed(s.startMs, t) * Full \in Nat
  BY <1>2, FullAssumption
<1> QED BY <1>1, <1>3, FullAssumption DEF Moved

\* The estimate is a position or unknown; a resting channel is where it is
\* held to be, and a run from an unknown start has no estimate of its own.
LEMMA EstimateType ==
  ASSUME NEW s \in ChannelState, NEW t \in Time
  PROVE  /\ EstimatePos(s, t) \in Position \cup {UNKNOWN}
         /\ ~s.moving => EstimatePos(s, t) = s.pos
         /\ s.posAtStart = UNKNOWN => EstimatePos(s, t) = s.pos
         /\ s.pos # UNKNOWN => EstimatePos(s, t) # UNKNOWN
<1>1. CASE ~s.moving \/ s.posAtStart = UNKNOWN \/ TravelTime(s, s.goingDown) = 0
  BY <1>1 DEF EstimatePos, ChannelState
<1>2. CASE s.moving /\ s.posAtStart # UNKNOWN /\ TravelTime(s, s.goingDown) # 0
  <2>1. Moved(s, t) \in 0 .. Full
    BY <1>2, MovedRange
  <2> QED BY <2>1, <1>2, FullAssumption DEF EstimatePos, ChannelState, Position, UNKNOWN
<1> QED BY <1>1, <1>2 DEF ChannelState

\* Banking writes the estimate into the position and nothing else.
LEMMA BankType ==
  ASSUME NEW s \in ChannelState, NEW t \in Time
  PROVE  /\ Bank(s, t) \in ChannelState
         /\ Bank(s, t) = [s EXCEPT !.pos = Bank(s, t).pos]
         /\ s.posAtStart = UNKNOWN \/ ~s.moving => Bank(s, t) = s
         /\ s.pos # UNKNOWN => Bank(s, t).pos # UNKNOWN
  BY EstimateType DEF Bank, ChannelState

\* Settling leaves a channel at rest, where it was told to.
LEMMA SettleType ==
  ASSUME NEW s \in ChannelState, NEW p \in Position \cup {UNKNOWN}, NEW up \in BOOLEAN
  PROVE  LET r == SettleAt(s, p, up) IN
         /\ r \in ChannelState
         /\ r.pos = p /\ r.posAtStart = p
         /\ r.stopAtMs = 0 /\ ~r.moving /\ ~r.pendingMove
         /\ r.active = s.active /\ r.measuring = s.measuring /\ r.calDown = s.calDown
         /\ p # UNKNOWN /\ up => r.shown = p
<1> DEFINE t == [s EXCEPT !.pos = p, !.posAtStart = p, !.target = EndStop,
                          !.stopAtMs = 0, !.moving = FALSE, !.pendingMove = FALSE]
<1>1. t \in ChannelState
  <2>1. 0 \in Time
    BY WrapAssumption DEF Time
  <2> QED BY <2>1, Zenon DEF ChannelState
<1>2. /\ t.pos = p /\ t.posAtStart = p
      /\ t.stopAtMs = 0 /\ ~t.moving /\ ~t.pendingMove
      /\ t.active = s.active /\ t.measuring = s.measuring /\ t.calDown = s.calDown
  BY DEF ChannelState
<1> HIDE DEF t
<1>3. CASE p = UNKNOWN \/ ~up
  <2>1. SettleAt(s, p, up) = t
    BY <1>3 DEF SettleAt, Publish, t
  <2> QED BY <1>1, <1>2, <1>3, <2>1
<1>4. CASE p # UNKNOWN /\ up
  <2>1. SettleAt(s, p, up) = [t EXCEPT !.shown = p]
    BY <1>4 DEF SettleAt, Publish, t
  <2>2. p \in Position
    BY <1>4
  <2>3. [t EXCEPT !.shown = p] \in ChannelState
    BY <1>1, <2>2, Zenon DEF ChannelState
  <2> QED BY <1>1, <1>2, <2>1, <2>3 DEF ChannelState
<1> QED BY <1>3, <1>4

\* The stopwatch of a calibration run starts: the channel has no position.
LEMMA StartMeasuringType ==
  ASSUME NEW s \in ChannelState, NEW down \in BOOLEAN, NEW t \in Time
  PROVE  LET r == StartMeasuring(s, down, t) IN
         /\ r \in ChannelState
         /\ r.pos = UNKNOWN /\ r.posAtStart = UNKNOWN
         /\ r.stopAtMs = 0 /\ r.moving /\ r.goingDown = down /\ ~r.pendingMove
         /\ r.active = s.active /\ r.measuring /\ r.calDown = down
<1>1. 0 \in Time
  BY WrapAssumption DEF Time
<1>2. StartMeasuring(s, down, t) \in ChannelState
  BY <1>1, Zenon DEF StartMeasuring, ChannelState
<1> QED BY <1>2 DEF StartMeasuring, ChannelState

\* A deadline is a reading of the clock.
LEMMA DeadlineType ==
  ASSUME NEW s \in ChannelState, NEW down \in BOOLEAN, NEW t \in Time
  PROVE  (t + RunTime(s, down)) % Wrap \in Time
<1>1. Span(s, down) \in Int
  BY FullAssumption DEF Span, ChannelState, Position, Between, UNKNOWN, EndStop
<1>2. TravelTime(s, down) \in Int
  BY TravelTimeType
<1>3. Span(s, down) * TravelTime(s, down) \in Int
  BY <1>1, <1>2
<1>4. RunTime(s, down) \in Int
  BY <1>3, FullAssumption DEF RunTime
<1> QED BY <1>4, WrapAssumption DEF Time

\* An ordinary movement starts where the estimate stands; a stop is armed only
\* for a known start and a target part way.
LEMMA StartRunType ==
  ASSUME NEW s \in ChannelState, NEW down \in BOOLEAN, NEW t \in Time
  PROVE  LET r == StartRun(s, down, t)
             b == Bank(s, t) IN
         /\ r \in ChannelState
         /\ r.pos = b.pos /\ r.posAtStart = b.pos
         /\ r.moving /\ r.goingDown = down /\ ~r.pendingMove
         /\ r.active = s.active /\ r.measuring = s.measuring /\ r.calDown = s.calDown
         /\ r.stopAtMs # 0 => b.pos # UNKNOWN /\ r.target \in Between
<1> DEFINE b   == Bank(s, t)
           run == [b EXCEPT !.posAtStart = b.pos, !.startMs = t, !.goingDown = down,
                            !.moving = TRUE, !.pendingMove = FALSE]
           timed == b.pendingMove /\ b.target # EndStop /\ b.pos # UNKNOWN
<1>1. /\ b \in ChannelState
      /\ b.active = s.active /\ b.measuring = s.measuring /\ b.calDown = s.calDown
  BY BankType DEF ChannelState
<1> HIDE DEF b
<1>2. run \in ChannelState
  BY <1>1, Zenon DEF ChannelState
<1>3. /\ run.pos = b.pos /\ run.posAtStart = b.pos /\ run.target = b.target
      /\ run.moving /\ run.goingDown = down /\ ~run.pendingMove
      /\ run.active = s.active /\ run.measuring = s.measuring /\ run.calDown = s.calDown
  BY <1>1 DEF ChannelState
<1> HIDE DEF run
<1>4. CASE ~timed
  <2>1. StartRun(s, down, t) = [run EXCEPT !.stopAtMs = 0, !.target = EndStop]
    BY <1>4 DEF StartRun, run, b
  <2>2. 0 \in Time
    BY WrapAssumption DEF Time
  <2>3. [run EXCEPT !.stopAtMs = 0, !.target = EndStop] \in ChannelState
    BY <1>2, <2>2, Zenon DEF ChannelState
  <2> QED BY <1>2, <1>3, <2>1, <2>3 DEF ChannelState, b
<1>5. CASE timed
  <2> DEFINE at == IF Span(b, down) <= 0 THEN t ELSE (t + RunTime(b, down)) % Wrap
  <2>1. StartRun(s, down, t) = [run EXCEPT !.stopAtMs = at]
    BY <1>5 DEF StartRun, run, b
  <2>2. at \in Time
    BY <1>1, DeadlineType
  <2> HIDE DEF at
  <2>3. [run EXCEPT !.stopAtMs = at] \in ChannelState
    BY <1>2, <2>2, Zenon DEF ChannelState
  <2>4. b.target \in Between
    BY <1>1, <1>5 DEF ChannelState
  <2> QED BY <1>2, <1>3, <1>5, <2>1, <2>3, <2>4 DEF ChannelState, b
<1> QED BY <1>4, <1>5

-----------------------------------------------------------------------------
(* One channel and its motor.                                              *)

Good(s, m) == s \in ChannelState /\ m \in Drives /\ ChannelConsistent(s, m)

Telegram(down) == IF down THEN "DOWN" ELSE "UP"

\* A channel settled at p, with a telegram that fits, is good.
LEMMA SettleGood ==
  ASSUME NEW s \in ChannelState, NEW p \in Position \cup {UNKNOWN}, NEW up \in BOOLEAN,
         NEW m \in Drives,
         s.measuring => s.active /\ p = UNKNOWN,
         p \in Between => m \in {"STOP", "SHADE"}
  PROVE  Good(SettleAt(s, p, up), m)
  BY SettleType DEF Good, ChannelConsistent

\* The tracker's answer to a STOP.
LEMMA NotifyStopGood ==
  ASSUME NEW s, NEW m, Good(s, m), NEW t \in Time, NEW up \in BOOLEAN
  PROVE  Good(NotifyStop(s, t, up), "STOP")
<1>1. CASE s.moving
  <2>1. EstimatePos(s, t) \in Position \cup {UNKNOWN}
    BY EstimateType DEF Good
  <2>2. s.measuring => s.active /\ EstimatePos(s, t) = UNKNOWN
    BY EstimateType DEF Good, ChannelConsistent
  <2>3. NotifyStop(s, t, up) = SettleAt(s, EstimatePos(s, t), up)
    BY <1>1 DEF NotifyStop
  <2> QED BY <2>1, <2>2, <2>3, SettleGood DEF Good, Drives, Moves
<1>2. CASE ~s.moving
  BY <1>2 DEF NotifyStop, Good, ChannelConsistent, Drives, Moves
<1> QED BY <1>1, <1>2

\* The tracker's answer to UP and DOWN: a calibration run, an uncalibrated
\* channel and an ordinary movement.
LEMMA StartMovementGood ==
  ASSUME NEW s, NEW m, Good(s, m), NEW down \in BOOLEAN, NEW t \in Time, NEW up \in BOOLEAN
  PROVE  Good(StartMovement(s, down, t, up), Telegram(down))
<1>0. s \in ChannelState /\ Telegram(down) \in Drives
  BY DEF Good, Telegram, Drives, Moves
<1>1. CASE s.active
  BY <1>0, <1>1, StartMeasuringType
     DEF StartMovement, Good, ChannelConsistent, Direction, Telegram
<1>2. CASE ~s.active /\ TravelTime(s, down) = 0
  <2>1. EndOf(down) \in Position /\ EndOf(down) \notin Between
    BY FullAssumption DEF EndOf, Position, Between, Ends
  <2>2. StartMovement(s, down, t, up) = SettleAt(s, EndOf(down), up)
    BY <1>2 DEF StartMovement
  <2> QED BY <1>0, <1>2, <2>1, <2>2, SettleGood DEF Good, ChannelConsistent
<1>3. CASE ~s.active /\ TravelTime(s, down) # 0
  BY <1>0, <1>3, StartRunType
     DEF StartMovement, Good, ChannelConsistent, Direction, Telegram
<1> QED BY <1>1, <1>2, <1>3

\* A publication does not touch what the tracker holds.
LEMMA PublishGood ==
  ASSUME NEW s, NEW m, Good(s, m), NEW p \in Position, NEW up \in BOOLEAN
  PROVE  /\ Good(Publish(s, p, up), m)
         /\ Good(Publish(s, p, up), "SHADE")
<1>1. [s EXCEPT !.shown = p] \in ChannelState
  BY Zenon DEF Good, ChannelState
<1> QED BY <1>1 DEF Publish, Good, ChannelConsistent, Direction, Drives, Moves, ChannelState

\* One pass of shutterPosCyclic, with the STOP it may send.
LEMMA CyclicGood ==
  ASSUME NEW s, NEW m, Good(s, m), NEW t \in Time, NEW up \in BOOLEAN
  PROVE  Good(CyclicChannel(s, t, up), IF StopDue(s, t) THEN "STOP" ELSE m)
<1>1. CASE StopDue(s, t)
  <2>1. s.target \in Position \cup {UNKNOWN} /\ ~s.measuring
    BY <1>1 DEF Good, ChannelConsistent, StopDue, Between
  <2> QED BY <1>1, <2>1, SettleGood DEF CyclicChannel, Good, Drives, Moves
<1>2. CASE ~StopDue(s, t) /\ EndReached(s, t)
  <2>1. EndOf(s.goingDown) \in Position /\ EndOf(s.goingDown) \notin Between
    BY FullAssumption DEF EndOf, Position, Between, Ends
  <2>2. ~s.measuring
    BY <1>2 DEF Good, ChannelConsistent, EndReached
  <2> QED BY <1>2, <2>1, <2>2, SettleGood DEF CyclicChannel, Good
<1>3. CASE ~StopDue(s, t) /\ ~EndReached(s, t)
  BY <1>3 DEF CyclicChannel
<1> QED BY <1>1, <1>2, <1>3

\* Banking the estimate before a new target is judged.
LEMMA BankGood ==
  ASSUME NEW s, NEW m, Good(s, m), NEW t \in Time
  PROVE  LET b == Bank(s, t) IN
         /\ Good(b, m)
         /\ b.moving = s.moving /\ b.active = s.active /\ b.goingDown = s.goingDown
<1> DEFINE b == Bank(s, t)
<1>1. /\ b \in ChannelState
      /\ b = [s EXCEPT !.pos = b.pos]
      /\ s.posAtStart = UNKNOWN \/ ~s.moving => b = s
      /\ s.pos # UNKNOWN => b.pos # UNKNOWN
  BY BankType DEF Good
<1> HIDE DEF b
<1>2. /\ b.moving = s.moving /\ b.active = s.active /\ b.goingDown = s.goingDown
      /\ b.posAtStart = s.posAtStart /\ b.stopAtMs = s.stopAtMs /\ b.target = s.target
      /\ b.measuring = s.measuring /\ b.calDown = s.calDown
  BY <1>1 DEF ChannelState, Good
<1> QED BY <1>1, <1>2 DEF Good, ChannelConsistent, Direction, b

\* The direction of travel is one of the two.
LEMMA NeedsDownType ==
  ASSUME NEW b \in ChannelState, NEW pct \in Position
  PROVE  NeedsDown(b, pct) \in BOOLEAN
<1>1. CASE b.pos = UNKNOWN
  BY <1>1, Zenon DEF NeedsDown
<1>2. CASE b.pos # UNKNOWN
  <2>1. (pct < b.pos) \in BOOLEAN
    BY <1>2 DEF ChannelState, Position
  <2> QED BY <1>2, <2>1, Zenon DEF NeedsDown
<1> QED BY <1>1, <1>2

\* A target as shutterPosSetTarget writes it down.
LEMMA AimType ==
  ASSUME NEW b \in ChannelState, NEW pct \in Position
  PROVE  LET a == Aim(b, pct) IN
         /\ a \in ChannelState
         /\ a.target = IF pct \in Ends THEN EndStop ELSE pct
         /\ a.pos = b.pos /\ a.posAtStart = b.posAtStart /\ a.stopAtMs = b.stopAtMs
         /\ a.moving = b.moving /\ a.goingDown = b.goingDown
         /\ a.active = b.active /\ a.measuring = b.measuring /\ a.calDown = b.calDown
<1>1. (IF pct \in Ends THEN EndStop ELSE pct) \in Between \cup {EndStop}
  BY DEF Between
<1>2. Aim(b, pct) \in ChannelState
  BY <1>1, Zenon DEF Aim, ChannelState
<1> QED BY <1>2 DEF Aim, ChannelState

\* A request the running motor already serves moves the deadline.
LEMMA RetargetGood ==
  ASSUME NEW b, NEW m, Good(b, m), NEW pct \in Position, NEW t \in Time,
         b.moving, b.pos # UNKNOWN \/ pct \in Ends
  PROVE  Good(Retarget(b, pct, t), m)
<1> DEFINE down == NeedsDown(b, pct)
           aim  == Aim(b, pct)
           a    == [aim EXCEPT !.pendingMove = FALSE]
<1>0. /\ aim \in ChannelState
      /\ aim.target = IF pct \in Ends THEN EndStop ELSE pct
      /\ aim.pos = b.pos /\ aim.posAtStart = b.posAtStart /\ aim.stopAtMs = b.stopAtMs
      /\ aim.moving = b.moving /\ aim.goingDown = b.goingDown
      /\ aim.active = b.active /\ aim.measuring = b.measuring /\ aim.calDown = b.calDown
  BY AimType DEF Good
<1> HIDE DEF aim
<1>1. a \in ChannelState
  BY <1>0, Zenon DEF ChannelState
<1>2. /\ a.target = aim.target
      /\ a.pos = b.pos /\ a.posAtStart = b.posAtStart /\ a.stopAtMs = b.stopAtMs
      /\ a.moving = b.moving /\ a.goingDown = b.goingDown
      /\ a.active = b.active /\ a.measuring = b.measuring /\ a.calDown = b.calDown
  BY <1>0 DEF ChannelState
<1>3. 0 \in Time /\ down \in BOOLEAN
  BY WrapAssumption, NeedsDownType DEF Time, Good
<1> HIDE DEF a, down
<1>4. CASE pct \in Ends
  <2>1. Retarget(b, pct, t) = [a EXCEPT !.stopAtMs = 0]
    BY <1>0, <1>2, <1>4 DEF Retarget, a, aim
  <2> DEFINE r == [a EXCEPT !.stopAtMs = 0]
  <2>2. r \in ChannelState
    BY <1>1, <1>3, Zenon DEF ChannelState
  <2>3. /\ r.pos = a.pos /\ r.posAtStart = a.posAtStart /\ r.stopAtMs = 0
        /\ r.moving = a.moving /\ r.goingDown = a.goingDown
        /\ r.active = a.active /\ r.measuring = a.measuring /\ r.calDown = a.calDown
    BY <1>1 DEF ChannelState
  <2> HIDE DEF r
  <2> QED BY <1>2, <2>1, <2>2, <2>3 DEF Good, ChannelConsistent, Direction, r
<1>5. CASE pct \notin Ends
  <2>1. a.target \in Between /\ a.target # EndStop
    BY <1>0, <1>2, <1>5, FullAssumption DEF Between, Position, EndStop
  <2>2. ~b.active /\ b.pos # UNKNOWN
    BY <1>5 DEF Good, ChannelConsistent
  <2>3. CASE Span(a, down) <= 0
    <3>1. Retarget(b, pct, t) = [a EXCEPT !.stopAtMs = t]
      BY <2>1, <2>3 DEF Retarget, a, aim, down
    <3>2. [a EXCEPT !.stopAtMs = t] \in ChannelState
      BY <1>1, Zenon DEF ChannelState
    <3> QED BY <1>1, <1>2, <2>1, <2>2, <3>1, <3>2
            DEF Good, ChannelConsistent, Direction, ChannelState
  <2>4. CASE ~(Span(a, down) <= 0)
    <3> DEFINE at == (t + RunTime(a, down)) % Wrap
               r  == [a EXCEPT !.posAtStart = a.pos, !.startMs = t, !.stopAtMs = at]
    <3>1. Retarget(b, pct, t) = r
      BY <2>1, <2>4 DEF Retarget, a, aim, down
    <3>2. at \in Time
      BY <1>1, <1>3, DeadlineType
    <3> HIDE DEF at
    <3>3. r \in ChannelState
      BY <1>1, <3>2, Zenon DEF ChannelState
    <3>4. /\ r.pos = a.pos /\ r.posAtStart = a.pos /\ r.target = a.target
          /\ r.moving = a.moving /\ r.goingDown = a.goingDown
          /\ r.active = a.active /\ r.measuring = a.measuring /\ r.calDown = a.calDown
      BY <1>1 DEF ChannelState
    <3> HIDE DEF r
    <3> QED BY <1>2, <2>1, <2>2, <3>1, <3>3, <3>4 DEF Good, ChannelConsistent, Direction
  <2> QED BY <2>3, <2>4
<1> QED BY <1>4, <1>5

\* A request that needs a telegram: the running motor is stopped first.
LEMMA RedirectGood ==
  ASSUME NEW b, NEW m, Good(b, m), NEW pct \in Position
  PROVE  Good(Redirect(b, pct), IF b.moving THEN "STOP" ELSE m)
<1> DEFINE down == NeedsDown(b, pct)
           aim  == Aim(b, pct)
           a    == [aim EXCEPT !.pendingMove = TRUE, !.goingDown = down]
<1>0. /\ aim \in ChannelState
      /\ aim.pos = b.pos /\ aim.posAtStart = b.posAtStart /\ aim.stopAtMs = b.stopAtMs
      /\ aim.moving = b.moving
      /\ aim.active = b.active /\ aim.measuring = b.measuring
  BY AimType DEF Good
<1>1. down \in BOOLEAN /\ 0 \in Time
  BY WrapAssumption, NeedsDownType DEF Time, Good
<1> HIDE DEF aim, down
<1>2. a \in ChannelState
  BY <1>0, <1>1, Zenon DEF ChannelState
<1>3. /\ a.pos = b.pos /\ a.posAtStart = b.posAtStart /\ a.stopAtMs = b.stopAtMs
      /\ a.moving = b.moving
      /\ a.active = b.active /\ a.measuring = b.measuring
  BY <1>0 DEF ChannelState
<1> HIDE DEF a
<1>4. CASE b.moving
  <2>1. Redirect(b, pct) = [a EXCEPT !.stopAtMs = 0, !.moving = FALSE]
    BY <1>4 DEF Redirect, a, aim, down
  <2>2. [a EXCEPT !.stopAtMs = 0, !.moving = FALSE] \in ChannelState
    BY <1>1, <1>2, Zenon DEF ChannelState
  <2> QED BY <1>2, <1>3, <1>4, <2>1, <2>2
          DEF Good, ChannelConsistent, ChannelState, Drives, Moves
<1>5. CASE ~b.moving
  <2>1. Redirect(b, pct) = a
    BY <1>5 DEF Redirect, a, aim, down
  <2> QED BY <1>2, <1>3, <1>5, <2>1 DEF Good, ChannelConsistent
<1> QED BY <1>4, <1>5

\* A calibration run is opened on a channel that has none.
LEMMA BeginCalibrationGood ==
  ASSUME NEW s, NEW m, Good(s, m), ~s.active, NEW down \in BOOLEAN,
         NEW t \in Time, NEW up \in BOOLEAN
  PROVE  Good(BeginCalibration(s, down, t, up), IF s.moving THEN "STOP" ELSE m)
<1> DEFINE n == NotifyStop(s, t, up)
           r == [n EXCEPT !.active = TRUE, !.measuring = FALSE,
                          !.calDown = down, !.calStartMs = 0]
<1>1. Good(n, IF s.moving THEN "STOP" ELSE m) /\ ~n.moving
  <2>1. CASE s.moving
    BY <2>1, NotifyStopGood, EstimateType, SettleType DEF NotifyStop, Good
  <2>2. CASE ~s.moving
    BY <2>2 DEF NotifyStop
  <2> QED BY <2>1, <2>2
<1> HIDE DEF n
<1>2. 0 \in Time
  BY WrapAssumption DEF Time
<1>3. r \in ChannelState
  BY <1>1, <1>2, Zenon DEF Good, ChannelState
<1>4. /\ r.pos = n.pos /\ r.posAtStart = n.posAtStart /\ r.stopAtMs = n.stopAtMs
      /\ r.moving = n.moving /\ ~r.measuring
  BY <1>1 DEF Good, ChannelState
<1> HIDE DEF r
<1>5. BeginCalibration(s, down, t, up) = r
  BY DEF BeginCalibration, r, n
<1> QED BY <1>1, <1>3, <1>4, <1>5 DEF Good, ChannelConsistent

\* The run is closed, before the channel is settled.
LEMMA EndCalibrationType ==
  ASSUME NEW s \in ChannelState
  PROVE  LET r == EndCalibration(s) IN
         /\ r \in ChannelState /\ ~r.active /\ ~r.measuring
<1>1. EndCalibration(s) \in ChannelState
  BY Zenon DEF EndCalibration, ChannelState
<1> QED BY <1>1 DEF EndCalibration, ChannelState

\* A kept measurement becomes the travel time and settles the channel at an end.
LEMMA StoreMeasurementGood ==
  ASSUME NEW s, NEW m, Good(s, m), NEW t \in Time, NEW up \in BOOLEAN
  PROVE  Good(StoreMeasurement(s, t, up), m)
<1> DEFINE k == IF s.calDown THEN [s EXCEPT !.travelDown = Measured(s, t)]
                             ELSE [s EXCEPT !.travelUp = Measured(s, t)]
<1>1. Measured(s, t) \in Nat
  BY ElapsedType DEF Measured, Good, ChannelState, Time
<1>2. [s EXCEPT !.travelDown = Measured(s, t)] \in ChannelState
  BY <1>1, Zenon DEF Good, ChannelState
<1>3. [s EXCEPT !.travelUp = Measured(s, t)] \in ChannelState
  BY <1>1, Zenon DEF Good, ChannelState
<1>4. EndCalibration(k) \in ChannelState /\ ~EndCalibration(k).measuring
  BY <1>2, <1>3, EndCalibrationType
<1>5. EndOf(s.calDown) \in Position /\ EndOf(s.calDown) \notin Between
  BY FullAssumption DEF EndOf, Position, Between, Ends
<1> HIDE DEF k
<1>6. StoreMeasurement(s, t, up) = SettleAt(EndCalibration(k), EndOf(s.calDown), up)
  BY DEF StoreMeasurement, k
<1> QED BY <1>4, <1>5, <1>6, SettleGood DEF Good

\* An aborted or implausible run leaves the position unknown.
LEMMA AbortCalibrationGood ==
  ASSUME NEW s, NEW m, Good(s, m), NEW n \in Drives
  PROVE  Good(AbortCalibration(s), n)
<1>1. UNKNOWN \notin Between
  BY FullAssumption DEF UNKNOWN, Between, Position
<1> QED BY <1>1, EndCalibrationType, SettleGood DEF AbortCalibration, Good

\* Other travel times change the estimate, never the record of the movement.
LEMMA UploadGood ==
  ASSUME NEW s, NEW m, Good(s, m), NEW d \in Nat, NEW u \in Nat
  PROVE  Good([s EXCEPT !.travelDown = d, !.travelUp = u], m)
<1> DEFINE r == [s EXCEPT !.travelDown = d, !.travelUp = u]
<1>1. r \in ChannelState
  BY Zenon DEF Good, ChannelState
<1>2. /\ r.pos = s.pos /\ r.posAtStart = s.posAtStart /\ r.target = s.target
      /\ r.stopAtMs = s.stopAtMs /\ r.moving = s.moving /\ r.goingDown = s.goingDown
      /\ r.active = s.active /\ r.measuring = s.measuring /\ r.calDown = s.calDown
  BY DEF Good, ChannelState
<1> HIDE DEF r
<1> QED BY <1>1, <1>2 DEF Good, ChannelConsistent, Direction, r

\* A channel after shutterPosSetup, whatever its motor was last told.
LEMMA PowerUpGood ==
  ASSUME NEW s \in ChannelState, NEW m \in Drives
  PROVE  Good(PowerUp(s), m)
<1>1. 0 \in Time
  BY WrapAssumption DEF Time
<1>2. PowerUp(s) \in ChannelState
  BY <1>1, Zenon DEF PowerUp, ChannelState
<1>3. LET r == PowerUp(s) IN
        /\ r.pos = UNKNOWN /\ r.posAtStart = UNKNOWN /\ r.stopAtMs = 0
        /\ ~r.moving /\ ~r.measuring
  BY DEF PowerUp, ChannelState
<1>4. UNKNOWN \notin Between
  BY FullAssumption DEF UNKNOWN, Between, Position
<1> QED BY <1>2, <1>3, <1>4 DEF Good, ChannelConsistent

-----------------------------------------------------------------------------
(* The inductive invariant of the system and its steps.                    *)

IInv == TypeOK /\ Consistent

\* The tracker's answer to any telegram, with the telegram.
LEMMA NotifiedGood ==
  ASSUME NEW s, NEW m, Good(s, m), NEW fn \in Moves \cup {"STOP", "SHADE", "OTHER"},
         NEW t \in Time, online \in BOOLEAN
  PROVE  Good(Notified(s, fn, t), IF fn \in Drives THEN fn ELSE m)
<1>1. CASE fn = "DOWN"
  BY <1>1, StartMovementGood DEF Notified, Telegram, Drives, Moves
<1>2. CASE fn = "UP"
  BY <1>2, StartMovementGood DEF Notified, Telegram, Drives, Moves
<1>3. CASE fn = "STOP"
  BY <1>3, NotifyStopGood DEF Notified, Drives, Moves
<1>4. CASE fn = "SHADE"
  BY <1>4, PublishGood, ShadeAssumption DEF Notified, Drives, Moves
<1>5. CASE fn = "OTHER"
  BY <1>5 DEF Notified, Drives, Moves
<1> QED BY <1>1, <1>2, <1>3, <1>4, <1>5 DEF Moves

\* The channels with the telegrams the tracker goes by, the air, the queue, and
\* everything around them.
ChannelsGood ==
  /\ shutter \in [Channel -> ChannelState]
  /\ motor \in [Channel -> Drives]
  /\ \A c \in Channel : Good(shutter[c], Followed(c))

AirGood ==
  /\ heard \in Seq(HeardFrame) /\ Len(heard) <= Places
  /\ told \in SUBSET Channel
  /\ FramesCurrent

QueueType ==
  /\ jaroCmdQueue \in Seq(Command) /\ Len(jaroCmdQueue) <= MaxCmd
  /\ dropped \in SUBSET Channel

RestType ==
  /\ radioDue \in BOOLEAN
  /\ online \in BOOLEAN
  /\ now \in Time
  /\ lag \in Nat
  /\ inputs \in Nat

AllGood == ChannelsGood /\ AirGood /\ QueueType /\ RestType

\* The inductive invariant, taken apart by what a handler can disturb.
LEMMA IInvParts == IInv <=> AllGood
<1>1. ASSUME motor \in [Channel -> Drives], NEW c \in Channel
      PROVE  Followed(c) \in Drives
  BY <1>1 DEF Followed, Drives
<1> QED BY <1>1 DEF IInv, TypeOK, Consistent, AllGood, ChannelsGood, AirGood, QueueType,
                    RestType, Good

\* The telegram the tracker goes by is one a motor acts on.
LEMMA FollowedType == ChannelsGood => \A c \in Channel : Followed(c) \in Drives
  BY DEF ChannelsGood, Good

\* Whoever is consistent with a telegram is so when nothing is known of the motor.
LEMMA GoodUnknown ==
  ASSUME NEW s, NEW m, Good(s, m)
  PROVE  Good(s, "SHADE")
  BY DEF Good, ChannelConsistent, Drives

\* Queueing keeps the queue well typed and within its capacity.
LEMMA EnqueueType ==
  ASSUME QueueType, NEW cmd \in Command, Enqueue(cmd)
  PROVE  QueueType'
<1>1. CASE Len(jaroCmdQueue) < MaxCmd
  <2>1. jaroCmdQueue' = Append(jaroCmdQueue, cmd) /\ dropped' = dropped
    BY <1>1 DEF Enqueue
  <2> QED BY <1>1, <2>1, QueueAssumption DEF QueueType
<1>2. CASE ~(Len(jaroCmdQueue) < MaxCmd)
  BY <1>2 DEF Enqueue, QueueType, Command
<1> QED BY <1>1, <1>2

\* The command of a position request is one the queue can hold.
LEMMA DriveCmdType ==
  ASSUME NEW down \in BOOLEAN, NEW c \in Channel
  PROVE  DriveCmd(down, c) \in Command
  BY DEF DriveCmd, Command, Moves

\* A telegram to some channels overtakes the frames that wait for them.
LEMMA OvertakenType ==
  ASSUME NEW frames \in Seq(HeardFrame), NEW to \in SUBSET Channel
  PROVE  LET o == Overtaken(frames, to) IN
         /\ o \in Seq(HeardFrame) /\ Len(o) = Len(frames)
         /\ \A i \in 1 .. Len(frames) :
              /\ o[i].fn = frames[i].fn /\ o[i].to = frames[i].to
              /\ o[i].late = frames[i].late \cup (to \cap frames[i].to)
<1> DEFINE late(f) == [f EXCEPT !.late = @ \cup (to \cap f.to)]
           n == Len(frames)
           o == Overtaken(frames, to)
<1>1. ASSUME NEW f \in HeardFrame
      PROVE  /\ late(f) \in HeardFrame
             /\ late(f).fn = f.fn /\ late(f).to = f.to
             /\ late(f).late = f.late \cup (to \cap f.to)
  BY DEF HeardFrame
<1>2. n \in Nat /\ \A i \in 1 .. n : frames[i] \in HeardFrame
  OBVIOUS
<1>3. o = [i \in 1 .. n |-> late(frames[i])]
  BY DEF Overtaken
<1> HIDE DEF late, n
<1>4. o \in [1 .. n -> HeardFrame]
  BY <1>1, <1>2, <1>3
<1>5. o \in Seq(HeardFrame) /\ Len(o) = n
  BY <1>2, <1>4
<1> QED BY <1>1, <1>2, <1>3, <1>5 DEF n

\* The motors agree with the frames that wait in q.
Current(q) == \A i \in 1 .. Len(q) : \A c \in q[i].to \ q[i].late : motor[c] = q[i].fn

\* They still do after a telegram that changes only the motors it is for.
LEMMA OvertakenCurrent ==
  ASSUME NEW q \in Seq(HeardFrame), Current(q), NEW to \in SUBSET Channel,
         \A c \in Channel \ to : motor'[c] = motor[c]
  PROVE  LET o == Overtaken(q, to) IN
         \A i \in 1 .. Len(o) : \A c \in o[i].to \ o[i].late : motor'[c] = o[i].fn
<1> DEFINE o == Overtaken(q, to)
<1>1. /\ Len(o) = Len(q)
      /\ \A i \in 1 .. Len(q) :
           /\ o[i].fn = q[i].fn /\ o[i].to = q[i].to
           /\ o[i].late = q[i].late \cup (to \cap q[i].to)
  BY OvertakenType
<1>2. \A i \in 1 .. Len(q) : q[i].to \in SUBSET Channel
  <2>1. \A f \in HeardFrame : f.to \in SUBSET Channel
    BY DEF HeardFrame
  <2>2. \A i \in 1 .. Len(q) : q[i] \in HeardFrame
    OBVIOUS
  <2> QED BY <2>1, <2>2
<1> HIDE DEF o
<1>3. ASSUME NEW i \in 1 .. Len(o), NEW c \in o[i].to \ o[i].late
      PROVE  motor'[c] = o[i].fn
  <2>1. i \in 1 .. Len(q) /\ c \in q[i].to \ q[i].late /\ c \in Channel \ to
    BY <1>1, <1>2, <1>3
  <2> QED BY <1>1, <2>1 DEF Current
<1> QED BY <1>3 DEF o

\* The first frames of those that wait.
LEMMA FirstFrames ==
  ASSUME NEW q \in Seq(HeardFrame), Current(q), NEW n \in 0 .. Len(q)
  PROVE  LET p == SubSeq(q, 1, n) IN
         p \in Seq(HeardFrame) /\ Len(p) = n /\ Current(p)
<1> DEFINE p == SubSeq(q, 1, n)
<1>1. \A i \in 1 .. n : q[i] \in HeardFrame
  OBVIOUS
<1>2. /\ p \in Seq(HeardFrame) /\ Len(p) = n
      /\ \A i \in 1 .. n : p[i] = q[i]
  BY <1>1, SubSeqProperties
<1> HIDE DEF p
<1> QED BY <1>2 DEF Current, p

\* What a transmission does to the air.
LEMMA TransmitAir ==
  ASSUME AirGood, NEW to \in SUBSET Channel, Transmit(to),
         \A c \in Channel \ to : motor'[c] = motor[c]
  PROVE  AirGood' /\ told' = told \cup to
<1>1. PICK n \in {Len(heard), Len(heard) - 1} \cap Nat :
        heard' = Overtaken(SubSeq(heard, 1, n), to)
  BY DEF Transmit
<1>2. /\ heard \in Seq(HeardFrame) /\ Current(heard) /\ n \in 0 .. Len(heard)
      /\ Len(heard) <= Places
  BY <1>1 DEF AirGood, FramesCurrent, Current
<1>3. PICK p \in Seq(HeardFrame) : p = SubSeq(heard, 1, n) /\ Len(p) = n /\ Current(p)
  BY <1>2, FirstFrames
<1>4. heard' \in Seq(HeardFrame) /\ Len(heard') = n
  BY <1>1, <1>3, OvertakenType
<1>5. FramesCurrent'
  <2>1. heard' = Overtaken(p, to)
    BY <1>1, <1>3
  <2>2. \A i \in 1 .. Len(Overtaken(p, to)) :
          \A c \in Overtaken(p, to)[i].to \ Overtaken(p, to)[i].late :
            motor'[c] = Overtaken(p, to)[i].fn
    BY <1>3, OvertakenCurrent
  <2> QED BY <2>1, <2>2 DEF FramesCurrent
<1>6. n <= Places
  BY <1>2 DEF Places
<1> QED BY <1>4, <1>5, <1>6 DEF AirGood, Transmit

\* A handler that sends nothing.
LEMMA SilentAir ==
  ASSUME AirGood, SendNothing
  PROVE  AirGood' /\ \A c : Followed(c)' = Followed(c)
  BY DEF AirGood, FramesCurrent, SendNothing, air, Followed

\* A handler that works on one channel: it sends a STOP, or nothing.
LEMMA UpdateGood ==
  ASSUME ChannelsGood, AirGood, NEW c \in Channel, NEW s, Update(c, s),
         \/ StopMotor(c) /\ Good(s, "STOP")
         \/ SendNothing /\ Good(s, Followed(c))
  PROVE  ChannelsGood' /\ AirGood'
<1>1. /\ shutter' \in [Channel -> ChannelState]
      /\ shutter'[c] = s /\ \A d \in Channel \ {c} : shutter'[d] = shutter[d]
  BY DEF Update, ChannelsGood, Good
<1>2. CASE StopMotor(c) /\ Good(s, "STOP")
  <2>1. /\ motor' \in [Channel -> Drives]
        /\ motor'[c] = "STOP" /\ \A d \in Channel \ {c} : motor'[d] = motor[d]
    BY <1>2 DEF StopMotor, ChannelsGood, Drives
  <2>2. AirGood' /\ told' = told \cup {c}
    BY <1>2, <2>1, TransmitAir DEF StopMotor
  <2>3. Followed(c)' = "STOP" /\ \A d \in Channel \ {c} : Followed(d)' = Followed(d)
    BY <2>1, <2>2 DEF Followed
  <2>4. \A d \in Channel : Good(shutter'[d], Followed(d)')
    BY <1>1, <1>2, <2>3 DEF ChannelsGood
  <2> QED BY <1>1, <2>1, <2>2, <2>4 DEF ChannelsGood
<1>3. CASE SendNothing /\ Good(s, Followed(c))
  <2>1. AirGood' /\ motor' = motor /\ \A d \in Channel : Followed(d)' = Followed(d)
    BY <1>3, SilentAir DEF SendNothing
  <2>2. \A d \in Channel : Good(shutter'[d], Followed(d)')
    BY <1>1, <1>3, <2>1 DEF ChannelsGood
  <2> QED BY <1>1, <2>1, <2>2 DEF ChannelsGood
<1> QED BY <1>2, <1>3

\* The telegram the tracker goes by after the channels of cmd were sent one.
After(cmd, c) == IF c \in Reached(cmd) THEN cmd.fn ELSE Followed(c)

\* A telegram to a set of channels.
LEMMA AllNotifiedGood ==
  ASSUME ChannelsGood, RestType, NEW cmd \in Command
  PROVE  /\ AllNotified(cmd) \in [Channel -> ChannelState]
         /\ Obeyed(cmd) \in [Channel -> Drives]
         /\ \A c \in Channel : Good(AllNotified(cmd)[c], After(cmd, c))
<1>1. ASSUME NEW c \in Channel
      PROVE  Good(AllNotified(cmd)[c], After(cmd, c))
  <2>1. CASE c \in cmd.to
    <3>1. /\ AllNotified(cmd)[c] = Notified(shutter[c], cmd.fn, now)
          /\ After(cmd, c) = IF cmd.fn \in Drives THEN cmd.fn ELSE Followed(c)
      BY <2>1 DEF AllNotified, After, Reached
    <3>2. cmd.fn \in Moves \cup {"STOP", "SHADE", "OTHER"}
      BY DEF Command
    <3> QED BY <3>1, <3>2, NotifiedGood DEF ChannelsGood, RestType
  <2>2. CASE c \notin cmd.to
    BY <2>2 DEF AllNotified, After, Reached, ChannelsGood
  <2> QED BY <2>1, <2>2
<1>2. Obeyed(cmd) \in [Channel -> Drives]
  BY DEF Obeyed, ChannelsGood
<1> QED BY <1>1, <1>2 DEF AllNotified, Good

\* A pass over channels sh, of which those in to were just sent mo: the sweep may
\* stop some of them.
LEMMA PassGood ==
  ASSUME ChannelsGood, AirGood, RestType,
         NEW sh, NEW mo \in [Channel -> Drives], NEW to \in SUBSET Channel,
         \A c \in Channel : Good(sh[c], IF c \in to THEN mo[c] ELSE Followed(c)),
         \A c \in Channel \ to : mo[c] = motor[c],
         shutter' = Swept(sh), motor' = Stopped(sh, mo),
         \/ Transmit(to \cup Halted(sh))
         \/ to \cup Halted(sh) = {} /\ UNCHANGED air
  PROVE  ChannelsGood' /\ AirGood'
<1>1. ASSUME NEW c \in Channel
      PROVE  /\ shutter'[c] = CyclicChannel(sh[c], now, online)
             /\ motor'[c] = IF StopDue(sh[c], now) THEN "STOP" ELSE mo[c]
             /\ c \in Halted(sh) <=> StopDue(sh[c], now)
  BY DEF Swept, Stopped, Halted
<1>2. motor' \in [Channel -> Drives]
  BY DEF Stopped, Drives
<1>3. Halted(sh) \in SUBSET Channel
  BY DEF Halted
<1>4. \A c \in Channel \ (to \cup Halted(sh)) : motor'[c] = motor[c]
  BY <1>1
<1>5. AirGood' /\ told' = told \cup to \cup Halted(sh)
  <2>1. CASE Transmit(to \cup Halted(sh))
    BY <1>3, <1>4, <2>1, TransmitAir
  <2>2. CASE to \cup Halted(sh) = {} /\ UNCHANGED air
    <3>1. motor' = motor
      BY <1>2, <1>4, <2>2 DEF ChannelsGood
    <3> QED BY <2>2, <3>1, SilentAir DEF SendNothing, air
  <2> QED BY <2>1, <2>2
<1>6. ASSUME NEW c \in Channel
      PROVE  Good(shutter'[c], Followed(c)')
  <2> DEFINE m == IF c \in to THEN mo[c] ELSE Followed(c)
  <2>1. Followed(c)' = IF StopDue(sh[c], now) THEN "STOP" ELSE m
    BY <1>1, <1>4, <1>5 DEF Followed
  <2>2. Good(sh[c], m)
    OBVIOUS
  <2> HIDE DEF m
  <2>3. Good(CyclicChannel(sh[c], now, online), IF StopDue(sh[c], now) THEN "STOP" ELSE m)
    BY <2>2, CyclicGood DEF RestType
  <2> QED BY <1>1, <2>1, <2>3
<1>7. shutter' \in [Channel -> ChannelState]
  BY <1>6 DEF Swept, Good
<1> QED BY <1>2, <1>5, <1>6, <1>7 DEF ChannelsGood

\* Init => IInv
LEMMA InitIInv == Init => IInv
<1> SUFFICES ASSUME Init PROVE IInv
  OBVIOUS
<1>1. 0 \in Time
  BY WrapAssumption DEF Time
<1>2. ChannelsGood /\ AirGood
  <2>1. PICK t \in [Channel -> TravelTimes] :
          shutter = [c \in Channel |-> PowerUp(Unpowered(t[c]))]
    BY DEF Init
  <2>2. ASSUME NEW c \in Channel PROVE Good(shutter[c], Followed(c))
    <3>1. t[c][1] \in Nat /\ t[c][2] \in Nat
      BY TravelAssumption
    <3>2. Unpowered(t[c]) \in ChannelState
      BY <1>1, <3>1 DEF Unpowered, ChannelState
    <3>3. shutter[c] = PowerUp(Unpowered(t[c])) /\ Followed(c) = "STOP"
      BY <2>1 DEF Init, Followed
    <3> QED BY <3>2, <3>3, PowerUpGood DEF Drives
  <2>3. ChannelsGood
    BY <2>1, <2>2 DEF ChannelsGood, Init, Good, Drives
  <2>4. AirGood
    BY DEF Init, AirGood, FramesCurrent, Places
  <2> QED BY <2>3, <2>4
<1>3. QueueType
  <2>1. << >> \in Seq(Command)
    OBVIOUS
  <2>2. Len(<< >>) <= MaxCmd
    BY QueueAssumption
  <2>3. jaroCmdQueue = << >> /\ dropped = {}
    BY DEF Init
  <2> QED BY <2>1, <2>2, <2>3, Zenon DEF QueueType
<1>4. RestType
  BY <1>1 DEF Init, RestType
<1> QED BY <1>2, <1>3, <1>4, IInvParts DEF AllGood

\* shutterPosSetTarget, all its ways through.
LEMMA SetTargetStep ==
  ASSUME AllGood,
         NEW c \in Channel, NEW pct \in Position, SetTarget(c, pct)
  PROVE  AllGood'
<1> DEFINE s == shutter[c]
           b == Bank(s, now)
           here   == pct \notin Ends /\ b.pos = pct
           refuse == pct \notin Ends /\ b.pos = UNKNOWN
           onWay  == b.moving /\ b.goingDown = NeedsDown(b, pct)
<1>0. ChannelsGood /\ AirGood /\ QueueType /\ RestType
  BY DEF AllGood
<1>1. RestType'
  BY <1>0 DEF SetTarget, Input, Untimed, RestType
<1>2. Good(b, Followed(c))
  BY <1>0, BankGood DEF ChannelsGood, RestType
<1>3. b \in ChannelState
  BY <1>2 DEF Good
<1> HIDE DEF b
<1>4. CASE /\ here /\ ~b.moving
           /\ SendNothing /\ UNCHANGED <<shutter, jaroCmdQueue, dropped>>
  <2>1. ChannelsGood' /\ AirGood'
    BY <1>0, <1>4, SilentAir DEF ChannelsGood, SendNothing
  <2> QED BY <1>0, <1>1, <1>4, <2>1 DEF AllGood, QueueType
<1>5. CASE /\ here /\ b.moving
           /\ StopMotor(c)
           /\ Update(c, SettleAt(b, b.pos, online))
           /\ UNCHANGED <<jaroCmdQueue, dropped>>
  <2>1. b.pos \in Position \cup {UNKNOWN} /\ "STOP" \in Drives
    BY <1>3 DEF ChannelState, Drives
  <2>2. Good(SettleAt(b, b.pos, online), "STOP")
    BY <1>0, <1>2, <2>1, SettleGood DEF Good, ChannelConsistent, RestType
  <2>3. ChannelsGood' /\ AirGood'
    BY <1>0, <1>5, <2>2, UpdateGood
  <2> QED BY <1>0, <1>1, <1>5, <2>3 DEF AllGood, QueueType
<1>6. CASE /\ refuse
           /\ Update(c, b)
           /\ SendNothing /\ UNCHANGED <<jaroCmdQueue, dropped>>
  <2>1. ChannelsGood' /\ AirGood'
    BY <1>0, <1>2, <1>6, UpdateGood
  <2> QED BY <1>0, <1>1, <1>6, <2>1 DEF AllGood, QueueType
<1>7. CASE /\ ~here /\ ~refuse /\ onWay
           /\ Update(c, Retarget(b, pct, now))
           /\ SendNothing /\ UNCHANGED <<jaroCmdQueue, dropped>>
  <2>1. Good(Retarget(b, pct, now), Followed(c))
    BY <1>0, <1>2, <1>7, RetargetGood DEF RestType
  <2>2. ChannelsGood' /\ AirGood'
    BY <1>0, <1>7, <2>1, UpdateGood
  <2> QED BY <1>0, <1>1, <1>7, <2>2 DEF AllGood, QueueType
<1>8. CASE /\ ~here /\ ~refuse /\ ~onWay
           /\ IF b.moving THEN StopMotor(c) ELSE SendNothing
           /\ Update(c, Redirect(b, pct))
           /\ Enqueue(DriveCmd(NeedsDown(b, pct), c))
  <2>1. Good(Redirect(b, pct), IF b.moving THEN "STOP" ELSE Followed(c))
    BY <1>2, RedirectGood
  <2>2. ChannelsGood' /\ AirGood'
    BY <1>0, <1>8, <2>1, UpdateGood
  <2>3. DriveCmd(NeedsDown(b, pct), c) \in Command
    BY <1>3, NeedsDownType, DriveCmdType
  <2>4. QueueType'
    BY <1>0, <1>8, <2>3, EnqueueType
  <2> QED BY <1>1, <2>2, <2>4 DEF AllGood
<1> QED BY <1>4, <1>5, <1>6, <1>7, <1>8 DEF SetTarget, b

\* The three operations of a calibration run.
LEMMA CalibrationStep ==
  ASSUME AllGood, NEW c \in Channel,
         \/ \E down \in BOOLEAN : CalibStart(c, down)
         \/ CalibFinish(c)
         \/ CalibAbort(c)
  PROVE  AllGood'
<1>0. /\ ChannelsGood /\ AirGood /\ QueueType /\ RestType
      /\ Good(shutter[c], Followed(c)) /\ "STOP" \in Drives /\ Followed(c) \in Drives
  BY DEF AllGood, ChannelsGood, Good, Drives
<1>1. ASSUME NEW down \in BOOLEAN, CalibStart(c, down)
      PROVE  AllGood'
  <2>1. Good(BeginCalibration(shutter[c], down, now, online),
             IF shutter[c].moving THEN "STOP" ELSE Followed(c))
    BY <1>0, <1>1, BeginCalibrationGood DEF CalibStart, RestType
  <2>2. ChannelsGood' /\ AirGood'
    BY <1>0, <1>1, <2>1, UpdateGood DEF CalibStart
  <2>3. QueueType'
    BY <1>0, <1>1, EnqueueType, DriveCmdType DEF CalibStart
  <2>4. RestType'
    BY <1>0, <1>1 DEF CalibStart, Input, Untimed, RestType
  <2> QED BY <2>2, <2>3, <2>4 DEF AllGood
<1>2. ASSUME CalibFinish(c) \/ CalibAbort(c)
      PROVE  QueueType' /\ RestType'
  BY <1>0, <1>2 DEF CalibFinish, CalibAbort, Input, Untimed, QueueType, RestType
<1>3. ASSUME Update(c, AbortCalibration(shutter[c])), StopMotor(c) \/ SendNothing
      PROVE  ChannelsGood' /\ AirGood'
  <2>1. /\ Good(AbortCalibration(shutter[c]), "STOP")
        /\ Good(AbortCalibration(shutter[c]), Followed(c))
    BY <1>0, AbortCalibrationGood
  <2> QED BY <1>0, <1>3, <2>1, UpdateGood
<1>4. CASE CalibFinish(c)
  <2>1. CASE Plausible(shutter[c], now)
    <3>1. Good(StoreMeasurement(shutter[c], now, online), Followed(c))
      BY <1>0, StoreMeasurementGood DEF RestType
    <3>2. ChannelsGood' /\ AirGood'
      BY <1>0, <1>4, <2>1, <3>1, UpdateGood DEF CalibFinish
    <3> QED BY <1>2, <1>4, <3>2 DEF AllGood
  <2>2. CASE ~Plausible(shutter[c], now)
    BY <1>2, <1>3, <1>4, <2>2 DEF CalibFinish, AllGood
  <2> QED BY <2>1, <2>2
<1>5. CASE CalibAbort(c)
  BY <1>2, <1>3, <1>5 DEF CalibAbort, AllGood
<1> QED BY <1>1, <1>4, <1>5

\* The passes of the loop, and the commands for them.
LEMMA PassStep ==
  ASSUME AllGood,
         \/ CyclicPass
         \/ SendPass
         \/ \E fn \in Fns, to \in SUBSET Channel \ {{}} : JaroCmd(fn, to)
  PROVE  AllGood'
<1>0. ChannelsGood /\ AirGood /\ QueueType /\ RestType
  BY DEF AllGood
<1>1. CASE CyclicPass
  <2>1. motor \in [Channel -> Drives] /\ \A c \in Channel : Good(shutter[c], Followed(c))
    BY <1>0 DEF ChannelsGood
  <2>2. /\ shutter' = Swept(shutter) /\ motor' = Stopped(shutter, motor)
        /\ \/ Transmit({} \cup Halted(shutter))
           \/ {} \cup Halted(shutter) = {} /\ UNCHANGED air
    <3>1. {} \cup Halted(shutter) = Halted(shutter)
      OBVIOUS
    <3> QED BY <1>1, <3>1, Zenon DEF CyclicPass
  <2>3. ChannelsGood' /\ AirGood'
    <3>1. {} \in SUBSET Channel
      OBVIOUS
    <3>2. \A c \in Channel : Good(shutter[c], IF c \in {} THEN motor[c] ELSE Followed(c))
      BY <2>1
    <3> QED BY <1>0, <2>1, <2>2, <3>1, <3>2, PassGood
  <2> QED BY <1>0, <1>1, <2>3 DEF CyclicPass, PassBegins, AllGood, QueueType, RestType
<1>2. CASE SendPass
  <2>1. PICK cmd \in Command : cmd = Head(jaroCmdQueue)
    BY <1>0, <1>2 DEF SendPass, QueueType
  <2>2. Tail(jaroCmdQueue) \in Seq(Command) /\ Len(Tail(jaroCmdQueue)) <= MaxCmd
    BY <1>0, <1>2, QueueAssumption DEF SendPass, QueueType
  <2>3. /\ shutter' = Swept(AllNotified(cmd))
        /\ motor' = Stopped(AllNotified(cmd), Obeyed(cmd))
        /\ Transmit(Reached(cmd) \cup Halted(AllNotified(cmd)))
    BY <1>2, <2>1 DEF SendPass
  <2>4. /\ Reached(cmd) \in SUBSET Channel
        /\ Obeyed(cmd) \in [Channel -> Drives]
        /\ \A c \in Channel :
             Obeyed(cmd)[c] = IF c \in Reached(cmd) THEN cmd.fn ELSE motor[c]
    BY <1>0, AllNotifiedGood DEF Reached, Command, Obeyed
  <2>5. \A c \in Channel :
          Good(AllNotified(cmd)[c],
               IF c \in Reached(cmd) THEN Obeyed(cmd)[c] ELSE Followed(c))
    BY <1>0, <2>4, AllNotifiedGood DEF After
  <2>6. \A c \in Channel \ Reached(cmd) : Obeyed(cmd)[c] = motor[c]
    BY <2>4
  <2>7. ChannelsGood' /\ AirGood'
    BY <1>0, <2>3, <2>4, <2>5, <2>6, PassGood
  <2>8. QueueType' /\ RestType'
    BY <1>0, <1>2, <2>2 DEF SendPass, PassBegins, QueueType, RestType
  <2> QED BY <2>7, <2>8 DEF AllGood
<1>3. ASSUME NEW fn \in Fns, NEW to \in SUBSET Channel \ {{}}, JaroCmd(fn, to)
      PROVE  AllGood'
  <2>1. [fn |-> fn, to |-> to] \in Command
    BY FnsAssumption DEF Command
  <2>2. QueueType'
    BY <1>0, <1>3, <2>1, EnqueueType DEF JaroCmd
  <2>3. AirGood' /\ \A c \in Channel : Followed(c)' = Followed(c)
    BY <1>0, <1>3, SilentAir DEF JaroCmd, SendNothing
  <2>4. ChannelsGood'
    BY <1>0, <1>3, <2>3 DEF JaroCmd, ChannelsGood
  <2>5. RestType'
    BY <1>0, <1>3 DEF JaroCmd, Input, Untimed, RestType
  <2> QED BY <2>2, <2>3, <2>4, <2>5 DEF AllGood
<1> QED BY <1>1, <1>2, <1>3

\* The newest frame joins those that wait, and the motors agree with it.
LEMMA HeardType ==
  ASSUME NEW q \in Seq(HeardFrame), Len(q) < Places, NEW f \in HeardFrame
  PROVE  LET r == Append(q, f) IN
         /\ r \in Seq(HeardFrame) /\ Len(r) <= Places
         /\ \A i \in 1 .. Len(r) : (i \in 1 .. Len(q) /\ r[i] = q[i]) \/ r[i] = f
<1>1. Len(q) \in Nat /\ Places = 2
  BY DEF Places
<1> QED BY <1>1, AppendProperties

\* A press of a remote changes the motors and the air only.
LEMMA PressStep ==
  ASSUME AllGood, NEW fn \in Fns, NEW to \in SUBSET Channel \ {{}}, RemotePress(fn, to)
  PROVE  AllGood'
<1> DEFINE cmd == [fn |-> fn, to |-> to]
           new == [fn |-> fn, to |-> to, late |-> {}]
<1>0. ChannelsGood /\ AirGood /\ QueueType /\ RestType
  BY DEF AllGood
<1>1. fn \in Drives /\ to \in SUBSET Channel /\ shutter' = shutter /\ told' = told \ to
  BY DEF RemotePress
<1>2. /\ motor' \in [Channel -> Drives]
      /\ \A c \in Channel : motor'[c] = IF c \in to THEN fn ELSE motor[c]
  BY <1>0, <1>1 DEF RemotePress, Obeyed, ChannelsGood
<1>3. ChannelsGood'
  <2>1. ASSUME NEW c \in Channel PROVE Good(shutter'[c], Followed(c)')
    <3>1. CASE c \in to
      BY <1>0, <1>1, <3>1, GoodUnknown DEF ChannelsGood, Followed
    <3>2. CASE c \notin to
      <4>1. Followed(c)' = Followed(c)
        BY <1>1, <1>2, <3>2 DEF Followed
      <4> QED BY <1>0, <1>1, <4>1 DEF ChannelsGood
    <3> QED BY <3>1, <3>2
  <2> QED BY <1>0, <1>1, <1>2, <2>1 DEF ChannelsGood
<1>4. AirGood'
  <2>1. heard \in Seq(HeardFrame) /\ Current(heard) /\ Len(heard) <= Places
    BY <1>0 DEF AirGood, FramesCurrent, Current
  <2>2. PICK w \in Seq(HeardFrame) : w = Overtaken(heard, to) /\ Len(w) = Len(heard)
    BY <1>1, <2>1, OvertakenType
  <2>3. \A c \in Channel \ to : motor'[c] = motor[c]
    BY <1>2
  <2>4. Current(w)'
    <3>1. \A i \in 1 .. Len(w) : \A c \in w[i].to \ w[i].late : motor'[c] = w[i].fn
      BY <1>1, <2>1, <2>2, <2>3, OvertakenCurrent
    <3> QED BY <3>1 DEF Current
  <2>5. new \in HeardFrame
    BY <1>1 DEF HeardFrame
  <2>6. \A c \in new.to \ new.late : motor'[c] = new.fn
    BY <1>1, <1>2
  <2> HIDE DEF new
  <2>7. \E k \in Seq(HeardFrame) :
          /\ Len(k) < Places /\ Current(k)'
          /\ heard' = w \/ heard' = Append(k, new)
    <3>1. CASE Len(w) < Places
      <4>1. heard' = w \/ heard' = Append(w, new)
        BY <2>2, <3>1 DEF RemotePress, new
      <4> QED BY <2>4, <3>1, <4>1, Zenon
    <3>2. CASE ~(Len(w) < Places)
      <4>1. /\ SubSeq(w, 1, Places - 1) \in Seq(HeardFrame)
            /\ Len(SubSeq(w, 1, Places - 1)) = 1
            /\ \A i \in 1 .. 1 : SubSeq(w, 1, Places - 1)[i] = w[i]
        <5>1. \A i \in 1 .. 1 : w[i] \in HeardFrame
          BY <3>2 DEF Places
        <5>2. Places - 1 = 1
          BY DEF Places
        <5> QED BY <5>1, <5>2, SubSeqProperties
      <4>2. Current(SubSeq(w, 1, Places - 1))'
        BY <2>4, <3>2, <4>1 DEF Current, Places
      <4>3. heard' = w \/ heard' = Append(SubSeq(w, 1, Places - 1), new)
        BY <2>2, <3>2 DEF RemotePress, new
      <4>4. Len(SubSeq(w, 1, Places - 1)) < Places
        BY <4>1 DEF Places
      <4> QED BY <4>1, <4>2, <4>3, <4>4, Zenon
    <3> QED BY <3>1, <3>2
  <2>8. heard' \in Seq(HeardFrame) /\ Len(heard') <= Places /\ FramesCurrent'
    <3>1. CASE heard' = w
      BY <2>1, <2>2, <2>4, <3>1 DEF Current, FramesCurrent
    <3>2. CASE heard' # w
      <4>0. PICK k \in Seq(HeardFrame) :
              Len(k) < Places /\ Current(k)' /\ heard' = Append(k, new)
        BY <2>7, <3>2
      <4>1. /\ heard' \in Seq(HeardFrame) /\ Len(heard') <= Places
            /\ \A i \in 1 .. Len(heard') :
                 (i \in 1 .. Len(k) /\ heard'[i] = k[i]) \/ heard'[i] = new
        BY <2>5, <4>0, HeardType
      <4> QED BY <2>6, <4>0, <4>1 DEF Current, FramesCurrent
    <3> QED BY <3>1, <3>2
  <2> QED BY <1>0, <1>1, <2>8 DEF AirGood
<1>5. QueueType' /\ RestType'
  BY <1>0 DEF RemotePress, Input, Untimed, QueueType, RestType
<1> QED BY <1>3, <1>4, <1>5 DEF AllGood

\* The telegram a frame tells of, and what taking it does to the channels.
FrameCmd(f) == [fn |-> f.fn, to |-> f.to]

LEMMA FrameType ==
  ASSUME NEW f \in HeardFrame
  PROVE  /\ FrameCmd(f) \in Command /\ FrameCmd(f).fn \in Drives
         /\ AllNotified(f) = AllNotified(FrameCmd(f))
         /\ Reached(FrameCmd(f)) = f.to
<1>1. /\ f.fn \in Drives /\ f.to \in SUBSET Channel
      /\ FrameCmd(f).fn = f.fn /\ FrameCmd(f).to = f.to
  BY DEF HeardFrame, FrameCmd
<1>2. FrameCmd(f) \in Command
  BY <1>1 DEF FrameCmd, Command, Drives
<1> QED BY <1>1, <1>2 DEF AllNotified, Reached

\* jarolift.loop() after a pass.
LEMMA RadioStep ==
  ASSUME AllGood, RadioLoop
  PROVE  AllGood'
<1>0. ChannelsGood /\ AirGood /\ QueueType /\ RestType
  BY DEF AllGood
<1>1. QueueType' /\ RestType' /\ motor' = motor
  BY <1>0 DEF RadioLoop, QueueType, RestType
<1>2. CASE UNCHANGED <<shutter, air>>
  <2>1. AirGood' /\ \A c \in Channel : Followed(c)' = Followed(c)
    BY <1>0, <1>1, <1>2, SilentAir DEF SendNothing
  <2>2. ChannelsGood'
    BY <1>0, <1>1, <1>2, <2>1 DEF ChannelsGood
  <2> QED BY <1>1, <2>1, <2>2 DEF AllGood
<1>3. CASE ~UNCHANGED <<shutter, air>>
  <2>1. heard # <<>> /\ heard' = Tail(heard) /\ heard \in Seq(HeardFrame)
    BY <1>0, <1>3 DEF RadioLoop, AirGood
  <2>2. PICK f \in HeardFrame : f = Head(heard) /\ f = heard[1]
    BY <2>1
  <2>3. shutter' = AllNotified(f) /\ told' = (told \ f.to) \cup (f.to \ f.late)
    BY <1>3, <2>2 DEF RadioLoop
  <2>4. f.to \in SUBSET Channel /\ f.late \in SUBSET Channel
    BY DEF HeardFrame
  <2>5. \A c \in f.to \ f.late : motor[c] = f.fn
    BY <1>0, <2>1, <2>2 DEF AirGood, FramesCurrent
  <2>6. AirGood'
    <3>1. /\ heard' \in Seq(HeardFrame) /\ Len(heard') = Len(heard) - 1
          /\ \A i \in 1 .. Len(heard') : heard'[i] = heard[i + 1] /\ i + 1 \in 1 .. Len(heard)
      BY <2>1, HeadTailProperties
    <3>2. FramesCurrent'
      BY <1>0, <1>1, <3>1 DEF AirGood, FramesCurrent
    <3>3. Len(heard') <= Places
      BY <1>0, <2>1, <3>1 DEF AirGood, Places
    <3> QED BY <1>0, <2>3, <2>4, <3>1, <3>2, <3>3 DEF AirGood
  <2>7. ASSUME NEW c \in Channel
        PROVE  Good(shutter'[c], Followed(c)')
    <3>1. Good(shutter'[c], IF c \in f.to THEN f.fn ELSE Followed(c))
      <4>1. Good(AllNotified(FrameCmd(f))[c], After(FrameCmd(f), c))
        BY <1>0, FrameType, AllNotifiedGood
      <4>2. After(FrameCmd(f), c) = IF c \in f.to THEN f.fn ELSE Followed(c)
        BY FrameType DEF After, FrameCmd
      <4> QED BY <2>3, <4>1, <4>2, FrameType
    <3>2. CASE c \in f.to /\ c \in f.late
      BY <2>3, <3>1, <3>2, GoodUnknown DEF Followed
    <3>3. CASE c \in f.to /\ c \notin f.late
      BY <1>1, <2>3, <2>5, <3>1, <3>3 DEF Followed
    <3>4. CASE c \notin f.to
      BY <1>1, <2>3, <3>1, <3>4 DEF Followed
    <3> QED BY <3>2, <3>3, <3>4
  <2>8. ChannelsGood'
    <3>1. shutter' \in [Channel -> ChannelState]
      BY <2>3, <2>7 DEF AllNotified, Good
    <3> QED BY <1>0, <1>1, <2>7, <3>1 DEF ChannelsGood
  <2> QED BY <1>1, <2>6, <2>8 DEF AllGood
<1> QED BY <1>2, <1>3

\* An input is counted.
LEMMA InputType ==
  ASSUME RestType, Input
  PROVE  inputs' \in Nat
  BY DEF RestType, Input

\* The surroundings: configuration, power, broker and clock.
LEMMA SurroundingsStep ==
  ASSUME AllGood,
         \/ \E c \in Channel, t \in Uploads : ConfigUpload(c, t)
         \/ Restart \/ SessionLost \/ SessionUp \/ Tick
  PROVE  AllGood'
<1>0. ChannelsGood /\ AirGood /\ QueueType /\ RestType
  BY DEF AllGood
<1>1. ASSUME NEW c \in Channel, NEW t \in Uploads, ConfigUpload(c, t)
      PROVE  AllGood'
  <2>1. t[1] \in Nat /\ t[2] \in Nat
    BY TravelAssumption
  <2>2. Good([shutter[c] EXCEPT !.travelDown = t[1], !.travelUp = t[2]], Followed(c))
    BY <1>0, <2>1, UploadGood DEF ChannelsGood
  <2>3. ChannelsGood' /\ AirGood'
    BY <1>0, <1>1, <2>2, UpdateGood DEF ConfigUpload
  <2>4. RestType'
    BY <1>0, <1>1, InputType, Zenon DEF ConfigUpload, Untimed, RestType
  <2> QED BY <1>0, <1>1, <2>3, <2>4 DEF ConfigUpload, AllGood, QueueType
<1>2. CASE Restart
  <2>1. ASSUME NEW c \in Channel PROVE Good(shutter'[c], Followed(c)')
    <3>1. Followed(c)' = motor[c] /\ shutter'[c] = PowerUp(shutter[c])
      BY <1>2 DEF Restart, Followed
    <3> QED BY <1>0, <3>1, PowerUpGood DEF ChannelsGood
  <2>2. ChannelsGood'
    BY <1>0, <1>2, <2>1 DEF Restart, ChannelsGood, Good
  <2>3. QueueType'
    <3>1. << >> \in Seq(Command)
      OBVIOUS
    <3>2. Len(<< >>) <= MaxCmd
      BY QueueAssumption
    <3>3. jaroCmdQueue' = << >> /\ dropped' = {}
      BY <1>2 DEF Restart
    <3> QED BY <3>1, <3>2, <3>3, Zenon DEF QueueType
  <2>4. RestType'
    <3>1. 0 \in Time
      BY WrapAssumption DEF Time
    <3>2. inputs' \in Nat
      BY <1>0, <1>2, InputType DEF Restart
    <3> QED BY <1>0, <1>2, <3>1, <3>2, Zenon DEF Restart, RestType
  <2>5. AirGood'
    BY <1>2 DEF Restart, AirGood, FramesCurrent, Places
  <2> QED BY <2>2, <2>3, <2>4, <2>5 DEF AllGood
<1>3. CASE SessionLost \/ SessionUp \/ Tick
  <2>1. RestType'
    <3>1. CASE SessionLost
      BY <1>0, <3>1, InputType, Zenon DEF SessionLost, RestType
    <3>2. CASE SessionUp
      BY <1>0, <3>2 DEF SessionUp, RestType
    <3>3. CASE Tick
      BY <1>0, <3>3, WrapAssumption DEF Tick, RestType, Time
    <3> QED BY <1>3, <3>1, <3>2, <3>3
  <2>2. SendNothing /\ UNCHANGED <<shutter, jaroCmdQueue, dropped>>
    BY <1>3 DEF SessionLost, SessionUp, Tick, SendNothing
  <2>3. AirGood' /\ ChannelsGood'
    BY <1>0, <2>2, SilentAir DEF ChannelsGood, SendNothing
  <2> QED BY <1>0, <2>1, <2>2, <2>3 DEF AllGood, QueueType
<1> QED BY <1>1, <1>2, <1>3

\* IInv /\ [Next]_vars => IInv'
LEMMA NextIInv == IInv /\ [Next]_vars => IInv'
<1> SUFFICES ASSUME IInv, [Next]_vars PROVE IInv'
  OBVIOUS
<1>0. AllGood
  BY IInvParts
<1>1. CASE UNCHANGED vars
  BY <1>1 DEF IInv, TypeOK, Consistent, FramesCurrent, Followed, vars, air
<1>2. CASE Next
  <2>1. AllGood'
    BY <1>0, <1>2, SetTargetStep, CalibrationStep, PassStep, PressStep, RadioStep,
       SurroundingsStep DEF Next
  <2> QED BY <2>1, IInvParts, PTL
<1> QED BY <1>1, <1>2

\* The inductive invariant always holds.
THEOREM InvariantHolds == Spec => []IInv
  BY InitIInv, NextIInv, PTL DEF Spec

-----------------------------------------------------------------------------
(* What the inductive invariant gives.                                     *)

\* Every variable keeps its type, and the queue its capacity, whatever users,
\* remotes, broker and power supply do.
THEOREM TypeCorrect == Spec => []TypeOK
<1>1. IInv => TypeOK
  BY DEF IInv
<1> QED BY <1>1, InvariantHolds, PTL

\* A channel and the telegram the tracker goes by always agree in the sense of
\* ChannelConsistent, and every frame that waits and was not overtaken is what the
\* motors last obeyed: the joint invariant of startMovement, settleAt, every
\* immediate STOP and mqttSendRemote.
THEOREM AlwaysConsistent == Spec => []Consistent
<1>1. IInv => Consistent
  BY DEF IInv
<1> QED BY <1>1, InvariantHolds, PTL

\* The tracker never believes in a movement the motor was not told to make, unless
\* a remote was not heard or its frame was overtaken before it was notified.
THEOREM FollowsMotor == Spec => []TrackerFollowsMotor
<1>1. IInv => TrackerFollowsMotor
  <2> SUFFICES ASSUME IInv, NEW c \in told,
                      shutter[c].moving, motor[c] # "SHADE"
               PROVE  motor[c] = Direction(shutter[c])
    BY DEF TrackerFollowsMotor
  <2>1. c \in Channel /\ Followed(c) = motor[c]
    BY DEF IInv, TypeOK, Followed
  <2> QED BY <2>1 DEF IInv, Consistent, ChannelConsistent
<1> QED BY <1>1, InvariantHolds, PTL

\* A channel reported at rest part way was told to stop, under the same condition.
THEOREM RestsStopped == Spec => []RestsOnlyWhenStopped
<1>1. IInv => RestsOnlyWhenStopped
  <2> SUFFICES ASSUME IInv, NEW c \in told,
                      ~shutter[c].moving, shutter[c].pos \in Between, motor[c] # "SHADE"
               PROVE  motor[c] = "STOP"
    BY DEF RestsOnlyWhenStopped
  <2>1. c \in Channel /\ Followed(c) = motor[c]
    BY DEF IInv, TypeOK, Followed
  <2> QED BY <2>1 DEF IInv, Consistent, ChannelConsistent
<1> QED BY <1>1, InvariantHolds, PTL

\* An armed stop belongs to a movement that can use it.
THEOREM ArmedStops == Spec => []ArmedStopHasTarget
<1>1. IInv => ArmedStopHasTarget
  BY DEF IInv, Consistent, ChannelConsistent, ArmedStopHasTarget
<1> QED BY <1>1, InvariantHolds, PTL

\* A running stopwatch and a position exclude each other.
THEOREM CalibrationSilent == Spec => []CalibrationClaimsNothing
<1>1. IInv => CalibrationClaimsNothing
  BY DEF IInv, Consistent, ChannelConsistent, CalibrationClaimsNothing
<1> QED BY <1>1, InvariantHolds, PTL

-----------------------------------------------------------------------------
(* What a step may never do: three more facts about every operation,       *)
(* collected in Frame.  An unknown position becomes known only by settling *)
(* at an end-stop; who comes to rest in a session is published where it    *)
(* rests; no operation but an accepted new target makes a movement pending.*)

\* Channel s becomes r, with or without a broker session.
Resolved(s, r) ==
  s.pos = UNKNOWN => r.pos = UNKNOWN \/ (r.pos \in Ends /\ ~r.moving)

Published(s, r, up) ==
  up /\ s.moving /\ ~r.moving /\ ~r.pendingMove /\ r.pos # UNKNOWN => r.shown = r.pos

NotPending(s, r) == r.pendingMove => s.pendingMove

Frame(s, r, up) == Resolved(s, r) /\ Published(s, r, up) /\ NotPending(s, r)

\* The ends of travel are not the unknown position.
LEMMA EndsKnown == \A down \in BOOLEAN : EndOf(down) \in Ends /\ EndOf(down) \in Position
  BY FullAssumption DEF EndOf, Ends, Position

\* Settling publishes and resolves at p.
LEMMA SettleFrame ==
  ASSUME NEW s \in ChannelState, NEW p \in Position \cup {UNKNOWN}, NEW up \in BOOLEAN,
         s.pos = UNKNOWN => p = UNKNOWN \/ p \in Ends
  PROVE  Frame(s, SettleAt(s, p, up), up)
  BY SettleType DEF Frame, Resolved, Published, NotPending

\* The answer to a STOP.
LEMMA NotifyStopFrame ==
  ASSUME NEW s, NEW m, Good(s, m), NEW t \in Time, NEW up \in BOOLEAN
  PROVE  Frame(s, NotifyStop(s, t, up), up)
<1>1. CASE s.moving
  <2>1. EstimatePos(s, t) \in Position \cup {UNKNOWN}
    BY EstimateType DEF Good
  <2>2. s.pos = UNKNOWN => EstimatePos(s, t) = UNKNOWN
    BY EstimateType DEF Good, ChannelConsistent
  <2> QED BY <1>1, <2>1, <2>2, SettleFrame DEF NotifyStop, Good
<1>2. CASE ~s.moving
  BY <1>2 DEF NotifyStop, Frame, Resolved, Published, NotPending
<1> QED BY <1>1, <1>2

\* The answer to UP and DOWN clears a pending movement besides.
LEMMA StartMovementFrame ==
  ASSUME NEW s, NEW m, Good(s, m), NEW down \in BOOLEAN, NEW t \in Time, NEW up \in BOOLEAN
  PROVE  /\ Frame(s, StartMovement(s, down, t, up), up)
         /\ ~StartMovement(s, down, t, up).pendingMove
<1>0. s \in ChannelState
  BY DEF Good
<1>1. CASE s.active
  BY <1>0, <1>1, StartMeasuringType
     DEF StartMovement, Frame, Resolved, Published, NotPending
<1>2. CASE ~s.active /\ TravelTime(s, down) = 0
  <2>1. StartMovement(s, down, t, up) = SettleAt(s, EndOf(down), up)
    BY <1>2 DEF StartMovement
  <2> QED BY <1>0, <2>1, EndsKnown, SettleFrame, SettleType
<1>3. CASE ~s.active /\ TravelTime(s, down) # 0
  <2>1. s.pos = UNKNOWN => Bank(s, t).pos = UNKNOWN
    BY BankType DEF Good, ChannelConsistent
  <2> QED BY <1>0, <1>3, <2>1, StartRunType
          DEF StartMovement, Frame, Resolved, Published, NotPending
<1> QED BY <1>1, <1>2, <1>3

\* One pass of shutterPosCyclic.
LEMMA CyclicFrame ==
  ASSUME NEW s, NEW m, Good(s, m), NEW t \in Time, NEW up \in BOOLEAN
  PROVE  /\ Frame(s, CyclicChannel(s, t, up), up)
         /\ ~s.moving => CyclicChannel(s, t, up) = s
<1>1. CASE StopDue(s, t)
  <2>1. s.target \in Position \cup {UNKNOWN} /\ s.pos # UNKNOWN /\ s.moving
    BY <1>1 DEF Good, ChannelConsistent, StopDue, Between
  <2> QED BY <1>1, <2>1, SettleFrame DEF CyclicChannel, Good
<1>2. CASE ~StopDue(s, t) /\ EndReached(s, t)
  <2>1. EndOf(s.goingDown) \in Ends /\ EndOf(s.goingDown) \in Position
    BY EndsKnown DEF Good, ChannelState
  <2> QED BY <1>2, <2>1, SettleFrame DEF CyclicChannel, Good, EndReached
<1>3. CASE ~StopDue(s, t) /\ ~EndReached(s, t)
  BY <1>3 DEF CyclicChannel, Frame, Resolved, Published, NotPending
<1> QED BY <1>1, <1>2, <1>3

\* Any telegram.
LEMMA NotifiedFrame ==
  ASSUME NEW s, NEW m, Good(s, m), NEW fn \in Moves \cup {"STOP", "SHADE", "OTHER"},
         NEW t \in Time, online \in BOOLEAN
  PROVE  /\ Frame(s, Notified(s, fn, t), online)
         /\ fn \in Moves => ~Notified(s, fn, t).pendingMove
<1>1. CASE fn = "DOWN"
  BY <1>1, StartMovementFrame DEF Notified
<1>2. CASE fn = "UP"
  BY <1>2, StartMovementFrame DEF Notified
<1>3. CASE fn = "STOP"
  BY <1>3, NotifyStopFrame DEF Notified, Moves
<1>4. CASE fn = "SHADE"
  <2>1. Notified(s, fn, t) = IF online THEN [s EXCEPT !.shown = Shade] ELSE s
    BY <1>4 DEF Notified, Publish
  <2> QED BY <1>4, <2>1 DEF Good, ChannelState, Frame, Resolved, Published, NotPending, Moves
<1>5. CASE fn = "OTHER"
  BY <1>5 DEF Notified, Frame, Resolved, Published, NotPending, Moves
<1> QED BY <1>1, <1>2, <1>3, <1>4, <1>5 DEF Moves

\* Opening a run, with the settling that may precede it.
LEMMA BeginCalibrationFrame ==
  ASSUME NEW s, NEW m, Good(s, m), NEW down \in BOOLEAN, NEW t \in Time, NEW up \in BOOLEAN
  PROVE  Frame(s, BeginCalibration(s, down, t, up), up)
<1> DEFINE n == NotifyStop(s, t, up)
           r == [n EXCEPT !.active = TRUE, !.measuring = FALSE,
                          !.calDown = down, !.calStartMs = 0]
<1>1. n \in ChannelState /\ Frame(s, n, up)
  BY NotifyStopGood, NotifyStopFrame DEF Good
<1>2. BeginCalibration(s, down, t, up) = r
  BY DEF BeginCalibration
<1> HIDE DEF n
<1>3. /\ r.pos = n.pos /\ r.moving = n.moving
      /\ r.pendingMove = n.pendingMove /\ r.shown = n.shown
  BY <1>1 DEF ChannelState
<1> HIDE DEF r
<1> QED BY <1>1, <1>2, <1>3 DEF Frame, Resolved, Published, NotPending

\* Closing a run: nothing but the settling shows.
LEMMA EndCalibrationFrame ==
  ASSUME NEW s \in ChannelState, NEW p \in Position \cup {UNKNOWN}, NEW up \in BOOLEAN,
         p = UNKNOWN \/ p \in Ends, NEW k \in ChannelState
  PROVE  Frame(s, SettleAt(EndCalibration(k), p, up), up)
  BY SettleType, EndCalibrationType DEF Frame, Resolved, Published, NotPending

\* A plausible measurement ends the run at the end-stop it was taken to.
LEMMA StoreMeasurementFrame ==
  ASSUME NEW s, NEW m, Good(s, m), NEW t \in Time, NEW up \in BOOLEAN
  PROVE  Frame(s, StoreMeasurement(s, t, up), up)
<1> DEFINE k == IF s.calDown THEN [s EXCEPT !.travelDown = Measured(s, t)]
                             ELSE [s EXCEPT !.travelUp = Measured(s, t)]
<1>1. Measured(s, t) \in Nat
  BY ElapsedType DEF Measured, Good, ChannelState, Time
<1>2. [s EXCEPT !.travelDown = Measured(s, t)] \in ChannelState
  BY <1>1, Zenon DEF Good, ChannelState
<1>3. [s EXCEPT !.travelUp = Measured(s, t)] \in ChannelState
  BY <1>1, Zenon DEF Good, ChannelState
<1>4. k \in ChannelState
  BY <1>2, <1>3
<1>5. EndOf(s.calDown) \in Ends /\ EndOf(s.calDown) \in Position
  BY EndsKnown DEF Good, ChannelState
<1> HIDE DEF k
<1>6. StoreMeasurement(s, t, up) = SettleAt(EndCalibration(k), EndOf(s.calDown), up)
  BY DEF StoreMeasurement, k
<1> QED BY <1>4, <1>5, <1>6, EndCalibrationFrame DEF Good

\* A cancelled run leaves the position unknown.
LEMMA AbortCalibrationFrame ==
  ASSUME NEW s \in ChannelState, NEW up \in BOOLEAN
  PROVE  Frame(s, AbortCalibration(s), up)
<1> DEFINE e == EndCalibration(s)
<1>1. e \in ChannelState
  BY EndCalibrationType
<1>2. AbortCalibration(s) = SettleAt(e, UNKNOWN, FALSE)
  BY DEF AbortCalibration
<1> HIDE DEF e
<1> DEFINE r == SettleAt(e, UNKNOWN, FALSE)
<1>a. r.pos = UNKNOWN /\ ~r.pendingMove
  BY <1>1, SettleType, Zenon
<1> HIDE DEF r
<1>3. AbortCalibration(s).pos = UNKNOWN /\ ~AbortCalibration(s).pendingMove
  BY <1>2, <1>a DEF r
<1> QED BY <1>3 DEF Frame, Resolved, Published, NotPending

\* A pass of the loop over a channel that may first get a telegram.
LEMMA PassFrame ==
  ASSUME NEW s, NEW m, Good(s, m), NEW r, NEW n, Good(r, n), NEW t \in Time,
         NEW up \in BOOLEAN, Frame(s, r, up)
  PROVE  Frame(s, CyclicChannel(r, t, up), up)
<1>1. CASE ~r.moving
  BY <1>1, CyclicFrame
<1>2. CASE r.moving
  BY <1>2, CyclicFrame DEF Frame, Resolved, Published, NotPending
<1> QED BY <1>1, <1>2

-----------------------------------------------------------------------------
(* The steps of the system.                                                *)

\* What the action properties say of one channel.
ChannelStep(c) ==
  /\ Resolved(shutter[c], shutter'[c])
  /\ online' => Published(shutter[c], shutter'[c], online)

Quiet(c) == NotPending(shutter[c], shutter'[c])

\* Every way through shutterPosSetTarget; only the last makes a movement
\* pending, and it queues the telegram.
LEMMA SetTargetFrame ==
  ASSUME IInv, NEW c \in Channel, NEW pct \in Position, SetTarget(c, pct)
  PROVE  /\ \A d \in Channel : ChannelStep(d)
         /\ \A d \in Channel \ {c} : Quiet(d)
         /\ \/ Quiet(c) /\ UNCHANGED <<jaroCmdQueue, dropped>>
            \/ \E down \in BOOLEAN : Enqueue(DriveCmd(down, c))
<1> DEFINE s == shutter[c]
           b == Bank(s, now)
           here   == pct \notin Ends /\ b.pos = pct
           refuse == pct \notin Ends /\ b.pos = UNKNOWN
           onWay  == b.moving /\ b.goingDown = NeedsDown(b, pct)
<1>0. ChannelsGood /\ AirGood /\ QueueType /\ RestType
  BY IInvParts DEF AllGood
<1>1. Good(s, Followed(c)) /\ s \in ChannelState
  BY <1>0 DEF ChannelsGood, Good
<1>2. /\ Good(b, Followed(c)) /\ b \in ChannelState
      /\ b.moving = s.moving
      /\ s.pos = UNKNOWN => b.pos = UNKNOWN
      /\ b.pendingMove = s.pendingMove
  <2>1. Good(b, Followed(c)) /\ b.moving = s.moving /\ b \in ChannelState
    BY <1>0, <1>1, BankGood DEF RestType, Good
  <2>2. s.pos = UNKNOWN => b = s
    BY <1>0, <1>1, BankType DEF RestType, Good, ChannelConsistent
  <2>3. b = [s EXCEPT !.pos = b.pos]
    BY <1>0, <1>1, BankType DEF RestType
  <2> HIDE DEF b
  <2>4. b.pendingMove = s.pendingMove
    BY <1>1, <2>3 DEF ChannelState
  <2> QED BY <2>1, <2>2, <2>4
<1> HIDE DEF b
<1>3. ASSUME NEW d \in Channel \ {c}, NEW r, Update(c, r)
      PROVE  ChannelStep(d) /\ Quiet(d)
  <2>1. shutter'[d] = shutter[d]
    BY <1>0, <1>3 DEF Update, ChannelsGood
  <2> QED BY <2>1 DEF ChannelStep, Quiet, Resolved, Published, NotPending
<1>4. ASSUME NEW r, Update(c, r), Resolved(s, r), Published(s, r, online)
      PROVE  ChannelStep(c) /\ shutter'[c] = r
  <2>1. shutter'[c] = r
    BY <1>0, <1>4 DEF Update, ChannelsGood
  <2> QED BY <1>4, <2>1 DEF ChannelStep
<1>5. CASE /\ here /\ ~b.moving
           /\ SendNothing /\ UNCHANGED <<shutter, jaroCmdQueue, dropped>>
  BY <1>5 DEF ChannelStep, Quiet, Resolved, Published, NotPending
<1>6. CASE /\ here /\ b.moving /\ StopMotor(c)
           /\ Update(c, SettleAt(b, b.pos, online))
           /\ UNCHANGED <<jaroCmdQueue, dropped>>
  <2>1. b.pos \in Position \cup {UNKNOWN} /\ b.pos # UNKNOWN
    BY <1>2, <1>6, FullAssumption DEF ChannelState, UNKNOWN, Position
  <2>2. LET r == SettleAt(b, b.pos, online) IN
          Resolved(s, r) /\ Published(s, r, online) /\ ~r.pendingMove
    BY <1>0, <1>2, <2>1, SettleType DEF Resolved, Published, RestType
  <2> QED BY <1>3, <1>4, <1>6, <2>2 DEF Quiet, NotPending
<1>7. CASE /\ refuse
           /\ Update(c, b)
           /\ SendNothing /\ UNCHANGED <<jaroCmdQueue, dropped>>
  <2>1. Resolved(s, b) /\ Published(s, b, online)
    BY <1>2 DEF Resolved, Published
  <2> QED BY <1>2, <1>3, <1>4, <1>7, <2>1 DEF Quiet, NotPending
<1>8. CASE /\ ~here /\ ~refuse /\ onWay
           /\ Update(c, Retarget(b, pct, now))
           /\ SendNothing /\ UNCHANGED <<jaroCmdQueue, dropped>>
  <2>1. LET r == Retarget(b, pct, now) IN
          r.moving /\ r.pos = b.pos /\ ~r.pendingMove
    BY <1>2, <1>8 DEF Retarget, Aim, ChannelState
  <2>2. LET r == Retarget(b, pct, now) IN Resolved(s, r) /\ Published(s, r, online)
    BY <1>2, <2>1 DEF Resolved, Published
  <2> QED BY <1>3, <1>4, <1>8, <2>1, <2>2 DEF Quiet, NotPending
<1>9. CASE /\ ~here /\ ~refuse /\ ~onWay
           /\ IF b.moving THEN StopMotor(c) ELSE SendNothing
           /\ Update(c, Redirect(b, pct))
           /\ Enqueue(DriveCmd(NeedsDown(b, pct), c))
  <2>1. LET r == Redirect(b, pct) IN r.pos = b.pos /\ r.pendingMove
    BY <1>2, <1>9 DEF Redirect, Aim, ChannelState
  <2>2. LET r == Redirect(b, pct) IN Resolved(s, r) /\ Published(s, r, online)
    BY <1>2, <2>1 DEF Resolved, Published
  <2>3. NeedsDown(b, pct) \in BOOLEAN
    BY <1>2, NeedsDownType
  <2> QED BY <1>3, <1>4, <1>9, <2>2, <2>3
<1> QED BY <1>5, <1>6, <1>7, <1>8, <1>9 DEF SetTarget, b

\* The handlers that work on one channel by an operation with a Frame.
LEMMA OneChannelFrame ==
  ASSUME IInv, NEW c \in Channel, NEW r, Update(c, r), Frame(shutter[c], r, online)
  PROVE  \A d \in Channel : ChannelStep(d) /\ Quiet(d)
<1>1. shutter'[c] = r /\ \A d \in Channel \ {c} : shutter'[d] = shutter[d]
  BY IInvParts DEF AllGood, Update, ChannelsGood
<1> QED BY <1>1 DEF ChannelStep, Quiet, Frame, Resolved, Published, NotPending

\* Calibration and configuration.
LEMMA CalibrationFrame ==
  ASSUME IInv, NEW c \in Channel,
         \/ \E down \in BOOLEAN : CalibStart(c, down)
         \/ CalibFinish(c) \/ CalibAbort(c)
         \/ \E t \in Uploads : ConfigUpload(c, t)
  PROVE  \A d \in Channel : ChannelStep(d) /\ Quiet(d)
<1>0. Good(shutter[c], Followed(c)) /\ now \in Time /\ online \in BOOLEAN
      /\ shutter[c] \in ChannelState
  BY IInvParts DEF AllGood, ChannelsGood, RestType, Good
<1>1. ASSUME NEW down \in BOOLEAN, CalibStart(c, down)
      PROVE  \A d \in Channel : ChannelStep(d) /\ Quiet(d)
  BY <1>0, <1>1, BeginCalibrationFrame, OneChannelFrame DEF CalibStart
<1>2. CASE CalibFinish(c) \/ CalibAbort(c)
  <2>1. \/ Update(c, StoreMeasurement(shutter[c], now, online))
        \/ Update(c, AbortCalibration(shutter[c]))
    BY <1>2 DEF CalibFinish, CalibAbort
  <2> QED BY <1>0, <2>1, StoreMeasurementFrame, AbortCalibrationFrame, OneChannelFrame
<1>3. ASSUME NEW t \in Uploads, ConfigUpload(c, t)
      PROVE  \A d \in Channel : ChannelStep(d) /\ Quiet(d)
  <2> DEFINE r == [shutter[c] EXCEPT !.travelDown = t[1], !.travelUp = t[2]]
  <2>1. r.pos = shutter[c].pos /\ r.moving = shutter[c].moving
        /\ r.pendingMove = shutter[c].pendingMove
    BY <1>0 DEF ChannelState
  <2>2. Update(c, r)
    BY <1>3 DEF ConfigUpload
  <2> HIDE DEF r
  <2>3. Frame(shutter[c], r, online)
    BY <2>1 DEF Frame, Resolved, Published, NotPending
  <2> QED BY <2>2, <2>3, OneChannelFrame
<1> QED BY <1>1, <1>2, <1>3

\* jarolift.loop() leaves the channels alone, or tells them of the first frame.
LEMMA TakenFrame ==
  ASSUME ChannelsGood, AirGood, QueueType, RestType, RadioLoop, ~UNCHANGED shutter
  PROVE  \E cmd \in Command : shutter' = AllNotified(cmd)
<1>1. heard # <<>> /\ shutter' = AllNotified(Head(heard)) /\ heard \in Seq(HeardFrame)
  BY DEF RadioLoop, AirGood
<1>2. Head(heard) \in HeardFrame
  BY <1>1
<1> QED BY <1>1, <1>2, FrameType

\* Telegrams and passes.
LEMMA TelegramFrame ==
  ASSUME IInv,
         \/ CyclicPass
         \/ SendPass
         \/ RadioLoop
         \/ \E fn \in Fns, to \in SUBSET Channel \ {{}} : JaroCmd(fn, to) \/ RemotePress(fn, to)
  PROVE  \A d \in Channel : ChannelStep(d) /\ Quiet(d)
<1>0. ChannelsGood /\ AirGood /\ QueueType /\ RestType
  BY IInvParts DEF AllGood
<1>1. ASSUME NEW cmd \in Command, NEW d \in Channel
      PROVE  Frame(shutter[d], AllNotified(cmd)[d], online)
  <2>1. cmd.fn \in Moves \cup {"STOP", "SHADE", "OTHER"}
    BY DEF Command
  <2>2. CASE d \in cmd.to
    <3>1. AllNotified(cmd)[d] = Notified(shutter[d], cmd.fn, now)
      BY <2>2 DEF AllNotified
    <3> QED BY <1>0, <2>1, <3>1, NotifiedFrame DEF ChannelsGood, RestType
  <2>3. CASE d \notin cmd.to
    BY <2>3 DEF AllNotified, Frame, Resolved, Published, NotPending
  <2> QED BY <2>2, <2>3
<1>2. CASE CyclicPass
  <2>1. ASSUME NEW d \in Channel PROVE Frame(shutter[d], shutter'[d], online)
    BY <1>0, <1>2, CyclicFrame DEF CyclicPass, Swept, ChannelsGood, RestType
  <2> QED BY <2>1 DEF ChannelStep, Quiet, Frame
<1>3. CASE SendPass
  <2> DEFINE cmd == Head(jaroCmdQueue)
  <2>1. cmd \in Command /\ shutter' = Swept(AllNotified(cmd))
    BY <1>0, <1>3 DEF SendPass, QueueType
  <2> HIDE DEF cmd
  <2>2. ASSUME NEW d \in Channel PROVE Frame(shutter[d], shutter'[d], online)
    <3>1. shutter'[d] = CyclicChannel(AllNotified(cmd)[d], now, online)
      BY <2>1 DEF Swept
    <3>2. Good(AllNotified(cmd)[d], After(cmd, d)) /\ Good(shutter[d], Followed(d))
      BY <1>0, <2>1, AllNotifiedGood DEF ChannelsGood
    <3> QED BY <1>0, <1>1, <2>1, <3>1, <3>2, PassFrame DEF RestType
  <2> QED BY <2>2 DEF ChannelStep, Quiet, Frame
<1>4. ASSUME NEW fn \in Fns, NEW to \in SUBSET Channel \ {{}}, JaroCmd(fn, to)
      PROVE  \A d \in Channel : ChannelStep(d) /\ Quiet(d)
  BY <1>4 DEF JaroCmd, ChannelStep, Quiet, Resolved, Published, NotPending
<1>5. ASSUME NEW fn \in Fns, NEW to \in SUBSET Channel \ {{}}, RemotePress(fn, to)
      PROVE  \A d \in Channel : ChannelStep(d) /\ Quiet(d)
  BY <1>5 DEF RemotePress, ChannelStep, Quiet, Resolved, Published, NotPending
<1>6. CASE RadioLoop
  <2>1. CASE UNCHANGED shutter
    BY <2>1 DEF ChannelStep, Quiet, Resolved, Published, NotPending
  <2>2. CASE ~UNCHANGED shutter
    <3>1. PICK cmd \in Command : shutter' = AllNotified(cmd)
      BY <1>0, <1>6, <2>2, TakenFrame
    <3> QED BY <1>1, <3>1 DEF ChannelStep, Quiet, Frame
  <2> QED BY <2>1, <2>2
<1> QED BY <1>2, <1>3, <1>4, <1>5, <1>6

\* Power, broker and clock.
LEMMA SurroundingsFrame ==
  ASSUME IInv, Restart \/ SessionLost \/ SessionUp \/ Tick \/ UNCHANGED vars
  PROVE  \A d \in Channel : ChannelStep(d) /\ Quiet(d)
<1>1. CASE Restart
  <2>1. ASSUME NEW d \in Channel
        PROVE  shutter'[d].pos = UNKNOWN /\ ~shutter'[d].pendingMove
    BY <1>1, IInvParts DEF AllGood, Restart, PowerUp, ChannelsGood, ChannelState
  <2> QED BY <2>1 DEF ChannelStep, Quiet, Resolved, Published, NotPending
<1>2. CASE ~Restart
  <2>1. UNCHANGED shutter
    BY <1>2 DEF SessionLost, SessionUp, Tick, vars
  <2> QED BY <2>1 DEF ChannelStep, Quiet, Resolved, Published, NotPending
<1> QED BY <1>1, <1>2

\* Every step, for the action properties.
LEMMA EveryStep ==
  ASSUME IInv, [Next]_vars
  PROVE  \A c \in Channel : ChannelStep(c)
  BY SetTargetFrame, CalibrationFrame, TelegramFrame, SurroundingsFrame DEF Next

\* Nothing but an end-stop resolves an unknown position.
THEOREM KnownAtEndStop == Spec => KnownOnlyAtEndStop
<1>1. IInv /\ [Next]_vars =>
        \A c \in Channel :
          shutter[c].pos = UNKNOWN /\ shutter'[c].pos # UNKNOWN => shutter'[c].pos \in Ends
  BY EveryStep DEF ChannelStep, Resolved
<1> QED BY <1>1, InvariantHolds, PTL DEF Spec, KnownOnlyAtEndStop

\* In a session a channel that comes to rest is published where it rests.
THEOREM RestPublished == Spec => RestIsPublished
<1>1. IInv /\ [Next]_vars =>
        \A c \in Channel : LET s == shutter[c] t == shutter'[c] IN
          online /\ online' /\ s.moving /\ ~t.moving /\ ~t.pendingMove /\ t.pos # UNKNOWN
            => t.shown = t.pos
  BY EveryStep DEF ChannelStep, Published
<1> QED BY <1>1, InvariantHolds, PTL DEF Spec, RestIsPublished

-----------------------------------------------------------------------------
(* Pending movements and the queue.                                        *)

\* A telegram for channel c waits in queue q.
WaitsIn(q, c) == \E i \in 1 .. Len(q) : q[i].fn \in Moves /\ c \in q[i].to

Waiting(c) == c \in dropped \/ WaitsIn(jaroCmdQueue, c)

\* A longer queue holds what the shorter one held, and the new command.
LEMMA AppendWaits ==
  ASSUME NEW q \in Seq(Command), NEW cmd \in Command, NEW c
  PROVE  /\ WaitsIn(q, c) => WaitsIn(Append(q, cmd), c)
         /\ cmd.fn \in Moves /\ c \in cmd.to => WaitsIn(Append(q, cmd), c)
<1>1. Len(Append(q, cmd)) = Len(q) + 1 /\ Len(q) \in Nat
  OBVIOUS
<1>2. Append(q, cmd)[Len(q) + 1] = cmd
  OBVIOUS
<1>3. \A i \in 1 .. Len(q) : Append(q, cmd)[i] = q[i]
  OBVIOUS
<1> QED BY <1>1, <1>2, <1>3 DEF WaitsIn

\* What leaves the queue is its first command.
LEMMA TailWaits ==
  ASSUME NEW q \in Seq(Command), q # << >>, NEW c, WaitsIn(q, c),
         ~(Head(q).fn \in Moves /\ c \in Head(q).to)
  PROVE  WaitsIn(Tail(q), c)
<1>1. PICK i \in 1 .. Len(q) : q[i].fn \in Moves /\ c \in q[i].to
  BY DEF WaitsIn
<1>2. i # 1
  BY <1>1
<1>3. i - 1 \in 1 .. Len(Tail(q)) /\ Tail(q)[i - 1] = q[i]
  BY <1>1, <1>2
<1> QED BY <1>1, <1>3 DEF WaitsIn

\* Queueing forgets nobody, and remembers whom the command is for.
LEMMA EnqueueWaits ==
  ASSUME QueueType, NEW cmd \in Command, Enqueue(cmd), NEW c
  PROVE  /\ Waiting(c) => Waiting(c)'
         /\ cmd.fn \in Moves /\ c \in cmd.to => Waiting(c)'
<1>1. CASE Len(jaroCmdQueue) < MaxCmd
  <2>1. jaroCmdQueue' = Append(jaroCmdQueue, cmd) /\ dropped' = dropped
    BY <1>1 DEF Enqueue
  <2> QED BY <2>1, AppendWaits DEF QueueType, Waiting
<1>2. CASE ~(Len(jaroCmdQueue) < MaxCmd)
  BY <1>2 DEF Enqueue, Waiting
<1> QED BY <1>1, <1>2

\* Every step keeps the telegram of a pending movement in the queue until the
\* tracker is told of it, or counts it as dropped.
LEMMA PendingStep == IInv /\ PendingHasTelegram /\ [Next]_vars => PendingHasTelegram'
<1> SUFFICES ASSUME IInv, PendingHasTelegram, [Next]_vars,
                    NEW c \in Channel, shutter'[c].pendingMove
             PROVE  Waiting(c)'
  BY DEF PendingHasTelegram, Waiting, WaitsIn
<1>0. shutter[c].pendingMove => Waiting(c)
  BY DEF PendingHasTelegram, Waiting, WaitsIn
<1>1. QueueType /\ ChannelsGood /\ RestType
  BY IInvParts DEF AllGood
<1>2. ASSUME Quiet(c), UNCHANGED <<jaroCmdQueue, dropped>>
      PROVE  Waiting(c)'
  BY <1>0, <1>2 DEF Quiet, NotPending, Waiting
<1>3. ASSUME Quiet(c), NEW cmd \in Command, Enqueue(cmd)
      PROVE  Waiting(c)'
  BY <1>0, <1>1, <1>3, EnqueueWaits DEF Quiet, NotPending
<1>4. ASSUME NEW d \in Channel, NEW pct \in Position, SetTarget(d, pct)
      PROVE  Waiting(c)'
  <2>1. CASE UNCHANGED <<jaroCmdQueue, dropped>> /\ Quiet(c)
    BY <1>2, <2>1
  <2>2. ASSUME NEW down \in BOOLEAN, Enqueue(DriveCmd(down, d)), c = d
        PROVE  Waiting(c)'
    <3>1. /\ DriveCmd(down, d) \in Command
          /\ DriveCmd(down, d).fn \in Moves /\ c \in DriveCmd(down, d).to
      BY <2>2, DriveCmdType DEF DriveCmd, Moves
    <3> QED BY <1>1, <2>2, <3>1, EnqueueWaits
  <2>3. ASSUME NEW down \in BOOLEAN, Enqueue(DriveCmd(down, d)), c # d
        PROVE  Waiting(c)'
    <3>1. Quiet(c)
      BY <1>4, <2>3, SetTargetFrame
    <3> QED BY <1>3, <2>3, <3>1, DriveCmdType
  <2>4. CASE UNCHANGED <<jaroCmdQueue, dropped>> /\ c # d
    <3>1. Quiet(c)
      BY <1>4, <2>4, SetTargetFrame
    <3> QED BY <1>2, <2>4, <3>1
  <2> QED BY <1>4, <2>1, <2>2, <2>3, <2>4, SetTargetFrame
<1>5. ASSUME NEW d \in Channel, NEW down \in BOOLEAN, CalibStart(d, down)
      PROVE  Waiting(c)'
  <2>1. Quiet(c)
    BY <1>5, CalibrationFrame
  <2> QED BY <1>3, <1>5, <2>1, DriveCmdType DEF CalibStart
<1>6. ASSUME NEW d \in Channel,
             CalibFinish(d) \/ CalibAbort(d) \/ \E t \in Uploads : ConfigUpload(d, t)
      PROVE  Waiting(c)'
  <2>1. Quiet(c)
    BY <1>6, CalibrationFrame
  <2> QED BY <1>2, <1>6, <2>1 DEF CalibFinish, CalibAbort, ConfigUpload
<1>7. ASSUME NEW fn \in Fns, NEW to \in SUBSET Channel \ {{}}, JaroCmd(fn, to)
      PROVE  Waiting(c)'
  <2>1. Quiet(c)
    BY <1>7, TelegramFrame
  <2>2. [fn |-> fn, to |-> to] \in Command
    BY FnsAssumption DEF Command
  <2> QED BY <1>3, <1>7, <2>1, <2>2 DEF JaroCmd
<1>8. ASSUME NEW fn \in Fns, NEW to \in SUBSET Channel \ {{}}, RemotePress(fn, to)
      PROVE  Waiting(c)'
  <2>1. Quiet(c)
    BY <1>8, TelegramFrame
  <2> QED BY <1>2, <1>8, <2>1 DEF RemotePress
<1>9. CASE CyclicPass
  <2>1. Quiet(c)
    BY <1>9, TelegramFrame
  <2> QED BY <1>2, <1>9, <2>1 DEF CyclicPass
<1>10. CASE SendPass
  <2> DEFINE cmd == Head(jaroCmdQueue)
  <2>1. /\ jaroCmdQueue # << >> /\ cmd \in Command
        /\ shutter' = Swept(AllNotified(cmd))
        /\ jaroCmdQueue' = Tail(jaroCmdQueue) /\ dropped' = dropped
    BY <1>1, <1>10 DEF SendPass, QueueType
  <2>2. Quiet(c)
    BY <1>10, TelegramFrame
  <2>3. ~(cmd.fn \in Moves /\ c \in cmd.to)
    <3>1. SUFFICES ASSUME cmd.fn \in Moves, c \in cmd.to PROVE FALSE
      OBVIOUS
    <3> HIDE DEF cmd
    <3> DEFINE r == Notified(shutter[c], cmd.fn, now)
    <3>2. shutter'[c] = CyclicChannel(r, now, online)
      BY <2>1, <3>1 DEF Swept, AllNotified
    <3>3. ~r.pendingMove
      BY <1>1, <3>1, NotifiedFrame DEF ChannelsGood, RestType
    <3>4. Good(r, IF cmd.fn \in Drives THEN cmd.fn ELSE Followed(c))
      BY <1>1, <3>1, NotifiedGood DEF ChannelsGood, RestType
    <3> HIDE DEF r
    <3>5. NotPending(r, shutter'[c])
      BY <1>1, <3>2, <3>4, CyclicFrame DEF Frame, RestType
    <3> QED BY <3>3, <3>5 DEF NotPending
  <2> QED BY <1>0, <1>1, <2>1, <2>2, <2>3, TailWaits DEF Waiting, Quiet, NotPending, QueueType
<1>11. CASE Restart
  <2>1. ~shutter'[c].pendingMove
    BY <1>1, <1>11 DEF Restart, PowerUp, ChannelsGood, ChannelState
  <2> QED BY <2>1
<1>12. CASE RadioLoop
  <2>1. Quiet(c)
    BY <1>12, TelegramFrame
  <2> QED BY <1>2, <1>12, <2>1 DEF RadioLoop
<1>13. CASE SessionLost \/ SessionUp \/ Tick \/ UNCHANGED vars
  <2>1. Quiet(c)
    BY <1>13, SurroundingsFrame
  <2>2. UNCHANGED <<jaroCmdQueue, dropped>>
    BY <1>13 DEF SessionLost, SessionUp, Tick, vars
  <2> QED BY <1>2, <2>1, <2>2
<1> QED BY <1>4, <1>5, <1>6, <1>7, <1>8, <1>9, <1>10, <1>11, <1>12, <1>13 DEF Next

\* A target that was accepted waits for a telegram that is in the queue, unless
\* the full queue dropped it.
THEOREM PendingQueued == Spec => []PendingHasTelegram
<1>1. Init => PendingHasTelegram
  <2> SUFFICES ASSUME Init, NEW c \in Channel PROVE ~shutter[c].pendingMove
    BY DEF PendingHasTelegram
  <2>1. PICK t \in [Channel -> TravelTimes] :
          shutter = [d \in Channel |-> PowerUp(Unpowered(t[d]))]
    BY DEF Init
  <2>2. ~Unpowered(t[c]).pendingMove
    BY DEF Unpowered
  <2>3. shutter[c] = PowerUp(Unpowered(t[c]))
    BY <2>1
  <2> QED BY <2>2, <2>3 DEF PowerUp, Unpowered
<1> QED BY <1>1, PendingStep, InvariantHolds, PTL DEF Spec
-----------------------------------------------------------------------------
(* Runs.  The deadline of a timed stop and the estimate read the start of  *)
(* the movement, the direction and the travel time together; Course says   *)
(* how an operation may change them, and everything below follows from it. *)

\* The travel times of a channel are those it had.
TravelSame(s, r) == r.travelDown = s.travelDown /\ r.travelUp = s.travelUp

\* The channel rests; it moves from an unknown start, untimed; it runs on, at
\* most without its deadline; or a run begins at t, from the banked position.
Resting(r)  == ~r.moving /\ r.stopAtMs = 0
Unplaced(r) == r.moving /\ r.posAtStart = UNKNOWN /\ r.stopAtMs = 0

GoesOn(s, r) ==
  /\ s.moving /\ r.moving /\ r.goingDown = s.goingDown
  /\ r.startMs = s.startMs /\ r.posAtStart = s.posAtStart
  /\ r.stopAtMs \in {s.stopAtMs, 0}

Begins(s, r, t) ==
  /\ r.moving /\ r.startMs = t /\ r.posAtStart = Bank(s, t).pos
  /\ TravelTime(s, r.goingDown) # 0 \/ (s.moving /\ s.goingDown = r.goingDown)
  /\ r.stopAtMs # 0 => Elapsed(t, r.stopAtMs) <= TravelTime(s, r.goingDown)

Course(s, r, t) ==
  /\ TravelSame(s, r)
  /\ Resting(r) \/ Unplaced(r) \/ GoesOn(s, r) \/ Begins(s, r, t)

\* A larger number has the larger quotient.
LEMMA DivMono ==
  ASSUME NEW a \in Nat, NEW b \in Nat, NEW n \in Nat \ {0}, a <= b
  PROVE  a \div n \in Nat /\ b \div n \in Nat /\ a \div n <= b \div n
<1>1. PICK q \in Int : q = a \div n
  OBVIOUS
<1>2. PICK p \in Int : p = b \div n
  OBVIOUS
<1>3. n * q <= a /\ a < n * q + n /\ n * p <= b /\ b < n * p + n
  BY <1>1, <1>2
<1>4. q >= 0 /\ p >= 0
  BY <1>1, <1>2
<1>5. ASSUME q >= p + 1 PROVE FALSE
  <2>1. n * q >= n * (p + 1)
    BY <1>5
  <2>2. n * (p + 1) = n * p + n
    OBVIOUS
  <2> QED BY <1>3, <2>1, <2>2
<1> QED BY <1>1, <1>2, <1>4, <1>5

\* A multiple divides to its factor.
LEMMA DivExact ==
  ASSUME NEW a \in Nat, NEW n \in Nat \ {0}
  PROVE  (n * a) \div n = a
  OBVIOUS

\* Between a reading of the clock and the one r ticks later no more than r
\* ticks elapse, wherever the clock wraps.
LEMMA ElapsedBound ==
  ASSUME NEW t \in Time, NEW r \in Nat
  PROVE  Elapsed(t, (t + r) % Wrap) <= r
<1> DEFINE e == (t + r) % Wrap
<1>0. Wrap \in Nat \ {0} /\ t \in Nat
  BY WrapAssumption DEF Time
<1>1. PICK q \in Nat : q = (t + r) \div Wrap
  BY <1>0
<1>2. t + r = Wrap * q + e /\ e \in 0 .. Wrap - 1
  BY <1>0, <1>1
<1> HIDE DEF e
<1>3. CASE e >= t
  <2>1. Wrap * q >= 0 /\ Wrap * q \in Int
    BY <1>0, <1>1
  <2>2. Elapsed(t, e) = e - t
    BY <1>0, <1>2, <1>3 DEF Elapsed, Time
  <2> QED BY <1>0, <1>2, <2>1, <2>2 DEF e
<1>4. CASE e < t
  <2>1. q # 0
    BY <1>0, <1>2, <1>4
  <2>2. Wrap * q >= Wrap /\ Wrap * q \in Int
    BY <1>0, <1>1, <2>1
  <2>3. Elapsed(t, e) = e - t + Wrap
    <3>1. e - t + Wrap \in 0 .. Wrap - 1
      BY <1>0, <1>2, <1>4 DEF Time
    <3> QED BY <1>0, <1>2, <1>4, <3>1 DEF Elapsed, Time
  <2> QED BY <1>0, <1>2, <2>2, <2>3 DEF e
<1> QED BY <1>0, <1>2, <1>3, <1>4

\* A timed run takes no longer than the whole travel.
LEMMA RunTimeBound ==
  ASSUME NEW s \in ChannelState, NEW down \in BOOLEAN,
         s.pos # UNKNOWN, s.target # EndStop, Span(s, down) > 0
  PROVE  RunTime(s, down) \in Nat /\ RunTime(s, down) <= TravelTime(s, down)
<1>1. Span(s, down) \in Nat /\ Span(s, down) <= Full
  BY FullAssumption DEF Span, ChannelState, Position, Between, UNKNOWN, EndStop
<1>2. PICK k \in Nat : k = Span(s, down)
  BY <1>1
<1>3. PICK d \in Nat : d = TravelTime(s, down)
  BY TravelTimeType
<1>4. Full \in Nat \ {0} /\ k <= Full
  BY <1>1, <1>2, FullAssumption
<1>5. k * d \in Nat /\ Full * d \in Nat /\ k * d <= Full * d
  BY <1>4
<1>6. (k * d) \div Full \in Nat /\ (k * d) \div Full <= d
  BY <1>4, <1>5, DivMono, DivExact
<1> QED BY <1>2, <1>3, <1>6 DEF RunTime

\* Settling ends a run and leaves the travel times alone.
LEMMA SettleCourse ==
  ASSUME NEW s \in ChannelState, NEW p \in Position \cup {UNKNOWN}, NEW up \in BOOLEAN
  PROVE  TravelSame(s, SettleAt(s, p, up)) /\ Resting(SettleAt(s, p, up))
<1>1. TravelSame(s, SettleAt(s, p, up))
  <2> DEFINE r == [s EXCEPT !.pos = p, !.posAtStart = p, !.target = EndStop,
                            !.stopAtMs = 0, !.moving = FALSE, !.pendingMove = FALSE]
  <2>1. TravelSame(s, r) /\ TravelSame(s, [r EXCEPT !.shown = p])
    BY DEF TravelSame, ChannelState
  <2>2. SettleAt(s, p, up) \in {r, [r EXCEPT !.shown = p]}
    BY DEF SettleAt, Publish
  <2> QED BY <2>1, <2>2
<1> QED BY <1>1, SettleType DEF Resting

\* A channel that is not touched keeps its course.
LEMMA SameCourse ==
  ASSUME NEW s, NEW m, Good(s, m), NEW t
  PROVE  Course(s, s, t)
  BY DEF Course, TravelSame, Resting, GoesOn, Good, ChannelConsistent

\* A STOP ends the run.
LEMMA NotifyStopCourse ==
  ASSUME NEW s, NEW m, Good(s, m), NEW t \in Time, NEW up \in BOOLEAN
  PROVE  TravelSame(s, NotifyStop(s, t, up)) /\ Resting(NotifyStop(s, t, up))
<1>1. CASE s.moving
  <2>1. EstimatePos(s, t) \in Position \cup {UNKNOWN}
    BY EstimateType DEF Good
  <2> QED BY <1>1, <2>1, SettleCourse DEF NotifyStop, Good
<1>2. CASE ~s.moving
  BY <1>2 DEF NotifyStop, TravelSame, Resting, Good, ChannelConsistent
<1> QED BY <1>1, <1>2

\* Banking keeps all that a travel time depends on.
LEMMA BankCourse ==
  ASSUME NEW s \in ChannelState, NEW t \in Time
  PROVE  LET b == Bank(s, t) IN
         /\ TravelSame(s, b)
         /\ b.moving = s.moving /\ b.goingDown = s.goingDown
         /\ b.startMs = s.startMs /\ b.posAtStart = s.posAtStart
         /\ b.stopAtMs = s.stopAtMs /\ b.target = s.target
<1> DEFINE b == Bank(s, t)
<1>1. b = [s EXCEPT !.pos = b.pos]
  BY BankType
<1> HIDE DEF b
<1> QED BY <1>1 DEF TravelSame, ChannelState, b

\* The travel time reads nothing but the two configured ones.
LEMMA TravelTimeSame ==
  ASSUME NEW s, NEW r, TravelSame(s, r), NEW down
  PROVE  TravelTime(r, down) = TravelTime(s, down)
  BY DEF TravelSame, TravelTime

\* An ordinary movement begins, from wherever the channel was.
LEMMA StartRunCourse ==
  ASSUME NEW s \in ChannelState, NEW down \in BOOLEAN, NEW t \in Time,
         TravelTime(s, down) # 0
  PROVE  Course(s, StartRun(s, down, t), t)
<1> DEFINE b   == Bank(s, t)
           run == [b EXCEPT !.posAtStart = b.pos, !.startMs = t, !.goingDown = down,
                            !.moving = TRUE, !.pendingMove = FALSE]
           timed == b.pendingMove /\ b.target # EndStop /\ b.pos # UNKNOWN
           r   == StartRun(s, down, t)
<1>1. b \in ChannelState /\ TravelSame(s, b)
  BY BankType, BankCourse
<1> HIDE DEF b
<1>2. /\ TravelSame(b, run) /\ run.moving /\ run.startMs = t
      /\ run.posAtStart = b.pos /\ run.goingDown = down
  BY <1>1 DEF ChannelState, TravelSame
<1>3. run \in ChannelState
  BY <1>1, Zenon DEF ChannelState
<1> HIDE DEF run
<1>4. ASSUME NEW at
      PROVE  LET q == [run EXCEPT !.stopAtMs = at] IN
             /\ TravelSame(b, q) /\ q.moving /\ q.startMs = t
             /\ q.posAtStart = b.pos /\ q.goingDown = down /\ q.stopAtMs = at
  BY <1>2, <1>3 DEF ChannelState, TravelSame
<1>5. /\ TravelSame(b, r) /\ r.moving /\ r.startMs = t
      /\ r.posAtStart = b.pos /\ r.goingDown = down
      /\ r.stopAtMs # 0 => Elapsed(t, r.stopAtMs) <= TravelTime(s, down)
  <2>1. CASE ~timed
    <3>1. r = [run EXCEPT !.stopAtMs = 0, !.target = EndStop]
      BY <2>1 DEF StartRun, run, b
    <3> HIDE DEF r
    <3>2. /\ TravelSame(b, r) /\ r.moving /\ r.startMs = t
          /\ r.posAtStart = b.pos /\ r.goingDown = down /\ r.stopAtMs = 0
      BY <1>2, <1>3, <3>1 DEF ChannelState, TravelSame
    <3> QED BY <3>2, Zenon
  <2>2. CASE timed /\ Span(b, down) <= 0
    <3>1. r = [run EXCEPT !.stopAtMs = t]
      BY <2>2 DEF StartRun, run, b
    <3> HIDE DEF r
    <3>2. Elapsed(t, t) = 0
      BY WrapAssumption DEF Elapsed, Time
    <3>3. TravelTime(s, down) \in Nat
      BY TravelTimeType
    <3> QED BY <1>4, <3>1, <3>2, <3>3
  <2>3. CASE timed /\ ~(Span(b, down) <= 0)
    <3>1. r = [run EXCEPT !.stopAtMs = (t + RunTime(b, down)) % Wrap]
      BY <2>3 DEF StartRun, run, b
    <3> HIDE DEF r
    <3>2. Span(b, down) > 0
      BY <1>1, <2>3, FullAssumption
         DEF Span, ChannelState, Position, Between, UNKNOWN, EndStop
    <3>3. /\ RunTime(b, down) \in Nat
          /\ RunTime(b, down) <= TravelTime(b, down)
      BY <1>1, <2>3, <3>2, RunTimeBound
    <3>4. Elapsed(t, (t + RunTime(b, down)) % Wrap) <= RunTime(b, down)
      BY <3>3, ElapsedBound
    <3>5. (t + RunTime(b, down)) % Wrap \in Time
      BY <1>1, DeadlineType
    <3>6. /\ Elapsed(t, (t + RunTime(b, down)) % Wrap) \in Int
          /\ TravelTime(b, down) \in Int
          /\ TravelTime(b, down) = TravelTime(s, down)
      BY <1>1, <3>5, ElapsedType, TravelTimeType, TravelTimeSame DEF Time
    <3>7. Elapsed(t, (t + RunTime(b, down)) % Wrap) <= TravelTime(s, down)
      BY <3>3, <3>4, <3>6
    <3> QED BY <1>4, <3>1, <3>7
  <2> QED BY <2>1, <2>2, <2>3
<1>6. TravelSame(s, r)
  BY <1>1, <1>5 DEF TravelSame
<1> QED BY <1>5, <1>6 DEF Course, Begins, b

\* UP and DOWN, in every case.
LEMMA StartMovementCourse ==
  ASSUME NEW s, NEW m, Good(s, m), NEW down \in BOOLEAN, NEW t \in Time, NEW up \in BOOLEAN
  PROVE  Course(s, StartMovement(s, down, t, up), t)
<1>0. s \in ChannelState
  BY DEF Good
<1>1. CASE s.active
  <2>1. TravelSame(s, StartMeasuring(s, down, t))
    BY <1>0 DEF StartMeasuring, TravelSame, ChannelState
  <2> QED BY <1>0, <1>1, <2>1, StartMeasuringType DEF StartMovement, Course, Unplaced
<1>2. CASE ~s.active /\ TravelTime(s, down) = 0
  <2>1. StartMovement(s, down, t, up) = SettleAt(s, EndOf(down), up)
    BY <1>2 DEF StartMovement
  <2> QED BY <1>0, <2>1, EndsKnown, SettleCourse DEF Course
<1>3. CASE ~s.active /\ TravelTime(s, down) # 0
  BY <1>0, <1>3, StartRunCourse DEF StartMovement
<1> QED BY <1>1, <1>2, <1>3

\* Any telegram.
LEMMA NotifiedCourse ==
  ASSUME NEW s, NEW m, Good(s, m), NEW fn \in Moves \cup {"STOP", "SHADE", "OTHER"},
         NEW t \in Time, online \in BOOLEAN
  PROVE  Course(s, Notified(s, fn, t), t)
<1>1. CASE fn = "DOWN"
  BY <1>1, StartMovementCourse DEF Notified
<1>2. CASE fn = "UP"
  BY <1>2, StartMovementCourse DEF Notified
<1>3. CASE fn = "STOP"
  BY <1>3, NotifyStopCourse DEF Notified, Course
<1>4. CASE fn = "SHADE"
  <2> DEFINE r == Notified(s, fn, t)
  <2>1. r = IF online THEN [s EXCEPT !.shown = Shade] ELSE s
    BY <1>4 DEF Notified, Publish
  <2> HIDE DEF r
  <2>2. /\ TravelSame(s, r) /\ r.moving = s.moving /\ r.goingDown = s.goingDown
        /\ r.startMs = s.startMs /\ r.posAtStart = s.posAtStart /\ r.stopAtMs = s.stopAtMs
    BY <2>1 DEF Good, ChannelState, TravelSame
  <2> QED BY <2>2 DEF r, Course, Resting, GoesOn, Good, ChannelConsistent
<1>5. CASE fn = "OTHER"
  BY <1>5, SameCourse DEF Notified
<1> QED BY <1>1, <1>2, <1>3, <1>4, <1>5 DEF Moves

\* One pass of shutterPosCyclic settles the channel or leaves it alone.
LEMMA CyclicCourse ==
  ASSUME NEW s, NEW m, Good(s, m), NEW t \in Time, NEW up \in BOOLEAN
  PROVE  LET r == CyclicChannel(s, t, up) IN
         /\ TravelSame(s, r)
         /\ Resting(r) \/ (r = s /\ ~StopDue(s, t) /\ ~EndReached(s, t))
<1>1. CASE StopDue(s, t)
  <2>1. s.target \in Position \cup {UNKNOWN}
    BY <1>1 DEF Good, ChannelConsistent, StopDue, Between
  <2> QED BY <1>1, <2>1, SettleCourse DEF CyclicChannel, Good
<1>2. CASE ~StopDue(s, t) /\ EndReached(s, t)
  <2>1. EndOf(s.goingDown) \in Position
    BY EndsKnown DEF Good, ChannelState
  <2> QED BY <1>2, <2>1, SettleCourse DEF CyclicChannel, Good
<1>3. CASE ~StopDue(s, t) /\ ~EndReached(s, t)
  BY <1>3 DEF CyclicChannel, TravelSame
<1> QED BY <1>1, <1>2, <1>3

\* A request the running motor already serves begins a new run part way, or
\* lets the run go on to the end.
LEMMA RetargetCourse ==
  ASSUME NEW b \in ChannelState, NEW pct \in Position, NEW t \in Time,
         b.moving, b.goingDown = NeedsDown(b, pct),
         pct \in Ends \/ (b.pos # UNKNOWN /\ b.pos # pct)
  PROVE  LET r == Retarget(b, pct, t) IN
         /\ TravelSame(b, r)
         /\ \/ GoesOn(b, r)
            \/ /\ r.moving /\ r.startMs = t /\ r.posAtStart = b.pos
               /\ r.goingDown = b.goingDown
               /\ r.stopAtMs # 0 => Elapsed(t, r.stopAtMs) <= TravelTime(b, b.goingDown)
<1> DEFINE down == NeedsDown(b, pct)
           aim  == Aim(b, pct)
           a    == [aim EXCEPT !.pendingMove = FALSE]
           r    == Retarget(b, pct, t)
<1>0. /\ aim \in ChannelState /\ TravelSame(b, aim)
      /\ aim.target = IF pct \in Ends THEN EndStop ELSE pct
      /\ aim.pos = b.pos /\ aim.posAtStart = b.posAtStart /\ aim.stopAtMs = b.stopAtMs
      /\ aim.moving = b.moving /\ aim.goingDown = b.goingDown /\ aim.startMs = b.startMs
  <2>1. TravelSame(b, aim) /\ aim.startMs = b.startMs
    BY DEF Aim, TravelSame, ChannelState
  <2> QED BY <2>1, AimType
<1> HIDE DEF aim
<1>1. a \in ChannelState
  BY <1>0, Zenon DEF ChannelState
<1>2. /\ a.target = aim.target /\ TravelSame(b, a) /\ a.startMs = b.startMs
      /\ a.pos = b.pos /\ a.posAtStart = b.posAtStart /\ a.stopAtMs = b.stopAtMs
      /\ a.moving = b.moving /\ a.goingDown = b.goingDown
  BY <1>0 DEF ChannelState, TravelSame
<1>3. down \in BOOLEAN /\ down = b.goingDown
  BY NeedsDownType
<1> HIDE DEF a
<1>4. CASE pct \in Ends
  <2>1. r = [a EXCEPT !.stopAtMs = 0]
    BY <1>0, <1>2, <1>4 DEF Retarget, a, aim
  <2> HIDE DEF r
  <2>2. /\ TravelSame(a, r) /\ r.startMs = a.startMs /\ r.posAtStart = a.posAtStart
        /\ r.stopAtMs = 0 /\ r.moving = a.moving /\ r.goingDown = a.goingDown
    BY <1>1, <2>1 DEF ChannelState, TravelSame
  <2> QED BY <1>2, <2>2 DEF GoesOn, TravelSame, r
<1>5. CASE pct \notin Ends
  <2>1. a.target = pct /\ a.target # EndStop /\ a.pos # UNKNOWN /\ a.pos # pct
    BY <1>0, <1>2, <1>5, FullAssumption DEF Position, EndStop
  <2>2. Span(a, down) > 0
    <3>1. a.pos \in Int /\ pct \in Int
      BY <1>1, FullAssumption DEF ChannelState, Position, UNKNOWN
    <3>2. down <=> pct < a.pos
      BY <1>2, <2>1 DEF NeedsDown
    <3> QED BY <1>3, <2>1, <3>1, <3>2 DEF Span
  <2> DEFINE at == (t + RunTime(a, down)) % Wrap
  <2>3. at \in Time
    BY <1>1, <1>3, DeadlineType
  <2>4. Elapsed(t, at) <= TravelTime(b, down)
    <3>1. /\ RunTime(a, down) \in Nat
          /\ RunTime(a, down) <= TravelTime(a, down)
      BY <1>1, <1>3, <2>1, <2>2, RunTimeBound
    <3>2. Elapsed(t, at) <= RunTime(a, down)
      BY <3>1, ElapsedBound
    <3>3. Elapsed(t, at) \in Int /\ TravelTime(a, down) \in Int
      BY <1>1, <1>3, <2>3, ElapsedType, TravelTimeType DEF Time
    <3>4. TravelTime(a, down) = TravelTime(b, down)
      BY <1>2, TravelTimeSame
    <3> QED BY <3>1, <3>2, <3>3, <3>4
  <2>5. r = [a EXCEPT !.posAtStart = a.pos, !.startMs = t, !.stopAtMs = at]
    <3>1. Span(a, down) \in Int
      BY <1>1, <2>1, FullAssumption DEF Span, ChannelState, Position, UNKNOWN
    <3>2. ~(Span(a, down) <= 0)
      BY <2>2, <3>1
    <3> QED BY <2>1, <3>2 DEF Retarget, a, aim
  <2> HIDE DEF at, r, down
  <2>6. /\ TravelSame(a, r) /\ r.startMs = t /\ r.posAtStart = a.pos
        /\ r.stopAtMs = at /\ r.moving = a.moving /\ r.goingDown = a.goingDown
    BY <1>1, <2>5 DEF ChannelState, TravelSame
  <2> QED BY <1>2, <1>3, <2>4, <2>6 DEF TravelSame, r
<1> QED BY <1>4, <1>5

\* A request that needs a telegram: nothing runs until it is sent.
LEMMA RedirectCourse ==
  ASSUME NEW b, NEW m, Good(b, m), NEW pct \in Position
  PROVE  TravelSame(b, Redirect(b, pct)) /\ Resting(Redirect(b, pct))
<1> DEFINE down == NeedsDown(b, pct)
           a    == [Aim(b, pct) EXCEPT !.pendingMove = TRUE, !.goingDown = down]
<1>0. b \in ChannelState /\ (~b.moving => b.stopAtMs = 0)
  BY DEF Good, ChannelConsistent
<1>1. TravelSame(b, a) /\ a.moving = b.moving /\ a.stopAtMs = b.stopAtMs
  BY <1>0 DEF Aim, TravelSame, ChannelState
<1>2. LET r == [a EXCEPT !.stopAtMs = 0, !.moving = FALSE] IN
        TravelSame(b, r) /\ Resting(r)
  BY <1>0 DEF Aim, TravelSame, Resting, ChannelState
<1>3. Redirect(b, pct) = IF b.moving THEN [a EXCEPT !.stopAtMs = 0, !.moving = FALSE] ELSE a
  BY DEF Redirect
<1> HIDE DEF a
<1> QED BY <1>0, <1>1, <1>2, <1>3 DEF Resting

\* Opening a calibration run stops the movement before it.
LEMMA BeginCalibrationCourse ==
  ASSUME NEW s, NEW m, Good(s, m), NEW down \in BOOLEAN, NEW t \in Time, NEW up \in BOOLEAN
  PROVE  LET r == BeginCalibration(s, down, t, up) IN TravelSame(s, r) /\ Resting(r)
<1> DEFINE n == NotifyStop(s, t, up)
           r == [n EXCEPT !.active = TRUE, !.measuring = FALSE,
                          !.calDown = down, !.calStartMs = 0]
<1>1. n \in ChannelState /\ TravelSame(s, n) /\ Resting(n)
  BY NotifyStopGood, NotifyStopCourse DEF Good
<1>2. BeginCalibration(s, down, t, up) = r
  BY DEF BeginCalibration
<1> HIDE DEF n
<1>3. TravelSame(n, r) /\ r.moving = n.moving /\ r.stopAtMs = n.stopAtMs
  BY <1>1 DEF ChannelState, TravelSame
<1> HIDE DEF r
<1> QED BY <1>1, <1>2, <1>3 DEF TravelSame, Resting

\* Both travel times of a channel are among them.
Fits(s) == s.travelDown \in Durations /\ s.travelUp \in Durations

\* Cancelling a run changes no travel time.
LEMMA AbortCalibrationCourse ==
  ASSUME NEW s \in ChannelState
  PROVE  TravelSame(s, AbortCalibration(s)) /\ Resting(AbortCalibration(s))
<1> DEFINE e == EndCalibration(s)
<1>1. e \in ChannelState /\ TravelSame(s, e)
  BY EndCalibrationType DEF EndCalibration, TravelSame, ChannelState
<1>2. AbortCalibration(s) = SettleAt(e, UNKNOWN, FALSE)
  BY DEF AbortCalibration
<1> HIDE DEF e
<1>3. TravelSame(e, SettleAt(e, UNKNOWN, FALSE)) /\ Resting(SettleAt(e, UNKNOWN, FALSE))
  BY <1>1, SettleCourse
<1> QED BY <1>1, <1>2, <1>3 DEF TravelSame

\* A kept measurement is a plausible travel time of a channel at rest.
LEMMA StoreMeasurementCourse ==
  ASSUME NEW s, NEW m, Good(s, m), NEW t \in Time, NEW up \in BOOLEAN, Plausible(s, t)
  PROVE  LET r == StoreMeasurement(s, t, up) IN Resting(r) /\ (Fits(s) => Fits(r))
<1> DEFINE k == IF s.calDown THEN [s EXCEPT !.travelDown = Measured(s, t)]
                             ELSE [s EXCEPT !.travelUp = Measured(s, t)]
           e == EndCalibration(k)
<1>0. s \in ChannelState
  BY DEF Good
<1>1. Measured(s, t) \in Nat
  BY ElapsedType DEF Measured, Good, ChannelState, Time
<1>2. [s EXCEPT !.travelDown = Measured(s, t)] \in ChannelState
  BY <1>0, <1>1, Zenon DEF ChannelState
<1>3. [s EXCEPT !.travelUp = Measured(s, t)] \in ChannelState
  BY <1>0, <1>1, Zenon DEF ChannelState
<1>4. k \in ChannelState
  BY <1>2, <1>3
<1>5. Measured(s, t) \in Durations
  BY DEF Plausible, Durations
<1>6. Fits(s) => Fits(k)
  BY <1>0, <1>5 DEF Fits, ChannelState
<1>7. EndOf(s.calDown) \in Position
  BY <1>0, EndsKnown DEF ChannelState
<1> HIDE DEF k
<1>8. e \in ChannelState /\ TravelSame(k, e)
  BY <1>4, EndCalibrationType DEF EndCalibration, TravelSame, ChannelState
<1>9. StoreMeasurement(s, t, up) = SettleAt(e, EndOf(s.calDown), up)
  BY DEF StoreMeasurement, k
<1> HIDE DEF e
<1>10. LET r == SettleAt(e, EndOf(s.calDown), up) IN TravelSame(e, r) /\ Resting(r)
  BY <1>7, <1>8, SettleCourse
<1> QED BY <1>6, <1>8, <1>9, <1>10 DEF TravelSame, Fits

\* What an operation on one channel does to all of them.
LEMMA OneChannelCourse ==
  ASSUME IInv, NEW c \in Channel, NEW r, Update(c, r), NEW d \in Channel
  PROVE  /\ d = c => shutter'[d] = r
         /\ d # c => Course(shutter[d], shutter'[d], now)
<1>1. ChannelsGood
  BY IInvParts DEF AllGood
<1>2. Good(shutter[d], Followed(d))
  BY <1>1 DEF ChannelsGood
<1>3. d # c => shutter'[d] = shutter[d]
  BY <1>1 DEF Update, ChannelsGood
<1> QED BY <1>1, <1>2, <1>3, SameCourse DEF Update, ChannelsGood

\* Every way through shutterPosSetTarget.
LEMMA SetTargetCourse ==
  ASSUME IInv, NEW c \in Channel, NEW pct \in Position, SetTarget(c, pct), NEW d \in Channel
  PROVE  Course(shutter[d], shutter'[d], now)
<1> DEFINE s == shutter[c]
           b == Bank(s, now)
           here   == pct \notin Ends /\ b.pos = pct
           refuse == pct \notin Ends /\ b.pos = UNKNOWN
           onWay  == b.moving /\ b.goingDown = NeedsDown(b, pct)
<1>0. ChannelsGood /\ now \in Time /\ online \in BOOLEAN
  BY IInvParts DEF AllGood, RestType
<1>1. Good(s, Followed(c)) /\ s \in ChannelState
  BY <1>0 DEF ChannelsGood, Good
<1>2. /\ Good(b, Followed(c)) /\ b \in ChannelState
      /\ TravelSame(s, b)
      /\ b.moving = s.moving /\ b.goingDown = s.goingDown
      /\ b.startMs = s.startMs /\ b.posAtStart = s.posAtStart
      /\ b.stopAtMs = s.stopAtMs
  BY <1>0, <1>1, BankGood, BankCourse DEF Good
<1> HIDE DEF b
<1>3. ASSUME NEW r, Update(c, r), Course(s, r, now)
      PROVE  Course(shutter[d], shutter'[d], now)
  BY <1>3, OneChannelCourse
<1>4. ASSUME NEW r, TravelSame(b, r), Resting(r)
      PROVE  Course(s, r, now)
  BY <1>2, <1>4 DEF Course, TravelSame
<1>5. CASE UNCHANGED shutter
  BY <1>0, <1>5, SameCourse DEF ChannelsGood
<1>6. CASE Update(c, SettleAt(b, b.pos, online))
  <2>1. b.pos \in Position \cup {UNKNOWN}
    BY <1>2 DEF ChannelState
  <2> QED BY <1>0, <1>2, <1>3, <1>4, <1>6, <2>1, SettleCourse
<1>7. CASE Update(c, b)
  <2>1. Course(s, b, now)
    BY <1>2 DEF Course, GoesOn, Resting, Good, ChannelConsistent
  <2> QED BY <1>3, <1>7, <2>1
<1>8. CASE ~here /\ ~refuse /\ onWay /\ Update(c, Retarget(b, pct, now))
  <2> DEFINE r == Retarget(b, pct, now)
  <2>1. /\ TravelSame(b, r)
        /\ \/ GoesOn(b, r)
           \/ /\ r.moving /\ r.startMs = now /\ r.posAtStart = b.pos
              /\ r.goingDown = b.goingDown
              /\ r.stopAtMs # 0 => Elapsed(now, r.stopAtMs) <= TravelTime(b, b.goingDown)
    BY <1>0, <1>2, <1>8, RetargetCourse
  <2>2. TravelTime(b, b.goingDown) = TravelTime(s, b.goingDown)
    BY <1>2, TravelTimeSame
  <2> HIDE DEF r
  <2>3. Course(s, r, now)
    <3>1. TravelSame(s, r)
      BY <1>2, <2>1 DEF TravelSame
    <3>2. CASE GoesOn(b, r)
      <4>1. GoesOn(s, r)
        BY <1>2, <3>2 DEF GoesOn
      <4> QED BY <3>1, <4>1 DEF Course
    <3>3. CASE ~GoesOn(b, r)
      <4>1. Begins(s, r, now)
        BY <1>2, <1>8, <2>1, <2>2, <3>3 DEF Begins, b
      <4> QED BY <3>1, <4>1 DEF Course
    <3> QED BY <3>2, <3>3
  <2> QED BY <1>3, <1>8, <2>3 DEF r
<1>9. CASE Update(c, Redirect(b, pct))
  BY <1>2, <1>3, <1>4, <1>9, RedirectCourse
<1> QED BY <1>5, <1>6, <1>7, <1>8, <1>9 DEF SetTarget, b

\* An upload finds the channel it changes at rest.
UploadsAtRest ==
  \A c \in Channel, t \in Uploads : ConfigUpload(c, t) => ~shutter[c].moving

\* A channel that comes to rest, with a travel time that may be a new one.
Rests(s, r) == Resting(r) /\ (Fits(s) => Fits(r))

\* Calibration and configuration.
LEMMA CalibrationCourse ==
  ASSUME IInv, NEW c \in Channel, NEW d \in Channel,
         \/ \E down \in BOOLEAN : CalibStart(c, down)
         \/ CalibFinish(c) \/ CalibAbort(c)
         \/ UploadsAtRest /\ \E t \in Uploads : ConfigUpload(c, t)
  PROVE  Course(shutter[d], shutter'[d], now) \/ Rests(shutter[d], shutter'[d])
<1>0. Good(shutter[c], Followed(c)) /\ now \in Time /\ online \in BOOLEAN
      /\ shutter[c] \in ChannelState
  BY IInvParts DEF AllGood, ChannelsGood, RestType, Good
<1>1. ASSUME NEW r, Update(c, r), Course(shutter[c], r, now) \/ Rests(shutter[c], r)
      PROVE  Course(shutter[d], shutter'[d], now) \/ Rests(shutter[d], shutter'[d])
  BY <1>1, OneChannelCourse
<1>2. ASSUME NEW down \in BOOLEAN, CalibStart(c, down)
      PROVE  Course(shutter[d], shutter'[d], now) \/ Rests(shutter[d], shutter'[d])
  BY <1>0, <1>1, <1>2, BeginCalibrationCourse DEF CalibStart, Course
<1>3. CASE CalibFinish(c) \/ CalibAbort(c)
  <2>1. \/ /\ Plausible(shutter[c], now)
           /\ Update(c, StoreMeasurement(shutter[c], now, online))
        \/ Update(c, AbortCalibration(shutter[c]))
    BY <1>3 DEF CalibFinish, CalibAbort
  <2>2. CASE /\ Plausible(shutter[c], now)
             /\ Update(c, StoreMeasurement(shutter[c], now, online))
    BY <1>0, <1>1, <2>2, StoreMeasurementCourse DEF Rests
  <2>3. CASE Update(c, AbortCalibration(shutter[c]))
    BY <1>0, <1>1, <2>3, AbortCalibrationCourse DEF Course
  <2> QED BY <2>1, <2>2, <2>3
<1>4. ASSUME UploadsAtRest, NEW t \in Uploads, ConfigUpload(c, t)
      PROVE  Course(shutter[d], shutter'[d], now) \/ Rests(shutter[d], shutter'[d])
  <2> DEFINE r == [shutter[c] EXCEPT !.travelDown = t[1], !.travelUp = t[2]]
  <2>1. /\ r.moving = shutter[c].moving /\ r.stopAtMs = shutter[c].stopAtMs
        /\ r.travelDown = t[1] /\ r.travelUp = t[2]
    BY <1>0 DEF ChannelState
  <2>2. Update(c, r)
    BY <1>4 DEF ConfigUpload
  <2>3. ~shutter[c].moving
    BY <1>4 DEF UploadsAtRest
  <2> HIDE DEF r
  <2>4. Resting(r)
    BY <1>0, <2>1, <2>3 DEF Resting, Good, ChannelConsistent
  <2>5. Fits(r)
    BY <2>1 DEF Fits, Durations
  <2> QED BY <1>1, <2>2, <2>4, <2>5 DEF Rests
<1> QED BY <1>2, <1>3, <1>4

\* What a step does to the course of channel c.
Handled(c) == /\ Course(shutter[c], shutter'[c], now) \/ Rests(shutter[c], shutter'[c])
              /\ UNCHANGED <<now, lag>>

Passed(c) == \E r, m :
  /\ Good(r, m) /\ Course(shutter[c], r, now)
  /\ shutter'[c] = CyclicChannel(r, now, online)
  /\ now' = now /\ lag' = 0

Ticked == /\ UNCHANGED shutter
          /\ now' = (now + 1) % Wrap /\ lag' = lag + 1 /\ lag < MaxLag

Restarted(c) == Rests(shutter[c], shutter'[c]) /\ lag' = 0

\* Telegrams and passes.
LEMMA TelegramCourse ==
  ASSUME IInv, NEW c \in Channel,
         \/ CyclicPass
         \/ SendPass
         \/ RadioLoop
         \/ \E fn \in Fns, to \in SUBSET Channel \ {{}} : JaroCmd(fn, to) \/ RemotePress(fn, to)
  PROVE  Handled(c) \/ Passed(c)
<1>0. ChannelsGood /\ AirGood /\ QueueType /\ RestType
  BY IInvParts DEF AllGood
<1>1. Good(shutter[c], Followed(c)) /\ Course(shutter[c], shutter[c], now)
  BY <1>0, SameCourse DEF ChannelsGood
<1>2. ASSUME NEW cmd \in Command
      PROVE  Course(shutter[c], AllNotified(cmd)[c], now)
  <2>1. cmd.fn \in Moves \cup {"STOP", "SHADE", "OTHER"}
    BY DEF Command
  <2>2. CASE c \in cmd.to
    <3>1. AllNotified(cmd)[c] = Notified(shutter[c], cmd.fn, now)
      BY <2>2 DEF AllNotified
    <3> QED BY <1>0, <1>1, <2>1, <3>1, NotifiedCourse DEF RestType
  <2>3. CASE c \notin cmd.to
    BY <1>1, <2>3 DEF AllNotified
  <2> QED BY <2>2, <2>3
<1>3. CASE CyclicPass
  <2>1. shutter'[c] = CyclicChannel(shutter[c], now, online) /\ now' = now /\ lag' = 0
    BY <1>3 DEF CyclicPass, PassBegins, Swept
  <2> QED BY <1>1, <2>1 DEF Passed
<1>4. CASE SendPass
  <2> DEFINE cmd == Head(jaroCmdQueue)
  <2>1. cmd \in Command /\ shutter' = Swept(AllNotified(cmd)) /\ now' = now /\ lag' = 0
    BY <1>0, <1>4 DEF SendPass, PassBegins, QueueType
  <2> HIDE DEF cmd
  <2>2. shutter'[c] = CyclicChannel(AllNotified(cmd)[c], now, online)
    BY <2>1 DEF Swept
  <2>3. Good(AllNotified(cmd)[c], After(cmd, c))
    BY <1>0, <2>1, AllNotifiedGood
  <2> QED BY <1>2, <2>1, <2>2, <2>3 DEF Passed
<1>5. ASSUME NEW fn \in Fns, NEW to \in SUBSET Channel \ {{}}, JaroCmd(fn, to)
      PROVE  Handled(c)
  BY <1>1, <1>5 DEF JaroCmd, Untimed, Handled
<1>6. ASSUME NEW fn \in Fns, NEW to \in SUBSET Channel \ {{}}, RemotePress(fn, to)
      PROVE  Handled(c)
  BY <1>1, <1>6 DEF RemotePress, Untimed, Handled
<1>7. CASE RadioLoop
  <2>1. Course(shutter[c], shutter'[c], now)
    <3>1. CASE UNCHANGED shutter
      BY <1>1, <3>1
    <3>2. CASE ~UNCHANGED shutter
      <4>1. PICK cmd \in Command : shutter' = AllNotified(cmd)
        BY <1>0, <1>7, <3>2, TakenFrame
      <4> QED BY <1>2, <4>1
    <3> QED BY <3>1, <3>2
  <2> QED BY <1>7, <2>1 DEF RadioLoop, Handled
<1> QED BY <1>3, <1>4, <1>5, <1>6, <1>7

\* Every step, under uploads that find their channel at rest.
LEMMA EveryCourse ==
  ASSUME IInv, [Next]_vars, UploadsAtRest \/ UNCHANGED vars, NEW c \in Channel
  PROVE  Handled(c) \/ Passed(c) \/ Ticked \/ Restarted(c)
<1>0. ChannelsGood /\ RestType /\ Good(shutter[c], Followed(c))
  BY IInvParts DEF AllGood, ChannelsGood
<1>1. CASE UNCHANGED vars
  BY <1>0, <1>1, SameCourse DEF vars, Handled
<1>2. ASSUME NEW d \in Channel, NEW pct \in Position, SetTarget(d, pct)
      PROVE  Handled(c)
  BY <1>2, SetTargetCourse DEF SetTarget, Untimed, Handled
<1>3. ASSUME NEW d \in Channel, NEW down \in BOOLEAN, CalibStart(d, down)
      PROVE  Handled(c)
  BY <1>3, CalibrationCourse DEF CalibStart, Untimed, Handled
<1>4. ASSUME NEW d \in Channel, CalibFinish(d) \/ CalibAbort(d)
      PROVE  Handled(c)
  BY <1>4, CalibrationCourse DEF CalibFinish, CalibAbort, Untimed, Handled
<1>5. ASSUME NEW d \in Channel, NEW t \in Uploads, ConfigUpload(d, t), UploadsAtRest
      PROVE  Handled(c)
  BY <1>5, CalibrationCourse DEF ConfigUpload, Untimed, Handled
<1>6. CASE SessionLost \/ SessionUp
  <2>1. UNCHANGED <<shutter, now, lag>>
    BY <1>6 DEF SessionLost, SessionUp
  <2> QED BY <1>0, <2>1, SameCourse DEF Handled
<1>7. CASE Tick
  BY <1>7 DEF Tick, Ticked
<1>8. CASE Restart
  <2>1. shutter'[c] = PowerUp(shutter[c]) /\ lag' = 0
    BY <1>8 DEF Restart
  <2>2. Resting(PowerUp(shutter[c])) /\ TravelSame(shutter[c], PowerUp(shutter[c]))
    BY <1>0 DEF PowerUp, Resting, TravelSame, Good, ChannelState
  <2> QED BY <2>1, <2>2 DEF Restarted, Rests, Fits, TravelSame
<1> QED BY <1>1, <1>2, <1>3, <1>4, <1>5, <1>6, <1>7, <1>8, TelegramCourse DEF Next

-----------------------------------------------------------------------------
(* Deadlines.                                                              *)

Timed(s) == s.stopAtMs # 0 => Elapsed(s.startMs, s.stopAtMs) <= TravelTime(s, s.goingDown)

\* A deadline within one travel stays so on every course.
LEMMA TimedCourse ==
  ASSUME NEW s \in ChannelState, NEW r, NEW t, Timed(s), Course(s, r, t)
  PROVE  Timed(r)
<1>1. \A down : TravelTime(r, down) = TravelTime(s, down)
  BY TravelTimeSame DEF Course
<1>2. CASE Resting(r) \/ Unplaced(r)
  BY <1>2 DEF Resting, Unplaced, Timed
<1>3. CASE GoesOn(s, r)
  BY <1>1, <1>3 DEF GoesOn, Timed
<1>4. CASE Begins(s, r, t)
  BY <1>1, <1>4 DEF Begins, Timed
<1> QED BY <1>2, <1>3, <1>4 DEF Course

\* A pass over the loop keeps a deadline, or clears it.
LEMMA TimedCyclic ==
  ASSUME NEW r, NEW m, Good(r, m), NEW t \in Time, NEW up \in BOOLEAN, Timed(r)
  PROVE  Timed(CyclicChannel(r, t, up))
  BY CyclicCourse DEF Resting, Timed

TimedStops == \A c \in Channel : Timed(shutter[c])

\* Every step keeps the deadlines within one travel.
LEMMA TimedStep ==
  ASSUME IInv, TimedStops, [Next]_vars, [UploadsAtRest]_vars
  PROVE  TimedStops'
<1> SUFFICES ASSUME NEW c \in Channel PROVE Timed(shutter'[c])
  BY DEF TimedStops
<1>1. shutter[c] \in ChannelState /\ Timed(shutter[c]) /\ now \in Time /\ online \in BOOLEAN
  BY IInvParts DEF AllGood, ChannelsGood, RestType, TimedStops
<1>2. CASE Handled(c)
  BY <1>1, <1>2, TimedCourse DEF Handled, Rests, Resting, Timed
<1>3. CASE Passed(c)
  <2>1. PICK r, m : /\ Good(r, m) /\ Course(shutter[c], r, now)
                    /\ shutter'[c] = CyclicChannel(r, now, online)
    BY <1>3 DEF Passed
  <2> QED BY <1>1, <2>1, TimedCourse, TimedCyclic
<1>4. CASE Ticked
  BY <1>1, <1>4 DEF Ticked
<1>5. CASE Restarted(c)
  BY <1>5 DEF Restarted, Rests, Resting, Timed
<1> QED BY <1>2, <1>3, <1>4, <1>5, EveryCourse

\* A channel after shutterPosSetup rests.
LEMMA InitRests ==
  ASSUME Init, NEW c \in Channel
  PROVE  Resting(shutter[c]) /\ Fits(shutter[c])
<1>1. PICK t \in [Channel -> TravelTimes] :
        shutter = [d \in Channel |-> PowerUp(Unpowered(t[d]))]
  BY DEF Init
<1>2. shutter[c] = PowerUp(Unpowered(t[c])) /\ t[c] \in TravelTimes
  BY <1>1
<1> QED BY <1>2 DEF PowerUp, Unpowered, Resting, Fits, Durations

\* No timed stop lies further ahead than one full travel, for every number of
\* channels, clock width and lag of the loop, when uploads find their channel at
\* rest (shutterPosSetTarget and startMovement).
THEOREM StopsInTime == Spec /\ [][UploadsAtRest]_vars => []StopWithinOneTravel
<1>1. Init => TimedStops
  BY InitRests DEF TimedStops, Resting, Timed
<1>2. IInv /\ TimedStops /\ [Next]_vars /\ [UploadsAtRest]_vars => TimedStops'
  BY TimedStep
<1>3. TimedStops => StopWithinOneTravel
  BY DEF TimedStops, Timed, StopWithinOneTravel
<1> QED BY <1>1, <1>2, <1>3, InvariantHolds, PTL DEF Spec
=============================================================================

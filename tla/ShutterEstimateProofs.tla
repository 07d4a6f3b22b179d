------------------------ MODULE ShutterEstimateProofs ------------------------
(***************************************************************************)
(* The estimated position: it follows the direction of travel, and it is   *)
(* no further from the shutter than the latency of the loop explains.      *)
(*                                                                         *)
(* The first needs RunInv: every movement is timed within its travel and   *)
(* no more overdue than the lag of the loop.  The second needs, beside it, *)
(* what tracker, motor and curtain of a channel say of each other: Placed  *)
(* and Near, which every operation of the tracker is shown to keep, with   *)
(* the estimate unchanged, but for the pass that settles a timed stop.     *)
(***************************************************************************)
EXTENDS ShutterPosProofs, ShutterWorld

-----------------------------------------------------------------------------
(* The estimate.  It follows the direction of travel as long as no movement *)
(* is still believed in when the clock has gone once around; what prevents  *)
(* that is the sweep, which ends every movement at its deadline or at the   *)
(* end of its travel, never later than the lag of the loop.                 *)

\* How long the movement of a channel lasts.
Lasting(s) ==
  IF s.stopAtMs # 0 THEN Elapsed(s.startMs, s.stopAtMs) ELSE TravelTime(s, s.goingDown)

\* At time t, l after the last pass, the movement is no more than l overdue.
Punctual(s, t, l) ==
  s.moving /\ s.posAtStart # UNKNOWN =>
    TravelTime(s, s.goingDown) # 0 /\ Elapsed(s.startMs, t) <= Lasting(s) + l

\* The movement of a well typed channel lasts a number of ticks.
LEMMA LastingType ==
  ASSUME NEW s \in ChannelState
  PROVE  Lasting(s) \in Nat /\ (Timed(s) => Lasting(s) <= TravelTime(s, s.goingDown))
<1>1. TravelTime(s, s.goingDown) \in Nat
  BY TravelTimeType DEF ChannelState
<1>2. Elapsed(s.startMs, s.stopAtMs) \in Nat
  BY ElapsedType DEF ChannelState, Time
<1> QED BY <1>1, <1>2 DEF Lasting, Timed

\* Every course keeps a movement punctual.
LEMMA PunctualCourse ==
  ASSUME NEW s, NEW m, Good(s, m), NEW r, r \in ChannelState, NEW t \in Time, NEW l \in Nat,
         Timed(s), Punctual(s, t, l), Course(s, r, t)
  PROVE  Punctual(r, t, l)
<1>0. s \in ChannelState
  BY DEF Good
<1>1. \A down : TravelTime(r, down) = TravelTime(s, down)
  BY TravelTimeSame DEF Course
<1>2. CASE Resting(r) \/ Unplaced(r)
  BY <1>2 DEF Resting, Unplaced, Punctual
<1>3. CASE GoesOn(s, r)
  <2>1. Lasting(s) <= Lasting(r)
    <3>1. CASE r.stopAtMs = s.stopAtMs
      <4>1. Lasting(s) = Lasting(r)
        BY <1>1, <1>3, <3>1 DEF Lasting, GoesOn
      <4> QED BY <1>0, <4>1, LastingType
    <3>2. CASE r.stopAtMs = 0
      <4>1. Lasting(r) = TravelTime(s, s.goingDown)
        BY <1>1, <1>3, <3>2 DEF Lasting, GoesOn
      <4> QED BY <1>0, <4>1, LastingType
    <3> QED BY <1>3, <3>1, <3>2 DEF GoesOn
  <2>2. Elapsed(s.startMs, t) \in Nat
    BY <1>0, ElapsedType DEF ChannelState, Time
  <2>3. Lasting(s) \in Nat /\ Lasting(r) \in Nat
    BY <1>0, LastingType
  <2> QED BY <1>1, <1>3, <2>1, <2>2, <2>3 DEF GoesOn, Punctual
<1>4. CASE Begins(s, r, t)
  <2> SUFFICES ASSUME r.posAtStart # UNKNOWN
               PROVE  TravelTime(r, r.goingDown) # 0 /\ Elapsed(r.startMs, t) <= Lasting(r) + l
    BY DEF Punctual
  <2>1. s.moving => s.posAtStart # UNKNOWN
    BY <1>0, <1>4, BankType DEF Begins, Good, ChannelConsistent
  <2>2. TravelTime(r, r.goingDown) # 0
    BY <1>1, <1>4, <2>1 DEF Begins, Punctual
  <2>3. Elapsed(r.startMs, t) = 0
    BY <1>4, WrapAssumption DEF Begins, Elapsed, Time
  <2>4. Lasting(r) \in Nat
    BY LastingType
  <2> QED BY <2>2, <2>3, <2>4
<1> QED BY <1>2, <1>3, <1>4 DEF Course

\* Travel times of a channel that fits leave room on the clock for the lag.
LEMMA TravelFits ==
  ASSUME ClockOutlastsTravel, NEW s \in ChannelState, Fits(s), NEW down \in BOOLEAN
  PROVE  TravelTime(s, down) + MaxLag < Wrap
  BY DEF ClockOutlastsTravel, TravelTime, Fits

\* The way covered grows with the clock.
LEMMA MovedMono ==
  ASSUME NEW s \in ChannelState, NEW t \in Time, NEW u \in Time,
         TravelTime(s, s.goingDown) # 0,
         Elapsed(s.startMs, t) <= Elapsed(s.startMs, u)
  PROVE  Moved(s, t) <= Moved(s, u)
<1>1. PICK d \in Nat \ {0} : d = TravelTime(s, s.goingDown)
  BY TravelTimeType DEF ChannelState
<1>2. PICK e \in Nat : e = Elapsed(s.startMs, t)
  BY ElapsedType DEF ChannelState, Time
<1>3. PICK f \in Nat : f = Elapsed(s.startMs, u)
  BY ElapsedType DEF ChannelState, Time
<1>4. e * Full \in Nat /\ f * Full \in Nat /\ e * Full <= f * Full
  BY <1>2, <1>3, FullAssumption
<1>5. /\ (e * Full) \div d \in Nat /\ (f * Full) \div d \in Nat
      /\ (e * Full) \div d <= (f * Full) \div d
  BY <1>4, DivMono
<1> QED BY <1>1, <1>2, <1>3, <1>5, FullAssumption DEF Moved

\* It is the whole travel only when the travel time is over.
LEMMA MovedWhole ==
  ASSUME NEW s \in ChannelState, NEW t \in Time,
         TravelTime(s, s.goingDown) # 0, Moved(s, t) < Full
  PROVE  Elapsed(s.startMs, t) < TravelTime(s, s.goingDown)
<1>1. PICK d \in Nat \ {0} : d = TravelTime(s, s.goingDown)
  BY TravelTimeType DEF ChannelState
<1>2. PICK e \in Nat : e = Elapsed(s.startMs, t)
  BY ElapsedType DEF ChannelState, Time
<1>3. ASSUME e >= d PROVE FALSE
  <2>1. e * Full \in Nat /\ d * Full \in Nat /\ d * Full <= e * Full
    BY <1>2, <1>3, FullAssumption
  <2>2. (d * Full) \div d = Full
    BY FullAssumption, DivExact
  <2>3. Full <= (e * Full) \div d /\ (e * Full) \div d \in Nat
    BY <2>1, <2>2, DivMono
  <2> QED BY <1>1, <1>2, <2>3, FullAssumption DEF Moved
<1> QED BY <1>1, <1>2, <1>3

\* The difference of two readings, without the remainder.
LEMMA ElapsedCases ==
  ASSUME NEW a \in Time, NEW b \in Time
  PROVE  Elapsed(a, b) = IF b >= a THEN b - a ELSE b - a + Wrap
<1>1. CASE b >= a
  BY <1>1, WrapAssumption DEF Elapsed, Time
<1>2. CASE b < a
  <2>1. b - a + Wrap \in 0 .. Wrap - 1
    BY <1>2, WrapAssumption DEF Time
  <2> QED BY <1>2, <2>1, WrapAssumption DEF Elapsed, Time
<1> QED BY <1>1, <1>2 DEF Time

\* A deadline that lies back in the run was passed by the difference.
LEMMA Overdue ==
  ASSUME NEW a \in Time, NEW b \in Time, NEW t \in Time, Elapsed(a, b) <= Elapsed(a, t)
  PROVE  Elapsed(b, t) = Elapsed(a, t) - Elapsed(a, b)
  BY ElapsedCases, WrapAssumption DEF Time

\* A tick adds one, until the clock has gone once around.
LEMMA ElapsedTick ==
  ASSUME NEW a \in Time, NEW t \in Time, Elapsed(a, t) + 1 < Wrap
  PROVE  Elapsed(a, (t + 1) % Wrap) = Elapsed(a, t) + 1
<1>1. CASE t = Wrap - 1
  <2>1. (t + 1) % Wrap = 0 /\ 0 \in Time
    BY <1>1, WrapAssumption DEF Time
  <2>2. Elapsed(a, t) = t - a /\ a > 0
    BY <1>1, ElapsedCases, WrapAssumption DEF Time
  <2>3. Elapsed(a, 0) = 0 - a + Wrap
    BY <2>1, <2>2, ElapsedCases, WrapAssumption DEF Time
  <2> QED BY <1>1, <2>1, <2>2, <2>3, WrapAssumption DEF Time
<1>2. CASE t # Wrap - 1
  <2>1. (t + 1) % Wrap = t + 1 /\ t + 1 \in Time
    BY <1>2, WrapAssumption DEF Time
  <2>2. t + 1 = a => Elapsed(a, t) = Wrap - 1
    BY ElapsedCases, WrapAssumption DEF Time
  <2>3. t + 1 # a
    BY <2>2, WrapAssumption
  <2>4. PICK u \in Time : u = t + 1 /\ Elapsed(a, u) = IF u >= a THEN u - a ELSE u - a + Wrap
    BY <2>1, ElapsedCases, Zenon
  <2>5. Elapsed(a, t) = IF t >= a THEN t - a ELSE t - a + Wrap
    BY ElapsedCases
  <2>6. a \in Int /\ t \in Int /\ Wrap \in Int
    BY WrapAssumption DEF Time
  <2> QED BY <2>1, <2>3, <2>4, <2>5, <2>6
<1> QED BY <1>1, <1>2

\* A pass ends every movement that is due; the others are in time.
LEMMA PunctualCyclic ==
  ASSUME ClockOutlastsTravel, NEW r, NEW m, Good(r, m), NEW t \in Time, NEW up \in BOOLEAN,
         NEW l \in Nat, l <= MaxLag, Punctual(r, t, l)
  PROVE  Punctual(CyclicChannel(r, t, up), t, 0)
<1>0. r \in ChannelState
  BY DEF Good
<1>1. CASE Resting(CyclicChannel(r, t, up))
  BY <1>1 DEF Resting, Punctual
<1>2. CASE CyclicChannel(r, t, up) = r /\ ~StopDue(r, t) /\ ~EndReached(r, t)
  <2> SUFFICES ASSUME r.moving, r.posAtStart # UNKNOWN
               PROVE  /\ TravelTime(r, r.goingDown) # 0
                      /\ Elapsed(r.startMs, t) <= Lasting(r) + 0
    BY <1>2 DEF Punctual
  <2>1. TravelTime(r, r.goingDown) # 0 /\ Elapsed(r.startMs, t) <= Lasting(r) + l
    BY DEF Punctual
  <2>2. ~r.active
    BY DEF Good, ChannelConsistent
  <2>3. Lasting(r) \in Nat /\ r.startMs \in Time /\ r.stopAtMs \in Time
    BY <1>0, LastingType DEF ChannelState
  <2>4. Elapsed(r.startMs, t) \in Nat
    BY <1>0, ElapsedType DEF ChannelState, Time
  <2>5. CASE r.stopAtMs # 0
    <3>1. Lasting(r) = Elapsed(r.startMs, r.stopAtMs)
      BY <2>5 DEF Lasting
    <3>2. ~(2 * Elapsed(r.stopAtMs, t) < Wrap)
      BY <1>2, <2>2, <2>5 DEF StopDue, DeadlinePassed
    <3>3. ASSUME Lasting(r) <= Elapsed(r.startMs, t) PROVE FALSE
      <4>1. Elapsed(r.stopAtMs, t) = Elapsed(r.startMs, t) - Lasting(r)
        BY <2>3, <3>1, <3>3, Overdue
      <4> QED BY <2>1, <2>3, <2>4, <3>2, <4>1, WrapAssumption DEF ClockOutlastsTravel
    <3> QED BY <2>1, <2>3, <2>4, <3>3
  <2>6. CASE r.stopAtMs = 0
    <3>1. Lasting(r) = TravelTime(r, r.goingDown)
      BY <2>6 DEF Lasting
    <3>2. Moved(r, t) \in 0 .. Full
      BY <1>0, <2>1, MovedRange
    <3>3. r.posAtStart \in Position
      BY <1>0 DEF ChannelState
    <3>4. PICK k \in 0 .. Full : k = Moved(r, t)
      BY <3>2
    <3>5. k # Full
      <4>1. CASE r.goingDown
        <5>1. ~(EstimatePos(r, t) <= 0)
          BY <1>2, <2>2, <2>6, <4>1 DEF EndReached
        <5>2. EstimatePos(r, t) = LET p == r.posAtStart - k IN
                                    IF p < 0 THEN 0 ELSE IF p > Full THEN Full ELSE p
          BY <2>1, <3>4, <4>1 DEF EstimatePos
        <5> QED BY <3>3, <5>1, <5>2, FullAssumption DEF Position
      <4>2. CASE ~r.goingDown
        <5>1. ~(EstimatePos(r, t) >= Full)
          BY <1>2, <2>2, <2>6, <4>2 DEF EndReached
        <5>2. EstimatePos(r, t) = LET p == r.posAtStart + k IN
                                    IF p < 0 THEN 0 ELSE IF p > Full THEN Full ELSE p
          BY <2>1, <3>4, <4>2 DEF EstimatePos
        <5> QED BY <3>3, <5>1, <5>2, FullAssumption DEF Position
      <4> QED BY <4>1, <4>2
    <3>6. Elapsed(r.startMs, t) < TravelTime(r, r.goingDown)
      BY <1>0, <2>1, <3>4, <3>5, MovedWhole, FullAssumption
    <3> QED BY <2>1, <2>3, <2>4, <3>1, <3>6
  <2> QED BY <2>5, <2>6
<1> QED BY <1>1, <1>2, CyclicCourse

\* A tick makes a movement one tick older, and the clock does not go around.
LEMMA PunctualTick ==
  ASSUME ClockOutlastsTravel, NEW s \in ChannelState, NEW t \in Time, NEW l \in Nat,
         l < MaxLag, Timed(s), Fits(s), Punctual(s, t, l), s.moving, s.posAtStart # UNKNOWN
  PROVE  /\ Elapsed(s.startMs, (t + 1) % Wrap) = Elapsed(s.startMs, t) + 1
         /\ Punctual(s, (t + 1) % Wrap, l + 1)
<1>1. TravelTime(s, s.goingDown) # 0 /\ Elapsed(s.startMs, t) <= Lasting(s) + l
  BY DEF Punctual
<1>2. /\ Lasting(s) \in Nat /\ Lasting(s) <= TravelTime(s, s.goingDown)
      /\ TravelTime(s, s.goingDown) \in Nat /\ s.startMs \in Time
  BY LastingType, TravelTimeType DEF ChannelState
<1>3. Elapsed(s.startMs, t) \in Nat
  BY <1>2, ElapsedType DEF Time
<1>4. TravelTime(s, s.goingDown) + MaxLag < Wrap /\ MaxLag \in Nat
  BY TravelFits DEF ClockOutlastsTravel, ChannelState
<1>5. Elapsed(s.startMs, t) + 1 < Wrap
  BY <1>1, <1>2, <1>3, <1>4, WrapAssumption
<1>6. Elapsed(s.startMs, (t + 1) % Wrap) = Elapsed(s.startMs, t) + 1
  BY <1>2, <1>5, ElapsedTick
<1> QED BY <1>1, <1>2, <1>3, <1>6 DEF Punctual

\* Runs are timed, in time and of a travel time the clock has room for.
RunInv ==
  /\ lag <= MaxLag
  /\ \A c \in Channel :
       LET s == shutter[c] IN Timed(s) /\ Punctual(s, now, lag) /\ Fits(s)

\* The same travel times fit.
LEMMA FitsCourse ==
  ASSUME NEW s, NEW r, Fits(s), TravelSame(s, r)
  PROVE  Fits(r)
  BY DEF Fits, TravelSame

\* RunInv is inductive.
LEMMA RunStep ==
  ASSUME ClockOutlastsTravel, IInv, RunInv, [Next]_vars, [UploadsAtRest]_vars
  PROVE  RunInv'
<1>0. now \in Time /\ online \in BOOLEAN /\ lag \in Nat /\ lag <= MaxLag /\ MaxLag \in Nat
  BY IInvParts DEF AllGood, RestType, RunInv, ClockOutlastsTravel
<1>1. IInv'
  BY NextIInv
<1>2. ASSUME NEW c \in Channel
      PROVE  /\ Timed(shutter'[c]) /\ Punctual(shutter'[c], now', lag') /\ Fits(shutter'[c])
             /\ lag' <= MaxLag
  <2> DEFINE s == shutter[c]
             q == shutter'[c]
  <2>1. /\ Good(s, Followed(c)) /\ s \in ChannelState
        /\ Timed(s) /\ Punctual(s, now, lag) /\ Fits(s)
    BY IInvParts DEF AllGood, ChannelsGood, Good, RunInv
  <2>2. q \in ChannelState
    BY <1>1 DEF IInv, TypeOK
  <2>3. Timed(q)
    <3>1. TimedStops'
      BY TimedStep DEF RunInv, TimedStops
    <3> QED BY <3>1 DEF TimedStops
  <2> HIDE DEF s, q
  <2>4. CASE Handled(c)
    <3>1. CASE Course(s, q, now)
      <4>1. Punctual(q, now, lag)
        BY <1>0, <2>1, <2>2, <3>1, PunctualCourse
      <4>2. Fits(q)
        BY <2>1, <3>1, FitsCourse DEF Course
      <4> QED BY <1>0, <2>3, <2>4, <4>1, <4>2 DEF Handled, q
    <3>2. CASE Rests(s, q)
      BY <1>0, <2>1, <2>3, <2>4, <3>2 DEF Handled, Rests, Resting, Punctual, q
    <3> QED BY <2>4, <3>1, <3>2 DEF Handled, s, q
  <2>5. CASE Passed(c)
    <3>1. PICK r, m : /\ Good(r, m) /\ Course(s, r, now)
                      /\ q = CyclicChannel(r, now, online)
                      /\ now' = now /\ lag' = 0
      BY <2>5 DEF Passed, s, q
    <3>2. Punctual(r, now, lag) /\ Fits(r)
      BY <1>0, <2>1, <3>1, PunctualCourse, FitsCourse DEF Good, Course
    <3>3. Punctual(q, now, 0)
      BY <1>0, <3>1, <3>2, PunctualCyclic
    <3>4. Fits(q)
      BY <1>0, <3>1, <3>2, CyclicCourse, FitsCourse
    <3> QED BY <1>0, <2>3, <3>1, <3>3, <3>4 DEF q
  <2>6. CASE Ticked
    <3>1. q = s /\ now' = (now + 1) % Wrap /\ lag' = lag + 1 /\ lag < MaxLag
      BY <2>6 DEF Ticked, s, q
    <3>2. Punctual(s, (now + 1) % Wrap, lag + 1)
      BY <1>0, <2>1, <3>1, PunctualTick DEF Punctual
    <3> QED BY <1>0, <2>1, <2>3, <3>1, <3>2 DEF q
  <2>7. CASE Restarted(c)
    BY <1>0, <2>1, <2>3, <2>7 DEF Restarted, Rests, Resting, Punctual, s, q
  <2> QED BY <2>4, <2>5, <2>6, <2>7, EveryCourse
<1>3. lag' <= MaxLag
  <2>1. lag' = lag \/ lag' = 0 \/ (lag' = lag + 1 /\ lag < MaxLag)
    BY Zenon DEF Next, vars, CyclicPass, SendPass, PassBegins, RadioLoop, Tick, JaroCmd, RemotePress, SetTarget,
       CalibStart, CalibFinish, CalibAbort, ConfigUpload, Restart, SessionLost, SessionUp,
       Untimed
  <2> QED BY <1>0, <2>1
<1> QED BY <1>2, <1>3 DEF RunInv

\* Whatever a handler does to a movement that goes on, its estimate stays.
LEMMA EstimateCourse ==
  ASSUME NEW s, NEW m, Good(s, m), NEW r, NEW n, Good(r, n), NEW t \in Time, NEW l,
         Punctual(s, t, l), Course(s, r, t),
         s.moving, r.moving, s.goingDown = r.goingDown,
         s.posAtStart # UNKNOWN, r.posAtStart # UNKNOWN
  PROVE  EstimatePos(r, t) = EstimatePos(s, t)
<1>0. s \in ChannelState /\ r \in ChannelState
  BY DEF Good
<1>1. /\ TravelTime(s, s.goingDown) # 0
      /\ TravelTime(r, r.goingDown) = TravelTime(s, s.goingDown)
  BY TravelTimeSame DEF Punctual, Course
<1>2. CASE GoesOn(s, r)
  <2>1. Moved(r, t) = Moved(s, t)
    BY <1>1, <1>2 DEF Moved, GoesOn
  <2> QED BY <1>1, <1>2, <2>1 DEF EstimatePos, GoesOn
<1>3. CASE Begins(s, r, t)
  <2>1. r.posAtStart = EstimatePos(s, t)
    BY <1>0, <1>3 DEF Begins, Bank, ChannelState
  <2>2. r.posAtStart \in Position
    BY <1>0 DEF ChannelState
  <2>3. Moved(r, t) = 0
    <3>1. Elapsed(r.startMs, t) = 0
      BY <1>3, WrapAssumption DEF Begins, Elapsed, Time
    <3>2. TravelTime(r, r.goingDown) \in Nat \ {0}
      BY <1>0, <1>1, TravelTimeType DEF ChannelState
    <3>3. 0 * Full = 0 /\ 0 \div TravelTime(r, r.goingDown) = 0
      BY <3>2, FullAssumption
    <3> QED BY <3>1, <3>3, FullAssumption DEF Moved
  <2> QED BY <1>1, <2>1, <2>2, <2>3, FullAssumption DEF EstimatePos, Position
<1> QED BY <1>2, <1>3 DEF Course, Resting, Unplaced

\* A tick moves the estimate in the direction of travel, or not at all.
LEMMA EstimateTick ==
  ASSUME NEW s \in ChannelState, NEW t \in Time, NEW u \in Time,
         s.posAtStart # UNKNOWN, TravelTime(s, s.goingDown) # 0, s.moving,
         Elapsed(s.startMs, t) <= Elapsed(s.startMs, u)
  PROVE  IF s.goingDown THEN EstimatePos(s, u) <= EstimatePos(s, t)
                        ELSE EstimatePos(s, u) >= EstimatePos(s, t)
<1>1. Moved(s, t) <= Moved(s, u)
  BY MovedMono
<1>2. Moved(s, t) \in 0 .. Full /\ Moved(s, u) \in 0 .. Full
  BY MovedRange
<1>3. s.posAtStart \in Position
  BY DEF ChannelState
<1> QED BY <1>1, <1>2, <1>3, FullAssumption DEF EstimatePos, Position

\* What EstimateFollowsDirection says of one channel.
Follows(c) == LET s == shutter[c] t == shutter'[c] IN
  s.moving /\ t.moving /\ s.goingDown = t.goingDown /\ s.pos # UNKNOWN /\ t.pos # UNKNOWN
    => IF s.goingDown THEN EstimatePos(t, now') <= EstimatePos(s, now)
                      ELSE EstimatePos(t, now') >= EstimatePos(s, now)

\* Every step lets the estimate follow the direction of travel.
LEMMA FollowsStep ==
  ASSUME ClockOutlastsTravel, IInv, RunInv, [Next]_vars, [UploadsAtRest]_vars,
         NEW c \in Channel
  PROVE  Follows(c)
<1> DEFINE s == shutter[c]
           q == shutter'[c]
<1> SUFFICES ASSUME s.moving, q.moving, s.goingDown = q.goingDown,
                    s.pos # UNKNOWN, q.pos # UNKNOWN
             PROVE  IF s.goingDown THEN EstimatePos(q, now') <= EstimatePos(s, now)
                                   ELSE EstimatePos(q, now') >= EstimatePos(s, now)
  BY DEF Follows
<1>0. now \in Time /\ online \in BOOLEAN /\ lag \in Nat
  BY IInvParts DEF AllGood, RestType
<1>1. /\ Good(s, Followed(c)) /\ s \in ChannelState
      /\ Timed(s) /\ Punctual(s, now, lag) /\ Fits(s)
  BY IInvParts DEF AllGood, ChannelsGood, Good, RunInv
<1>2. Good(q, Followed(c)')
  BY NextIInv DEF IInv, TypeOK, Consistent, Good, Followed, Drives
<1> HIDE DEF s, q
<1>3. s.posAtStart # UNKNOWN /\ q.posAtStart # UNKNOWN /\ TravelTime(s, s.goingDown) # 0
  BY <1>1, <1>2 DEF Good, ChannelConsistent, Punctual
<1>4. EstimatePos(s, now) \in Int
  BY <1>0, <1>1, EstimateType, FullAssumption DEF Position, UNKNOWN
<1>5. ASSUME NEW r, NEW n, Good(r, n), Course(s, r, now), q = r, now' = now
      PROVE  EstimatePos(q, now') = EstimatePos(s, now)
  BY <1>0, <1>1, <1>3, <1>5, EstimateCourse
<1>6. CASE Handled(c)
  <2>1. Course(s, q, now) /\ now' = now
    BY <1>6 DEF Handled, Rests, Resting, s, q
  <2> QED BY <1>2, <1>4, <1>5, <2>1
<1>7. CASE Passed(c)
  <2>1. PICK r, n : /\ Good(r, n) /\ Course(s, r, now)
                    /\ q = CyclicChannel(r, now, online) /\ now' = now
    BY <1>7 DEF Passed, s, q
  <2>2. q = r
    BY <1>0, <2>1, CyclicCourse DEF Resting
  <2> QED BY <1>4, <1>5, <2>1, <2>2
<1>8. CASE Ticked
  <2>1. q = s /\ now' = (now + 1) % Wrap /\ lag < MaxLag
    BY <1>8 DEF Ticked, s, q
  <2>2. Elapsed(s.startMs, (now + 1) % Wrap) = Elapsed(s.startMs, now) + 1
    BY <1>0, <1>1, <1>3, <2>1, PunctualTick
  <2>3. (now + 1) % Wrap \in Time
    BY <1>0, WrapAssumption DEF Time
  <2>4. Elapsed(s.startMs, now) <= Elapsed(s.startMs, (now + 1) % Wrap)
    <3>1. Elapsed(s.startMs, now) \in Int
      BY <1>0, <1>1, ElapsedType DEF ChannelState, Time
    <3> QED BY <2>2, <3>1
  <2> QED BY <1>0, <1>1, <1>3, <2>1, <2>3, <2>4, EstimateTick
<1>9. CASE Restarted(c)
  BY <1>9 DEF Restarted, Rests, Resting, q
<1> QED BY <1>6, <1>7, <1>8, <1>9, EveryCourse

\* RunInv holds throughout.
LEMMA RunHolds ==
  ASSUME ClockOutlastsTravel
  PROVE  Spec /\ [][UploadsAtRest]_vars => []RunInv
<1>1. Init => RunInv
  <2> SUFFICES ASSUME Init PROVE RunInv
    OBVIOUS
  <2>1. lag = 0 /\ lag <= MaxLag
    BY DEF Init, ClockOutlastsTravel
  <2> QED BY <2>1, InitRests DEF RunInv, Resting, Timed, Punctual
<1>2. IInv /\ RunInv /\ [Next]_vars /\ [UploadsAtRest]_vars => RunInv'
  BY RunStep
<1> QED BY <1>1, <1>2, InvariantHolds, PTL DEF Spec

\* The reported estimate never moves against the direction of travel, wherever
\* millis() wraps and whatever is retargeted, banked or settled, when the clock
\* outlasts every travel and uploads find their channel at rest.
THEOREM EstimateFollows ==
  ASSUME ClockOutlastsTravel
  PROVE  Spec /\ [][UploadsAtRest]_vars => EstimateFollowsDirection
<1>1. IInv /\ RunInv /\ [Next]_vars /\ [UploadsAtRest]_vars => \A c \in Channel : Follows(c)
  BY FollowsStep
<1>2. (\A c \in Channel : Follows(c)) =>
        [\A c \in Channel : LET s == shutter[c] t == shutter'[c] IN
           s.moving /\ t.moving /\ s.goingDown = t.goingDown /\ s.pos # UNKNOWN /\ t.pos # UNKNOWN
             => IF s.goingDown THEN EstimatePos(t, now') <= EstimatePos(s, now)
                               ELSE EstimatePos(t, now') >= EstimatePos(s, now)]_vars
  BY DEF Follows
<1> QED BY <1>1, <1>2, RunHolds, InvariantHolds, PTL DEF Spec, EstimateFollowsDirection

-----------------------------------------------------------------------------
(* The tracker beside the shutters.  How far the estimate is from the       *)
(* curtain is an invariant of one channel at a time: no handler changes the *)
(* estimate but the pass that settles a timed stop, by what the loop is     *)
(* late; and a tick moves curtain and estimate alike.                       *)

\* A motor that still runs below a channel at rest runs to where it is held to be.
EndInSight(s, m) ==
  ~s.moving /\ s.pos # UNKNOWN => (m = "DOWN" => s.pos = 0) /\ (m = "UP" => s.pos = Full)

\* A run from an unknown start is found at its end, but for k, when its travel time
\* is over.
Left(s, p) == IF s.goingDown THEN p ELSE Full - p
Found(s, p, t, k) ==
  s.moving /\ s.posAtStart = UNKNOWN =>
    Left(s, p) <= k \/ Left(s, p) + Elapsed(s.startMs, t) <= Full + k

\* The way from the start of a run to its target; a deadline is exactly so far ahead.
Way(s)   == IF s.goingDown THEN s.posAtStart - s.target ELSE s.target - s.posAtStart
Aimed(s) == s.stopAtMs # 0 => Elapsed(s.startMs, s.stopAtMs) = Way(s)

\* Channel s, telegram m it goes by and curtain p at time t, up to an error of k, but
\* for the distance.  About a channel out of step, where m is SHADE, it says little.
Placed(s, m, p, t, k) ==
  /\ s.travelDown = Full /\ s.travelUp = Full /\ ~s.active
  /\ EndInSight(s, m) /\ Found(s, p, t, k) /\ Aimed(s)

\* Estimate and curtain are no more than k apart.
Near(s, p, t, k) ==
  LET est == EstimatePos(s, t) IN est # UNKNOWN => Distance(est, p) <= k

\* A telegram may start channel s: a target it waits with lies ahead.
Ready(s, down) ==
  s.pendingMove /\ s.target # EndStop /\ s.pos # UNKNOWN => ~s.moving /\ Span(s, down) > 0

\* The one travel time of these shutters.
LEMMA TravelIsFull ==
  ASSUME NEW s, s.travelDown = Full, s.travelUp = Full, NEW down
  PROVE  TravelTime(s, down) = Full /\ TravelTime(s, down) # 0
  BY FullAssumption DEF TravelTime

\* The estimate of a run from a known start, one position per tick.
LEMMA EstimateWay ==
  ASSUME NEW s \in ChannelState, NEW t \in Time,
         TravelTime(s, s.goingDown) = Full, s.moving, s.posAtStart # UNKNOWN
  PROVE  LET e == Elapsed(s.startMs, t) IN
         EstimatePos(s, t) =
           IF s.goingDown THEN IF s.posAtStart < e THEN 0 ELSE s.posAtStart - e
                          ELSE IF s.posAtStart + e > Full THEN Full ELSE s.posAtStart + e
<1>1. PICK e \in Nat : e = Elapsed(s.startMs, t)
  BY ElapsedType DEF ChannelState, Time
<1>2. Full \in Nat \ {0}
  BY FullAssumption
<1>3. (e * Full) \div Full = e
  <2>1. e * Full = Full * e
    BY <1>2
  <2> QED BY <1>2, <2>1, DivExact
<1>4. Moved(s, t) = IF e > Full THEN Full ELSE e
  BY <1>1, <1>3 DEF Moved
<1>5. s.posAtStart \in Position
  BY DEF ChannelState
<1>6. CASE s.goingDown
  <2>1. EstimatePos(s, t) = LET q == s.posAtStart - (IF e > Full THEN Full ELSE e) IN
                              IF q < 0 THEN 0 ELSE IF q > Full THEN Full ELSE q
    BY <1>2, <1>4, <1>6 DEF EstimatePos
  <2> QED BY <1>1, <1>2, <1>5, <1>6, <2>1 DEF Position
<1>7. CASE ~s.goingDown
  <2>1. EstimatePos(s, t) = LET q == s.posAtStart + (IF e > Full THEN Full ELSE e) IN
                              IF q < 0 THEN 0 ELSE IF q > Full THEN Full ELSE q
    BY <1>2, <1>4, <1>7 DEF EstimatePos
  <2> QED BY <1>1, <1>2, <1>5, <1>7, <2>1 DEF Position
<1> QED BY <1>6, <1>7

\* Right after its start a run is where it started.
LEMMA EstimateFresh ==
  ASSUME NEW r \in ChannelState, NEW t \in Time, TravelTime(r, r.goingDown) = Full,
         r.moving, r.startMs = t, r.pos = r.posAtStart
  PROVE  EstimatePos(r, t) = r.posAtStart
<1>1. Elapsed(t, t) = 0
  BY WrapAssumption DEF Elapsed, Time
<1>2. CASE r.posAtStart = UNKNOWN
  BY <1>2 DEF EstimatePos
<1>3. CASE r.posAtStart # UNKNOWN
  <2>1. r.posAtStart \in Position
    BY <1>3 DEF ChannelState
  <2> QED BY <1>1, <1>3, <2>1, EstimateWay, FullAssumption DEF Position
<1> QED BY <1>2, <1>3

\* Banking writes down the estimate, and the estimate reads the same after it.
LEMMA BankEstimate ==
  ASSUME NEW s \in ChannelState, NEW t \in Time
  PROVE  /\ Bank(s, t).pos = EstimatePos(s, t)
         /\ EstimatePos(Bank(s, t), t) = EstimatePos(s, t)
<1> DEFINE b == Bank(s, t)
<1>1. b.pos = EstimatePos(s, t)
  <2>1. CASE s.moving
    BY <2>1 DEF Bank, ChannelState
  <2>2. CASE ~s.moving
    BY <2>2, EstimateType DEF Bank
  <2> QED BY <2>1, <2>2
<1>2. /\ b.moving = s.moving /\ b.goingDown = s.goingDown
      /\ b.startMs = s.startMs /\ b.posAtStart = s.posAtStart /\ TravelSame(s, b)
  BY BankCourse
<1> HIDE DEF b
<1>3. /\ TravelTime(b, b.goingDown) = TravelTime(s, s.goingDown)
      /\ Moved(b, t) = Moved(s, t)
  BY <1>2, TravelTimeSame DEF Moved
<1>4. EstimatePos(b, t) = EstimatePos(s, t)
  <2>1. CASE ~s.moving \/ s.posAtStart = UNKNOWN \/ TravelTime(s, s.goingDown) = 0
    BY <1>1, <1>2, <1>3, <2>1 DEF EstimatePos
  <2>2. CASE ~(~s.moving \/ s.posAtStart = UNKNOWN \/ TravelTime(s, s.goingDown) = 0)
    BY <1>2, <1>3, <2>2 DEF EstimatePos
  <2> QED BY <2>1, <2>2
<1> QED BY <1>1, <1>4 DEF b

\* A deadline less than once around the clock ahead is exactly so far ahead.
LEMMA ElapsedExact ==
  ASSUME NEW t \in Time, NEW r \in Nat, r < Wrap
  PROVE  Elapsed(t, (t + r) % Wrap) = r
<1>0. Wrap \in Nat /\ t \in Nat /\ t < Wrap /\ Wrap > 1
  BY WrapAssumption DEF Time
<1>1. CASE t + r < Wrap
  <2>1. PICK u \in Time : u = t + r /\ (t + r) % Wrap = u
    BY <1>0, <1>1 DEF Time
  <2>2. Elapsed(t, u) = IF u >= t THEN u - t ELSE u - t + Wrap
    BY ElapsedCases
  <2> QED BY <1>0, <2>1, <2>2
<1>2. CASE t + r >= Wrap
  <2>1. PICK u \in Time : u = t + r - Wrap /\ (t + r) % Wrap = u
    <3>1. t + r - Wrap \in Time
      BY <1>0, <1>2 DEF Time
    <3>2. (t + r) % Wrap = t + r - Wrap
      BY <1>0, <1>2
    <3> QED BY <3>1, <3>2
  <2>2. Elapsed(t, u) = IF u >= t THEN u - t ELSE u - t + Wrap
    BY ElapsedCases
  <2> QED BY <1>0, <2>1, <2>2
<1> QED BY <1>0, <1>1, <1>2

\* With the real travel time a run takes one tick per position.
LEMMA RunTimeIsSpan ==
  ASSUME NEW s \in ChannelState, NEW down \in BOOLEAN, TravelTime(s, down) = Full,
         s.pos # UNKNOWN, s.target # EndStop, Span(s, down) > 0, 2 * Full <= Wrap,
         NEW t \in Time
  PROVE  Elapsed(t, (t + RunTime(s, down)) % Wrap) = Span(s, down)
<1>1. Span(s, down) \in Nat /\ Span(s, down) <= Full
  BY FullAssumption DEF Span, ChannelState, Position, Between, UNKNOWN, EndStop
<1>2. PICK k \in Nat : k = Span(s, down) /\ k < Wrap
  BY <1>1, FullAssumption, WrapAssumption
<1>3. (k * Full) \div Full = k
  <2>1. k * Full = Full * k /\ Full \in Nat \ {0}
    BY FullAssumption
  <2> QED BY <2>1, DivExact
<1>4. RunTime(s, down) = k
  BY <1>2, <1>3 DEF RunTime
<1> QED BY <1>2, <1>4, ElapsedExact

\* A channel settled where its motor was told to stop, or runs into the end.
LEMMA SettlePlaced ==
  ASSUME NEW s \in ChannelState, NEW q \in Position \cup {UNKNOWN}, NEW up \in BOOLEAN,
         NEW m, NEW p, NEW t, NEW k,
         s.travelDown = Full, s.travelUp = Full, ~s.active,
         q # UNKNOWN => (m = "DOWN" => q = 0) /\ (m = "UP" => q = Full)
  PROVE  LET r == SettleAt(s, q, up) IN Placed(r, m, p, t, k) /\ EstimatePos(r, t) = q
<1> DEFINE r == SettleAt(s, q, up)
<1>1. /\ TravelSame(s, r) /\ r.pos = q /\ ~r.moving /\ r.stopAtMs = 0 /\ r.active = s.active
  BY SettleCourse, SettleType
<1> HIDE DEF r
<1>2. EstimatePos(r, t) = q
  BY <1>1 DEF EstimatePos
<1>3. Placed(r, m, p, t, k)
  BY <1>1 DEF Placed, EndInSight, Found, Aimed, TravelSame
<1> QED BY <1>2, <1>3 DEF r

\* A STOP leaves the estimate where it is.
LEMMA NotifyStopPlaced ==
  ASSUME NEW s, NEW m, Good(s, m), NEW p, NEW t \in Time, NEW up \in BOOLEAN,
         NEW k, Placed(s, m, p, t, k)
  PROVE  LET r == NotifyStop(s, t, up) IN
         Placed(r, "STOP", p, t, k) /\ EstimatePos(r, t) = EstimatePos(s, t)
<1>0. s \in ChannelState
  BY DEF Good
<1>1. CASE s.moving
  <2>1. EstimatePos(s, t) \in Position \cup {UNKNOWN}
    BY <1>0, EstimateType
  <2>2. NotifyStop(s, t, up) = SettleAt(s, EstimatePos(s, t), up)
    BY <1>1 DEF NotifyStop
  <2>3. s.travelDown = Full /\ s.travelUp = Full /\ ~s.active
    BY DEF Placed
  <2>4. Placed(SettleAt(s, EstimatePos(s, t), up), "STOP", p, t, k)
        /\ EstimatePos(SettleAt(s, EstimatePos(s, t), up), t) = EstimatePos(s, t)
    BY <1>0, <2>1, <2>3, SettlePlaced
  <2> QED BY <2>2, <2>4
<1>2. CASE ~s.moving
  BY <1>2 DEF NotifyStop, Placed, EndInSight
<1> QED BY <1>1, <1>2

\* UP and DOWN start from the estimate, and aim at what they are to reach.
LEMMA StartMovementPlaced ==
  ASSUME NEW s, NEW m, Good(s, m), NEW p \in Position, NEW t \in Time, NEW up \in BOOLEAN,
         NEW down \in BOOLEAN, NEW k \in Nat, Placed(s, m, p, t, k), Ready(s, down), 2 * Full <= Wrap
  PROVE  LET r == StartMovement(s, down, t, up) IN
         Placed(r, Telegram(down), p, t, k) /\ EstimatePos(r, t) = EstimatePos(s, t)
<1> DEFINE b   == Bank(s, t)
           run == [b EXCEPT !.posAtStart = b.pos, !.startMs = t, !.goingDown = down,
                            !.moving = TRUE, !.pendingMove = FALSE]
           timed == b.pendingMove /\ b.target # EndStop /\ b.pos # UNKNOWN
           r == StartRun(s, down, t)
<1>0. /\ s \in ChannelState /\ s.travelDown = Full /\ s.travelUp = Full /\ ~s.active
      /\ TravelTime(s, down) = Full /\ TravelTime(s, down) # 0
  BY TravelIsFull DEF Good, Placed
<1>1. StartMovement(s, down, t, up) = r
  BY <1>0 DEF StartMovement
<1>2. /\ b \in ChannelState /\ b.pos = EstimatePos(s, t)
      /\ b.travelDown = Full /\ b.travelUp = Full
  BY <1>0, BankType, BankEstimate, BankCourse DEF TravelSame
<1>3. /\ r \in ChannelState /\ r.pos = b.pos /\ r.posAtStart = b.pos
      /\ r.moving /\ r.goingDown = down /\ ~r.active
  BY <1>0, StartRunType
<1>4. TravelSame(s, r)
  BY <1>0, StartRunCourse DEF Course
<1>5. r.startMs = t /\ Aimed(r)
  <2>1. CASE ~timed
    <3>1. r = [b EXCEPT !.posAtStart = b.pos, !.startMs = t, !.goingDown = down,
                        !.moving = TRUE, !.pendingMove = FALSE,
                        !.stopAtMs = 0, !.target = EndStop]
      BY <2>1 DEF StartRun
    <3>2. r.stopAtMs = 0 /\ r.startMs = t
      <4> HIDE DEF r, b
      <4> QED BY <1>2, <3>1 DEF ChannelState
    <3> QED BY <3>2 DEF Aimed
  <2>2. CASE timed
    <3>1. b = s
      <4>1. s.pos # UNKNOWN /\ s.pendingMove /\ s.target # EndStop
        <5>1. s.pos = UNKNOWN => b.pos = UNKNOWN
          BY <1>0, BankType DEF Good, ChannelConsistent
        <5>2. b = [s EXCEPT !.pos = b.pos]
          BY <1>0, BankType
        <5> HIDE DEF b
        <5>3. b.pendingMove = s.pendingMove /\ b.target = s.target
          BY <1>0, <5>2 DEF ChannelState
        <5> QED BY <2>2, <5>1, <5>3
      <4>2. ~s.moving
        BY <4>1 DEF Ready
      <4> QED BY <4>2 DEF Bank
    <3>2. Span(s, down) > 0 /\ s.pos # UNKNOWN /\ s.target # EndStop
      BY <2>2, <3>1 DEF Ready
    <3>3. Span(s, down) \in Int
      BY <1>0, FullAssumption DEF Span, ChannelState, Position, Between, UNKNOWN, EndStop
    <3> DEFINE at == (t + RunTime(s, down)) % Wrap
    <3>4. r = [s EXCEPT !.posAtStart = s.pos, !.startMs = t, !.goingDown = down,
                        !.moving = TRUE, !.pendingMove = FALSE, !.stopAtMs = at]
      BY <2>2, <3>1, <3>2, <3>3 DEF StartRun
    <3>5. Elapsed(t, at) = Span(s, down)
      BY <1>0, <3>2, RunTimeIsSpan
    <3> HIDE DEF at, r, b
    <3>6. /\ r.stopAtMs = at /\ r.startMs = t /\ r.target = s.target
          /\ r.posAtStart = s.pos /\ r.goingDown = down
      BY <1>0, <3>4 DEF ChannelState
    <3>7. Way(r) = Span(s, down)
      BY <3>6 DEF Way, Span
    <3> QED BY <3>5, <3>6, <3>7 DEF Aimed
  <2> QED BY <2>1, <2>2
<1> HIDE DEF r
<1>6. EstimatePos(r, t) = EstimatePos(s, t)
  <2>1. TravelTime(r, r.goingDown) = Full
    BY <1>0, <1>4, TravelIsFull DEF TravelSame
  <2> QED BY <1>2, <1>3, <1>5, <2>1, EstimateFresh
<1>7. Found(r, p, t, k)
  <2>1. Elapsed(t, t) = 0
    BY WrapAssumption DEF Elapsed, Time
  <2> QED BY <1>5, <2>1, FullAssumption DEF Found, Left, Position
<1>8. Placed(r, Telegram(down), p, t, k)
  BY <1>0, <1>3, <1>4, <1>5, <1>7 DEF Placed, EndInSight, TravelSame, Telegram
<1> QED BY <1>1, <1>6, <1>8

\* Any telegram but SHADE.
LEMMA NotifiedPlaced ==
  ASSUME NEW s, NEW m, Good(s, m), NEW fn \in Moves \cup {"STOP", "OTHER"},
         NEW p \in Position, NEW t \in Time, online \in BOOLEAN,
         NEW k \in Nat, Placed(s, m, p, t, k),
         fn \in Moves => Ready(s, fn = "DOWN"), 2 * Full <= Wrap
  PROVE  LET r == Notified(s, fn, t) IN
         /\ Placed(r, IF fn \in Drives THEN fn ELSE m, p, t, k)
         /\ EstimatePos(r, t) = EstimatePos(s, t)
<1>0. PICK up \in BOOLEAN : up = online
  OBVIOUS
<1>5. ASSUME NEW down \in BOOLEAN, Ready(s, down)
      PROVE  /\ Placed(StartMovement(s, down, t, up), Telegram(down), p, t, k)
             /\ EstimatePos(StartMovement(s, down, t, up), t) = EstimatePos(s, t)
  BY <1>5, StartMovementPlaced
<1>1. CASE fn = "DOWN"
  <2>1. Ready(s, TRUE) /\ Telegram(TRUE) = fn /\ (IF fn \in Drives THEN fn ELSE m) = fn
    BY <1>1 DEF Moves, Telegram, Drives
  <2>2. Notified(s, fn, t) = StartMovement(s, TRUE, t, online)
    BY <1>1 DEF Notified
  <2>3. /\ Placed(StartMovement(s, TRUE, t, online), Telegram(TRUE), p, t, k)
        /\ EstimatePos(StartMovement(s, TRUE, t, online), t) = EstimatePos(s, t)
    BY <1>0, <1>5, <2>1
  <2> QED BY <2>1, <2>2, <2>3
<1>2. CASE fn = "UP"
  <2>1. Ready(s, FALSE) /\ Telegram(FALSE) = fn /\ (IF fn \in Drives THEN fn ELSE m) = fn
    BY <1>2 DEF Moves, Telegram, Drives
  <2>2. Notified(s, fn, t) = StartMovement(s, FALSE, t, online)
    BY <1>2 DEF Notified
  <2>3. /\ Placed(StartMovement(s, FALSE, t, online), Telegram(FALSE), p, t, k)
        /\ EstimatePos(StartMovement(s, FALSE, t, online), t) = EstimatePos(s, t)
    BY <1>0, <1>5, <2>1
  <2> QED BY <2>1, <2>2, <2>3
<1>3. CASE fn = "STOP"
  BY <1>3, NotifyStopPlaced DEF Notified, Drives, Moves
<1>4. CASE fn = "OTHER"
  BY <1>4 DEF Notified, Drives, Moves
<1> QED BY <1>1, <1>2, <1>3, <1>4 DEF Moves

\* The estimate reads these fields and no others.
LEMMA EstimateSame ==
  ASSUME NEW s, NEW r, TravelSame(s, r), NEW t, r.moving = s.moving, r.pos = s.pos,
         r.posAtStart = s.posAtStart, r.startMs = s.startMs, r.goingDown = s.goingDown
  PROVE  EstimatePos(r, t) = EstimatePos(s, t)
<1>1. TravelTime(r, r.goingDown) = TravelTime(s, s.goingDown)
  BY TravelTimeSame
<1>2. Moved(r, t) = Moved(s, t)
  BY <1>1 DEF Moved
<1> QED BY <1>1, <1>2 DEF EstimatePos

\* Banking.
LEMMA BankPlaced ==
  ASSUME NEW s \in ChannelState, NEW m, NEW p, NEW t \in Time, NEW k, Placed(s, m, p, t, k)
  PROVE  Placed(Bank(s, t), m, p, t, k)
<1> DEFINE b == Bank(s, t)
<1>1. b = [s EXCEPT !.pos = b.pos] /\ (~s.moving => b = s)
  BY BankType
<1> HIDE DEF b
<1>2. /\ TravelSame(s, b) /\ b.active = s.active /\ b.moving = s.moving
      /\ b.posAtStart = s.posAtStart /\ b.startMs = s.startMs /\ b.goingDown = s.goingDown
      /\ b.stopAtMs = s.stopAtMs /\ b.target = s.target
  BY <1>1 DEF ChannelState, TravelSame
<1>3. EndInSight(b, m) /\ Found(b, p, t, k) /\ Aimed(b)
  BY <1>1, <1>2 DEF Placed, EndInSight, Found, Left, Aimed, Way
<1> QED BY <1>2, <1>3 DEF Placed, TravelSame, b

\* Moving the deadline of a run: it starts anew from the estimate.
LEMMA RetargetPlaced ==
  ASSUME NEW b, NEW m, Good(b, m), NEW p, NEW pct \in Position, NEW t \in Time,
         NEW k, Placed(b, m, p, t, k), b.moving, b.goingDown = NeedsDown(b, pct),
         pct \in Ends \/ (b.pos # UNKNOWN /\ b.pos # pct), b.pos = EstimatePos(b, t),
         2 * Full <= Wrap
  PROVE  LET r == Retarget(b, pct, t) IN
         Placed(r, m, p, t, k) /\ EstimatePos(r, t) = EstimatePos(b, t)
<1> DEFINE down == NeedsDown(b, pct)
           aim  == Aim(b, pct)
           a    == [aim EXCEPT !.pendingMove = FALSE]
           r    == Retarget(b, pct, t)
<1>0. b \in ChannelState /\ b.travelDown = Full /\ b.travelUp = Full /\ ~b.active
  BY DEF Good, Placed
<1>1. /\ aim \in ChannelState /\ TravelSame(b, aim)
      /\ aim.target = IF pct \in Ends THEN EndStop ELSE pct
      /\ aim.pos = b.pos /\ aim.posAtStart = b.posAtStart /\ aim.stopAtMs = b.stopAtMs
      /\ aim.moving = b.moving /\ aim.goingDown = b.goingDown /\ aim.startMs = b.startMs
      /\ aim.active = b.active
  <2>1. TravelSame(b, aim) /\ aim.startMs = b.startMs
    BY <1>0 DEF Aim, TravelSame, ChannelState
  <2> QED BY <1>0, <2>1, AimType
<1> HIDE DEF aim
<1>2. a \in ChannelState
  BY <1>1, Zenon DEF ChannelState
<1>3. /\ a.target = aim.target /\ TravelSame(b, a) /\ a.startMs = b.startMs
      /\ a.pos = b.pos /\ a.posAtStart = b.posAtStart /\ a.stopAtMs = b.stopAtMs
      /\ a.moving = b.moving /\ a.goingDown = b.goingDown /\ a.active = b.active
  BY <1>1 DEF ChannelState, TravelSame
<1>4. down \in BOOLEAN /\ down = b.goingDown
  BY <1>0, NeedsDownType
<1> HIDE DEF a
<1>5. CASE pct \in Ends
  <2>1. r = [a EXCEPT !.stopAtMs = 0]
    BY <1>1, <1>3, <1>5 DEF Retarget, a, aim
  <2> HIDE DEF r
  <2>2. /\ TravelSame(a, r) /\ r.startMs = a.startMs /\ r.posAtStart = a.posAtStart
        /\ r.stopAtMs = 0 /\ r.moving = a.moving /\ r.goingDown = a.goingDown
        /\ r.pos = a.pos /\ r.active = a.active
    BY <1>2, <2>1 DEF ChannelState, TravelSame
  <2>3. TravelSame(b, r)
    BY <1>3, <2>2 DEF TravelSame
  <2>4. EstimatePos(r, t) = EstimatePos(b, t)
    <3>1. /\ r.moving = b.moving /\ r.pos = b.pos /\ r.posAtStart = b.posAtStart
          /\ r.startMs = b.startMs /\ r.goingDown = b.goingDown
      BY <1>3, <2>2
    <3> QED BY <2>3, <3>1, EstimateSame
  <2>5. EndInSight(r, m) /\ Found(r, p, t, k) /\ Aimed(r)
    BY <1>3, <2>2 DEF Placed, EndInSight, Found, Left, Aimed
  <2> QED BY <1>0, <1>3, <2>2, <2>3, <2>4, <2>5 DEF Placed, TravelSame, r
<1>6. CASE pct \notin Ends
  <2>1. a.target = pct /\ a.target # EndStop /\ a.pos # UNKNOWN /\ a.pos # pct
    BY <1>1, <1>3, <1>6, FullAssumption DEF Position, EndStop
  <2>2. Span(a, down) > 0 /\ Span(a, down) \in Int
    <3>1. a.pos \in Int /\ pct \in Int
      BY <1>2, FullAssumption DEF ChannelState, Position, UNKNOWN
    <3>2. down <=> pct < a.pos
      BY <1>3, <2>1 DEF NeedsDown
    <3> QED BY <1>4, <2>1, <3>1, <3>2 DEF Span
  <2> DEFINE at == (t + RunTime(a, down)) % Wrap
  <2>3. Elapsed(t, at) = Span(a, down)
    <3>1. TravelTime(a, down) = Full
      BY <1>0, <1>3, TravelIsFull DEF TravelSame
    <3> QED BY <1>2, <1>4, <2>1, <2>2, <3>1, RunTimeIsSpan
  <2>4. r = [a EXCEPT !.posAtStart = a.pos, !.startMs = t, !.stopAtMs = at]
    BY <2>1, <2>2 DEF Retarget, a, aim
  <2>5. at \in Time
    BY <1>2, <1>4, DeadlineType
  <2> HIDE DEF at, r, down
  <2>6. r \in ChannelState
    BY <1>2, <2>4, <2>5, Zenon DEF ChannelState
  <2>7. /\ TravelSame(a, r) /\ r.startMs = t /\ r.posAtStart = a.pos /\ r.pos = a.pos
        /\ r.stopAtMs = at /\ r.moving = a.moving /\ r.goingDown = a.goingDown
        /\ r.target = a.target /\ r.active = a.active
    BY <1>2, <2>4 DEF ChannelState, TravelSame
  <2>8. TravelTime(r, r.goingDown) = Full
    BY <1>0, <1>3, <2>7, TravelIsFull DEF TravelSame
  <2>9. EstimatePos(r, t) = EstimatePos(b, t)
    BY <1>3, <2>6, <2>7, <2>8, EstimateFresh
  <2>10. Way(r) = Span(a, down)
    BY <1>3, <1>4, <2>7 DEF Way, Span
  <2>11. EndInSight(r, m) /\ Found(r, p, t, k) /\ Aimed(r)
    BY <1>3, <2>1, <2>3, <2>7, <2>10 DEF EndInSight, Found, Aimed
  <2> QED BY <1>0, <1>3, <2>7, <2>9, <2>11 DEF Placed, TravelSame, r
<1> QED BY <1>5, <1>6

\* A request that needs a telegram: the channel rests where it was held to be,
\* and the target lies ahead in the direction that is queued.
LEMMA RedirectPlaced ==
  ASSUME NEW b, NEW m, Good(b, m), NEW p, NEW pct \in Position, NEW t \in Time,
         NEW k, Placed(b, m, p, t, k), b.pos = EstimatePos(b, t), ~(pct \notin Ends /\ b.pos = pct)
  PROVE  LET r == Redirect(b, pct) IN
         /\ Placed(r, IF b.moving THEN "STOP" ELSE m, p, t, k)
         /\ EstimatePos(r, t) = EstimatePos(b, t)
         /\ ~r.moving /\ r.goingDown = NeedsDown(b, pct) /\ Ready(r, NeedsDown(b, pct))
<1> DEFINE down == NeedsDown(b, pct)
           aim  == Aim(b, pct)
           r    == Redirect(b, pct)
<1>0. b \in ChannelState /\ b.travelDown = Full /\ b.travelUp = Full /\ ~b.active
      /\ (~b.moving => b.stopAtMs = 0)
  BY DEF Good, Placed, ChannelConsistent
<1>1. /\ TravelSame(b, r) /\ Resting(r)
  BY RedirectCourse
<1>2. /\ r.pos = b.pos /\ r.active = b.active /\ r.goingDown = down
      /\ r.target = IF pct \in Ends THEN EndStop ELSE pct
  BY <1>0 DEF Redirect, Aim, ChannelState
<1>3. EstimatePos(r, t) = b.pos
  BY <1>1, <1>2 DEF EstimatePos, Resting
<1>4. Ready(r, down)
  <2> SUFFICES ASSUME r.target # EndStop, r.pos # UNKNOWN PROVE Span(r, down) > 0
    BY <1>1 DEF Ready, Resting
  <2>1. pct \notin Ends /\ r.target = pct /\ r.pos = b.pos /\ b.pos # pct
    BY <1>2
  <2>2. b.pos \in Int /\ pct \in Int
    BY <1>0, FullAssumption DEF ChannelState, Position, UNKNOWN
  <2>3. down <=> pct < b.pos
    BY <2>1 DEF NeedsDown
  <2> HIDE DEF r, down
  <2> QED BY <2>1, <2>2, <2>3 DEF Span
<1>5. EndInSight(r, IF b.moving THEN "STOP" ELSE m)
  BY <1>2 DEF Placed, EndInSight
<1> HIDE DEF r
<1>6. Found(r, p, t, k) /\ Aimed(r)
  BY <1>1 DEF Resting, Found, Aimed
<1> QED BY <1>0, <1>1, <1>2, <1>3, <1>4, <1>5, <1>6 DEF Placed, TravelSame, Resting, r

\* The way to a target is one the run is known to go.
LEMMA WayIsNat ==
  ASSUME NEW s, NEW m, Good(s, m), Timed(s), Aimed(s), TravelTime(s, s.goingDown) = Full,
         s.stopAtMs # 0
  PROVE  /\ Lasting(s) = Way(s) /\ Way(s) \in Nat /\ Way(s) <= Full
         /\ s.moving /\ s.posAtStart \in Position /\ s.target \in Position
         /\ s.pos # UNKNOWN /\ s.posAtStart # UNKNOWN
<1>1. s \in ChannelState /\ s.moving /\ s.target \in Position /\ s.pos # UNKNOWN
  BY DEF Good, ChannelConsistent, Between
<1>2. s.posAtStart # UNKNOWN /\ s.posAtStart \in Position
  BY <1>1 DEF Good, ChannelConsistent, ChannelState
<1>3. Lasting(s) = Way(s)
  BY DEF Lasting, Aimed
<1> QED BY <1>1, <1>2, <1>3, LastingType

\* Before a deadline within a travel the clock does not say it has passed.
LEMMA DeadlineAhead ==
  ASSUME NEW s \in ChannelState, NEW t \in Time, 2 * Full <= Wrap,
         Elapsed(s.startMs, s.stopAtMs) <= Full, DeadlinePassed(s.stopAtMs, t)
  PROVE  Elapsed(s.startMs, s.stopAtMs) <= Elapsed(s.startMs, t)
<1>0. s.startMs \in Time /\ s.stopAtMs \in Time
  BY DEF ChannelState
<1>1. PICK a \in Time, b \in Time : a = s.startMs /\ b = s.stopAtMs
  BY <1>0
<1>2. /\ Elapsed(a, b) = IF b >= a THEN b - a ELSE b - a + Wrap
      /\ Elapsed(a, t) = IF t >= a THEN t - a ELSE t - a + Wrap
      /\ Elapsed(b, t) = IF t >= b THEN t - b ELSE t - b + Wrap
  BY ElapsedCases
<1>3. 2 * Elapsed(b, t) < Wrap /\ Elapsed(a, b) <= Full
  BY <1>1 DEF DeadlinePassed
<1>4. Elapsed(a, b) <= Elapsed(a, t)
  BY <1>2, <1>3, FullAssumption, WrapAssumption DEF Time
<1> QED BY <1>1, <1>4

\* A timed stop finds the estimate no further from the target than the loop is late.
LEMMA StopNear ==
  ASSUME NEW s, NEW m, Good(s, m), NEW t \in Time, NEW l \in Nat, Timed(s), Punctual(s, t, l),
         Aimed(s), TravelTime(s, s.goingDown) = Full, 2 * Full <= Wrap, StopDue(s, t)
  PROVE  /\ s.target \in Position
         /\ EstimatePos(s, t) \in Position
         /\ Distance(s.target, EstimatePos(s, t)) <= l
<1>1. s \in ChannelState /\ s.stopAtMs # 0 /\ DeadlinePassed(s.stopAtMs, t)
  BY DEF Good, StopDue
<1>2. /\ Lasting(s) = Way(s) /\ Way(s) \in Nat /\ Way(s) <= Full
      /\ s.moving /\ s.posAtStart \in Position /\ s.target \in Position
      /\ s.posAtStart # UNKNOWN
  BY <1>1, WayIsNat
<1>3. Elapsed(s.startMs, s.stopAtMs) = Way(s)
  BY <1>1 DEF Aimed
<1>4. PICK e \in Nat : e = Elapsed(s.startMs, t)
  BY <1>1, ElapsedType DEF ChannelState, Time
<1>5. Way(s) <= e
  BY <1>1, <1>2, <1>3, <1>4, DeadlineAhead
<1>6. e <= Way(s) + l
  BY <1>2, <1>4 DEF Punctual
<1>7. EstimatePos(s, t) =
        IF s.goingDown THEN IF s.posAtStart < e THEN 0 ELSE s.posAtStart - e
                       ELSE IF s.posAtStart + e > Full THEN Full ELSE s.posAtStart + e
  BY <1>1, <1>2, <1>4, EstimateWay
<1>8. PICK a \in 0 .. Full, b \in 0 .. Full : a = s.posAtStart /\ b = s.target
  BY <1>2 DEF Position
<1>9. CASE s.goingDown
  <2>1. Way(s) = a - b
    BY <1>8, <1>9 DEF Way
  <2> QED BY <1>2, <1>5, <1>6, <1>7, <1>8, <1>9, <2>1, FullAssumption DEF Distance, Position
<1>10. CASE ~s.goingDown
  <2>1. Way(s) = b - a
    BY <1>8, <1>10 DEF Way
  <2> QED BY <1>2, <1>5, <1>6, <1>7, <1>8, <1>10, <2>1, FullAssumption DEF Distance, Position
<1> QED BY <1>9, <1>10

\* At the end of its travel a run is where the curtain is, or was estimated.
LEMMA EndNear ==
  ASSUME NEW s, NEW m, Good(s, m), NEW p \in Position, NEW t \in Time, NEW k \in Nat,
         TravelTime(s, s.goingDown) = Full, Found(s, p, t, k), Near(s, p, t, k), EndReached(s, t)
  PROVE  Distance(EndOf(s.goingDown), p) <= k
<1>0. s \in ChannelState /\ s.moving
  BY DEF Good, EndReached
<1>1. CASE s.posAtStart = UNKNOWN
  <2>1. PICK e \in Nat : e = Elapsed(s.startMs, t)
    BY <1>0, ElapsedType DEF ChannelState, Time
  <2>2. e >= Full
    BY <1>1, <2>1 DEF EndReached
  <2>3. Left(s, p) <= k
    BY <1>0, <1>1, <2>1, <2>2, FullAssumption DEF Found, Left, Position
  <2> QED BY <2>3, FullAssumption DEF Distance, Left, EndOf, Position
<1>2. CASE s.posAtStart # UNKNOWN
  <2>1. s.pos # UNKNOWN
    BY <1>2 DEF Good, ChannelConsistent
  <2>2. EstimatePos(s, t) \in Position
    BY <1>0, <2>1, EstimateType DEF Good, ChannelConsistent
  <2>3. EstimatePos(s, t) = EndOf(s.goingDown)
    BY <1>2, <2>2, FullAssumption DEF EndReached, EndOf, Position
  <2>4. EstimatePos(s, t) # UNKNOWN
    BY <2>2, FullAssumption DEF Position, UNKNOWN
  <2> QED BY <2>3, <2>4 DEF Near
<1> QED BY <1>1, <1>2

\* The distance from a to c is no more than by way of b.
LEMMA Triangle ==
  ASSUME NEW a \in Position, NEW b \in Position, NEW c \in Position
  PROVE  Distance(a, c) <= Distance(a, b) + Distance(b, c)
         /\ Distance(a, b) \in Nat /\ Distance(b, c) \in Nat /\ Distance(a, c) \in Nat
  BY FullAssumption DEF Distance, Position

\* The sweep settles what is due; only a timed stop costs accuracy.
LEMMA CyclicPlaced ==
  ASSUME ClockOutlastsTravel, 2 * Full <= Wrap, NEW s, NEW m, Good(s, m), NEW t \in Time,
         NEW l \in Nat, l <= MaxLag, Timed(s), Punctual(s, t, l), NEW p \in Position,
         NEW k \in Nat, Placed(s, m, p, t, k), Near(s, p, t, k), NEW up \in BOOLEAN
  PROVE  LET q == CyclicChannel(s, t, up)
             e == IF StopDue(s, t) THEN k + MaxLag ELSE k
         IN  Placed(q, IF StopDue(s, t) THEN "STOP" ELSE m, p, t, e) /\ Near(q, p, t, e)
<1> DEFINE q == CyclicChannel(s, t, up)
<1>0. /\ s \in ChannelState /\ s.travelDown = Full /\ s.travelUp = Full /\ ~s.active
      /\ Aimed(s) /\ Found(s, p, t, k) /\ MaxLag \in Nat
  BY DEF Good, Placed, ClockOutlastsTravel
<1>1. TravelTime(s, s.goingDown) = Full
  BY <1>0, TravelIsFull
<1>2. CASE StopDue(s, t)
  <2>1. /\ s.target \in Position /\ EstimatePos(s, t) \in Position
        /\ Distance(s.target, EstimatePos(s, t)) <= l
    BY <1>0, <1>1, <1>2, StopNear
  <2>2. q = SettleAt(s, s.target, up)
    BY <1>2 DEF CyclicChannel
  <2> HIDE DEF q
  <2>3. PICK e \in Nat : e = k + MaxLag
    BY <1>0
  <2>4. Placed(q, "STOP", p, t, e) /\ EstimatePos(q, t) = s.target
    BY <1>0, <2>1, <2>2, SettlePlaced
  <2>5. Distance(EstimatePos(s, t), p) <= k
    BY <2>1, FullAssumption DEF Near, Position, UNKNOWN
  <2>6. Distance(s.target, p) <= Distance(s.target, EstimatePos(s, t)) + Distance(EstimatePos(s, t), p)
        /\ Distance(s.target, EstimatePos(s, t)) \in Nat /\ Distance(EstimatePos(s, t), p) \in Nat
        /\ Distance(s.target, p) \in Nat
    BY <2>1, Triangle
  <2>7. Distance(s.target, p) <= e
    BY <1>0, <2>1, <2>3, <2>5, <2>6
  <2> QED BY <1>2, <2>3, <2>4, <2>7 DEF Near, q
<1>3. CASE ~StopDue(s, t) /\ EndReached(s, t)
  <2>1. q = SettleAt(s, EndOf(s.goingDown), up) /\ s.moving
    BY <1>3 DEF CyclicChannel, EndReached
  <2> HIDE DEF q
  <2>2. EndOf(s.goingDown) \in Position
    BY <1>0, EndsKnown DEF ChannelState
  <2>3. (m = "DOWN" => EndOf(s.goingDown) = 0) /\ (m = "UP" => EndOf(s.goingDown) = Full)
    BY <1>0, <2>1 DEF Good, ChannelConsistent, Direction, EndOf
  <2>4. Placed(q, m, p, t, k) /\ EstimatePos(q, t) = EndOf(s.goingDown)
    BY <1>0, <2>1, <2>2, <2>3, SettlePlaced
  <2>5. Distance(EndOf(s.goingDown), p) <= k
    BY <1>0, <1>1, <1>3, EndNear
  <2> QED BY <1>3, <2>4, <2>5 DEF Near, q
<1>4. CASE ~StopDue(s, t) /\ ~EndReached(s, t)
  BY <1>4 DEF CyclicChannel
<1> QED BY <1>2, <1>3, <1>4

\* One tick of a motor at a curtain.
Turned(m, p) ==
  IF m = "DOWN" /\ p > 0 THEN p - 1 ELSE IF m = "UP" /\ p < Full THEN p + 1 ELSE p

\* A tick moves estimate and curtain alike.
LEMMA TickPlaced ==
  ASSUME ClockOutlastsTravel, 2 * Full <= Wrap, NEW s, NEW m \in Drives, Good(s, m),
         NEW t \in Time, NEW l \in Nat, l < MaxLag, Timed(s), Fits(s), Punctual(s, t, l),
         NEW p \in Position, NEW k \in Nat, Placed(s, m, p, t, k), Near(s, p, t, k),
         m # "SHADE"
  PROVE  LET u == (t + 1) % Wrap
             q == Turned(m, p)
         IN  q \in Position /\ Placed(s, m, q, u, k) /\ Near(s, q, u, k)
<1> DEFINE u == (t + 1) % Wrap
           q == Turned(m, p)
<1>0. /\ s \in ChannelState /\ s.travelDown = Full /\ s.travelUp = Full /\ ~s.active
      /\ Aimed(s) /\ Found(s, p, t, k) /\ EndInSight(s, m) /\ MaxLag \in Nat
  BY DEF Good, Placed, ClockOutlastsTravel
<1>1. TravelTime(s, s.goingDown) = Full
  BY <1>0, TravelIsFull
<1>2. q \in Position
  BY FullAssumption DEF Turned, Position
<1>3. u \in Time
  BY WrapAssumption DEF Time
<1>4. CASE ~s.moving
  <2>1. EstimatePos(s, u) = s.pos /\ EstimatePos(s, t) = s.pos
    BY <1>4 DEF EstimatePos
  <2>2. ASSUME s.pos # UNKNOWN PROVE Distance(s.pos, q) <= k
    <3>1. s.pos \in Position /\ Distance(s.pos, p) <= k
      BY <1>0, <2>1, <2>2 DEF ChannelState, Near
    <3>2. CASE s.pos \in Between
      <4>1. q = p
        BY <1>0, <1>4, <3>2 DEF Good, ChannelConsistent, Turned
      <4> QED BY <3>1, <4>1
    <3>3. CASE s.pos \notin Between
      <4>1. (m = "DOWN" => s.pos = 0) /\ (m = "UP" => s.pos = Full)
        BY <1>0, <1>4, <2>2 DEF EndInSight
      <4> QED BY <3>1, <4>1, FullAssumption DEF Turned, Distance, Position
    <3> QED BY <3>2, <3>3
  <2> HIDE DEF u, q
  <2> QED BY <1>0, <1>2, <1>4, <2>1, <2>2 DEF Placed, Near, Found, u, q
<1>5. CASE s.moving
  <2>1. m = IF s.goingDown THEN "DOWN" ELSE "UP"
    BY <1>0, <1>5 DEF Good, ChannelConsistent, Direction
  <2>2. CASE s.posAtStart = UNKNOWN
    <3>1. s.pos = UNKNOWN /\ EstimatePos(s, u) = UNKNOWN
      BY <2>2 DEF Good, ChannelConsistent, EstimatePos
    <3>2. PICK e \in Nat : e = Elapsed(s.startMs, t)
      BY <1>0, ElapsedType DEF ChannelState, Time
    <3>3. s.startMs \in Time
      BY <1>0 DEF ChannelState
    <3>4. e + 1 < Wrap => Elapsed(s.startMs, u) = e + 1
      BY <3>2, <3>3, ElapsedTick
    <3>5. Left(s, p) <= k \/ Left(s, p) + e <= Full + k
      BY <1>0, <1>5, <2>2, <3>2 DEF Found
    <3>6. PICK f : f = Elapsed(s.startMs, u) /\ (e + 1 < Wrap => f = e + 1)
      BY <3>4
    <3>7. PICK a \in Nat, b \in Nat :
            a = Left(s, p) /\ b = Left(s, q) /\ b = IF a = 0 THEN 0 ELSE a - 1
      <4>1. Left(s, p) \in Nat /\ Left(s, q) \in Nat
        BY <1>2, FullAssumption DEF Left, Position
      <4>2. Left(s, q) = IF Left(s, p) = 0 THEN 0 ELSE Left(s, p) - 1
        BY <2>1, FullAssumption DEF Left, Turned, Position
      <4> QED BY <4>1, <4>2
    <3> HIDE DEF u, q
    <3>8. Left(s, q) <= k \/ Left(s, q) + f <= Full + k
      <4>1. CASE e + 1 < Wrap
        BY <3>5, <3>6, <3>7, <4>1, FullAssumption
      <4>2. CASE ~(e + 1 < Wrap)
        BY <3>5, <3>7, <4>2, FullAssumption, WrapAssumption
      <4> QED BY <4>1, <4>2
    <3>9. Found(s, q, u, k)
      BY <3>6, <3>8 DEF Found
    <3> QED BY <1>0, <1>2, <3>1, <3>9 DEF Placed, Near, u, q
  <2>3. CASE s.posAtStart # UNKNOWN
    <3>1. PICK e \in Nat : e = Elapsed(s.startMs, t)
      BY <1>0, ElapsedType DEF ChannelState, Time
    <3>2. Elapsed(s.startMs, u) = e + 1
      BY <1>0, <1>5, <2>3, <3>1, PunctualTick
    <3>3. PICK a \in 0 .. Full : a = s.posAtStart
      BY <1>0, <2>3 DEF ChannelState, Position
    <3>4. /\ EstimatePos(s, t) = IF s.goingDown THEN IF a < e THEN 0 ELSE a - e
                                 ELSE IF a + e > Full THEN Full ELSE a + e
          /\ EstimatePos(s, u) = IF s.goingDown THEN IF a < e + 1 THEN 0 ELSE a - (e + 1)
                                 ELSE IF a + (e + 1) > Full THEN Full ELSE a + (e + 1)
      <4>1. /\ EstimatePos(s, t) = IF s.goingDown THEN IF a < Elapsed(s.startMs, t) THEN 0
                                                       ELSE a - Elapsed(s.startMs, t)
                                   ELSE IF a + Elapsed(s.startMs, t) > Full THEN Full
                                        ELSE a + Elapsed(s.startMs, t)
            /\ EstimatePos(s, u) = IF s.goingDown THEN IF a < Elapsed(s.startMs, u) THEN 0
                                                       ELSE a - Elapsed(s.startMs, u)
                                   ELSE IF a + Elapsed(s.startMs, u) > Full THEN Full
                                        ELSE a + Elapsed(s.startMs, u)
        BY <1>0, <1>1, <1>3, <1>5, <2>3, <3>3, EstimateWay
      <4> QED BY <3>1, <3>2, <4>1
    <3>5. EstimatePos(s, t) # UNKNOWN
      BY <3>4, FullAssumption DEF UNKNOWN
    <3>6. Distance(EstimatePos(s, t), p) <= k
      BY <3>5 DEF Near
    <3>7. Distance(EstimatePos(s, u), q) <= k
      <4>1. CASE s.goingDown
        BY <2>1, <3>4, <3>6, <4>1, FullAssumption DEF Turned, Position, Distance
      <4>2. CASE ~s.goingDown
        BY <2>1, <3>4, <3>6, <4>2, FullAssumption DEF Turned, Position, Distance
      <4> QED BY <4>1, <4>2
    <3> HIDE DEF u, q
    <3> QED BY <1>0, <1>2, <1>5, <2>3, <3>7 DEF Placed, Near, Found, EndInSight, u, q
  <2> QED BY <2>2, <2>3
<1> QED BY <1>4, <1>5

\* Out of step, estimate and curtain move by at most one position each, anywhere.
LEMMA DriftPlaced ==
  ASSUME ClockOutlastsTravel, 2 * Full <= Wrap, NEW s, Good(s, "SHADE"),
         NEW t \in Time, NEW l \in Nat, l < MaxLag, Timed(s), Fits(s), Punctual(s, t, l),
         NEW p \in Position, NEW k \in Nat, Placed(s, "SHADE", p, t, k), Near(s, p, t, k),
         NEW q \in Position, q <= p + 1, p <= q + 1
  PROVE  LET u == (t + 1) % Wrap IN
         Placed(s, "SHADE", q, u, k + 2) /\ Near(s, q, u, k + 2)
<1> DEFINE u == (t + 1) % Wrap
<1>0. /\ s \in ChannelState /\ s.travelDown = Full /\ s.travelUp = Full /\ ~s.active
      /\ Aimed(s) /\ Found(s, p, t, k) /\ EndInSight(s, "SHADE") /\ MaxLag \in Nat
  BY DEF Good, Placed, ClockOutlastsTravel
<1>1. TravelTime(s, s.goingDown) = Full
  BY <1>0, TravelIsFull
<1>2. u \in Time
  BY WrapAssumption DEF Time
<1>3. PICK x \in 0 .. Full, y \in 0 .. Full :
        x = p /\ y = q /\ y <= x + 1 /\ x <= y + 1
  BY DEF Position
<1>4. CASE ~s.moving
  <2>1. EstimatePos(s, u) = s.pos /\ EstimatePos(s, t) = s.pos
    BY <1>4 DEF EstimatePos
  <2>2. ASSUME s.pos # UNKNOWN PROVE Distance(s.pos, q) <= k + 2
    <3>1. s.pos \in Position /\ Distance(s.pos, p) <= k
      BY <1>0, <2>1, <2>2 DEF ChannelState, Near
    <3> QED BY <1>3, <3>1, FullAssumption DEF Distance, Position
  <2> HIDE DEF u
  <2> QED BY <1>0, <1>4, <2>1, <2>2 DEF Placed, Near, Found, u
<1>5. CASE s.moving /\ s.posAtStart = UNKNOWN
  <2>1. s.pos = UNKNOWN /\ EstimatePos(s, u) = UNKNOWN
    BY <1>5 DEF Good, ChannelConsistent, EstimatePos
  <2>2. PICK e \in Nat : e = Elapsed(s.startMs, t)
    BY <1>0, ElapsedType DEF ChannelState, Time
  <2>3. s.startMs \in Time
    BY <1>0 DEF ChannelState
  <2>4. PICK f : f = Elapsed(s.startMs, u) /\ (e + 1 < Wrap => f = e + 1)
    BY <2>2, <2>3, ElapsedTick
  <2>5. Left(s, p) <= k \/ Left(s, p) + e <= Full + k
    BY <1>0, <1>5, <2>2 DEF Found
  <2>6. PICK a \in Nat, b \in Nat : a = Left(s, p) /\ b = Left(s, q) /\ b <= a + 1
    <3>1. Left(s, p) \in Nat /\ Left(s, q) \in Nat /\ Left(s, q) <= Left(s, p) + 1
      BY <1>3, FullAssumption DEF Left
    <3> QED BY <3>1
  <2> HIDE DEF u
  <2>7. Left(s, q) <= k + 2 \/ Left(s, q) + f <= Full + (k + 2)
    <3>1. CASE e + 1 < Wrap
      BY <2>4, <2>5, <2>6, <3>1, FullAssumption
    <3>2. CASE ~(e + 1 < Wrap)
      BY <2>5, <2>6, <3>2, FullAssumption, WrapAssumption
    <3> QED BY <3>1, <3>2
  <2>8. Found(s, q, u, k + 2)
    BY <2>4, <2>7 DEF Found
  <2> QED BY <1>0, <2>1, <2>8 DEF Placed, Near, u
<1>6. CASE s.moving /\ s.posAtStart # UNKNOWN
  <2>1. PICK e \in Nat : e = Elapsed(s.startMs, t)
    BY <1>0, ElapsedType DEF ChannelState, Time
  <2>2. Elapsed(s.startMs, u) = e + 1
    BY <1>0, <1>6, <2>1, PunctualTick
  <2>3. PICK a \in 0 .. Full : a = s.posAtStart
    BY <1>0, <1>6 DEF ChannelState, Position
  <2>4. PICK v \in 0 .. Full, w \in 0 .. Full :
          /\ v = EstimatePos(s, t) /\ w = EstimatePos(s, u)
          /\ v <= w + 1 /\ w <= v + 1
    <3>1. /\ EstimatePos(s, t) = IF s.goingDown THEN IF a < Elapsed(s.startMs, t) THEN 0
                                                     ELSE a - Elapsed(s.startMs, t)
                                 ELSE IF a + Elapsed(s.startMs, t) > Full THEN Full
                                      ELSE a + Elapsed(s.startMs, t)
          /\ EstimatePos(s, u) = IF s.goingDown THEN IF a < Elapsed(s.startMs, u) THEN 0
                                                     ELSE a - Elapsed(s.startMs, u)
                                 ELSE IF a + Elapsed(s.startMs, u) > Full THEN Full
                                      ELSE a + Elapsed(s.startMs, u)
      BY <1>0, <1>1, <1>2, <1>6, <2>3, EstimateWay
    <3>2. /\ EstimatePos(s, t) = IF s.goingDown THEN IF a < e THEN 0 ELSE a - e
                                 ELSE IF a + e > Full THEN Full ELSE a + e
          /\ EstimatePos(s, u) = IF s.goingDown THEN IF a < e + 1 THEN 0 ELSE a - (e + 1)
                                 ELSE IF a + (e + 1) > Full THEN Full ELSE a + (e + 1)
      BY <2>1, <2>2, <3>1
    <3> HIDE DEF u
    <3>3. /\ EstimatePos(s, t) \in 0 .. Full /\ EstimatePos(s, u) \in 0 .. Full
          /\ EstimatePos(s, t) <= EstimatePos(s, u) + 1
          /\ EstimatePos(s, u) <= EstimatePos(s, t) + 1
      BY <3>2, FullAssumption
    <3> QED BY <3>3
  <2>5. v # UNKNOWN
    BY FullAssumption DEF UNKNOWN
  <2>6. Distance(v, x) <= k
    BY <1>3, <2>4, <2>5 DEF Near
  <2>7. Distance(w, y) <= k + 2
    BY <1>3, <2>4, <2>6, FullAssumption DEF Distance
  <2> HIDE DEF u
  <2> QED BY <1>0, <1>3, <1>6, <2>4, <2>7 DEF Placed, Near, Found, EndInSight, u
<1> QED BY <1>4, <1>5, <1>6

\* What holds up to an error holds up to a larger one, and when nothing is known of
\* the motor.
LEMMA PlacedMore ==
  ASSUME NEW s, NEW m, NEW p \in Position, NEW t \in Time, NEW k \in Nat, NEW e \in Nat,
         k <= e, s \in ChannelState, Placed(s, m, p, t, k), Near(s, p, t, k)
  PROVE  /\ Placed(s, m, p, t, e) /\ Placed(s, "SHADE", p, t, e)
         /\ Near(s, p, t, e)
<1>1. Left(s, p) \in Nat /\ Elapsed(s.startMs, t) \in Nat
  BY ElapsedType, FullAssumption DEF Left, Position, ChannelState, Time
<1>2. Found(s, p, t, e)
  BY <1>1, FullAssumption DEF Placed, Found
<1>3. Near(s, p, t, e)
  <2>1. EstimatePos(s, t) \in Position \cup {UNKNOWN}
    BY EstimateType
  <2>2. PICK x : x = EstimatePos(s, t)
    OBVIOUS
  <2>3. x # UNKNOWN => Distance(x, p) <= k /\ Distance(x, p) \in Nat
    BY <2>1, <2>2, Triangle DEF Near
  <2> QED BY <2>2, <2>3 DEF Near
<1>4. EndInSight(s, "SHADE")
  BY DEF EndInSight
<1> QED BY <1>2, <1>3, <1>4 DEF Placed

-----------------------------------------------------------------------------
(* The steps of tracker and shutters together.                             *)

\* A target that waits is the only thing the queue holds, and its telegram is
\* the one that reaches it: nobody else may ask before the queue is empty.
Awaited(c) == LET s == shutter[c] IN
  s.pendingMove => /\ jaroCmdQueue = <<DriveCmd(s.goingDown, c)>>
                   /\ ~s.moving /\ Ready(s, s.goingDown)

\* Nobody asks before the frames that wait are told, and nobody asks for SHADE.
AirCalm ==
  /\ jaroCmdQueue = << >> \/ heard = << >>
  /\ \A i \in 1 .. Len(heard) : heard[i].fn # "SHADE"
  /\ \A c \in Channel : motor[c] # "SHADE"

QueueCalm ==
  /\ Len(jaroCmdQueue) <= 1 /\ dropped = {}
  /\ jaroCmdQueue # << >> => Head(jaroCmdQueue).fn # "SHADE"
  /\ \A c \in Channel : Awaited(c)

\* The invariant: every channel beside the telegram it goes by and its curtain, and
\* no further from it than its slack.
WorldInv ==
  /\ place \in [Channel -> Position] /\ slack \in [Channel -> 0 .. Full]
  /\ QueueCalm /\ AirCalm
  /\ \A c \in Channel : /\ Placed(shutter[c], Followed(c), place[c], now, slack[c])
                        /\ Near(shutter[c], place[c], now, slack[c])

\* What a step leaves of it for channel c, before its cost is counted.
Kept(c, cost) == \E k \in Nat :
  /\ k <= slack[c] + cost
  /\ Placed(shutter'[c], Followed(c)', place'[c], now', k)
  /\ Near(shutter'[c], place'[c], now', k)

\* Every step of this instance is one of the tracker's.
LEMMA WorldNextIsNext == [WorldNext]_worldVars => [Next]_vars
  BY DEF WorldNext, worldVars, UserInput, Next, vars

\* What WorldInv says of one channel.
LEMMA OneChannel ==
  ASSUME RealTravel, IInv, RunInv, WorldInv, NEW c \in Channel
  PROVE  /\ Good(shutter[c], Followed(c)) /\ shutter[c] \in ChannelState /\ motor[c] \in Drives
         /\ now \in Time /\ online \in BOOLEAN /\ lag \in Nat /\ lag <= MaxLag /\ MaxLag \in Nat
         /\ Timed(shutter[c]) /\ Punctual(shutter[c], now, lag) /\ Fits(shutter[c])
         /\ place[c] \in Position /\ slack[c] \in 0 .. Full /\ slack[c] \in Nat
         /\ Placed(shutter[c], Followed(c), place[c], now, slack[c])
         /\ Near(shutter[c], place[c], now, slack[c])
         /\ Awaited(c)
<1>1. /\ Good(shutter[c], Followed(c)) /\ shutter[c] \in ChannelState /\ motor[c] \in Drives
      /\ now \in Time /\ online \in BOOLEAN /\ lag \in Nat
  BY IInvParts DEF AllGood, ChannelsGood, RestType, Good
<1>2. /\ Timed(shutter[c]) /\ Punctual(shutter[c], now, lag) /\ Fits(shutter[c])
      /\ lag <= MaxLag /\ MaxLag \in Nat
  BY DEF RunInv, RealTravel, ClockOutlastsTravel
<1>3. place[c] \in Position /\ slack[c] \in 0 .. Full /\ slack[c] \in Nat
  BY FullAssumption DEF WorldInv
<1> QED BY <1>1, <1>2, <1>3 DEF WorldInv, QueueCalm

\* The costs are numbers; a timed stop costs the lag of the loop.
LEMMA CostType ==
  ASSUME MaxLag \in Nat, NEW c \in Channel
  PROVE  /\ StopCost[c] \in Nat /\ (TimedStop(c) => StopCost[c] = MaxLag)
         /\ DriftCost[c] \in Nat /\ (c \notin told => DriftCost[c] = 2)
  BY DEF StopCost, DriftCost

\* Counting what a step cost, or forgetting the slack at an end-stop, restores it.
LEMMA Counted ==
  ASSUME NEW c \in Channel, NEW cost, cost[c] \in Nat, slack[c] \in Nat, Spend(cost),
         Kept(c, cost[c]), place'[c] \in Position,
         shutter'[c] \in ChannelState, now' \in Time
  PROVE  /\ slack'[c] \in 0 .. Full
         /\ Placed(shutter'[c], Followed(c)', place'[c], now', slack'[c])
         /\ Near(shutter'[c], place'[c], now', slack'[c])
<1>1. slack'[c] = IF Exact(c) THEN 0
                  ELSE IF slack[c] + cost[c] > Full THEN Full ELSE slack[c] + cost[c]
  BY DEF Spend
<1>2. PICK k \in Nat : /\ k <= slack[c] + cost[c]
                       /\ Placed(shutter'[c], Followed(c)', place'[c], now', k)
                       /\ Near(shutter'[c], place'[c], now', k)
  BY DEF Kept
<1>7. PICK m : m = Followed(c)'
  OBVIOUS
<1>3. PICK r \in ChannelState, p \in Position, t \in Time :
        r = shutter'[c] /\ p = place'[c] /\ t = now' /\ m = Followed(c)'
  BY <1>7
<1>4. CASE Exact(c)
  <2>1. ~r.moving /\ EstimatePos(r, t) = p
    BY <1>3, <1>4 DEF Exact, EstimatePos
  <2>2. Distance(p, p) <= 0
    BY FullAssumption DEF Distance, Position
  <2>3. Placed(r, m, p, t, 0) /\ Near(r, p, t, 0)
    BY <1>2, <1>3, <2>1, <2>2 DEF Near, Placed, Found
  <2> QED BY <1>1, <1>3, <1>4, <2>3, FullAssumption
<1>5. CASE ~Exact(c) /\ slack[c] + cost[c] > Full
  <2>1. Left(r, p) <= Full
    BY FullAssumption DEF Left, Position
  <2>2. EstimatePos(r, t) \in Position \cup {UNKNOWN}
    BY EstimateType
  <2>3. EstimatePos(r, t) # UNKNOWN => Distance(EstimatePos(r, t), p) <= Full
    BY <2>2, FullAssumption DEF Distance, Position
  <2>4. Placed(r, m, p, t, Full) /\ Near(r, p, t, Full)
    BY <1>2, <1>3, <2>1, <2>3 DEF Near, Placed, Found
  <2> QED BY <1>1, <1>3, <1>5, <2>4, FullAssumption
<1>6. CASE ~Exact(c) /\ ~(slack[c] + cost[c] > Full)
  <2>1. PICK e \in 0 .. Full : e = slack[c] + cost[c] /\ k <= e
    BY <1>2, <1>6, FullAssumption
  <2>2. e \in Nat
    BY FullAssumption
  <2>3. Placed(r, m, p, t, e) /\ Near(r, p, t, e)
    BY <1>2, <1>3, <2>1, <2>2, PlacedMore
  <2> QED BY <1>1, <1>3, <1>6, <2>1, <2>3
<1> QED BY <1>4, <1>5, <1>6

\* A handler that keeps the estimate and moves neither clock nor curtain.
LEMMA KeptByHandler ==
  ASSUME RealTravel, IInv, RunInv, WorldInv, NEW c \in Channel,
         UNCHANGED <<now, place>>, NEW cost \in Nat,
         Placed(shutter'[c], Followed(c)', place[c], now, slack[c]),
         EstimatePos(shutter'[c], now) = EstimatePos(shutter[c], now)
  PROVE  Kept(c, cost)
<1>1. Near(shutter'[c], place'[c], now', slack[c])
  BY OneChannel DEF Near
<1>2. slack[c] \in Nat /\ slack[c] <= slack[c] + cost
  BY OneChannel
<1> QED BY <1>1, <1>2 DEF Kept

\* A telegram of the queue or of a remote.
LEMMA AllNotifiedPlaced ==
  ASSUME RealTravel, IInv, RunInv, WorldInv, NEW c \in Channel,
         NEW cmd \in Command, cmd.fn # "SHADE",
         c \in cmd.to /\ cmd.fn \in Moves => Ready(shutter[c], cmd.fn = "DOWN")
  PROVE  LET r == AllNotified(cmd)[c] n == After(cmd, c) IN
         /\ Good(r, n) /\ Timed(r) /\ Punctual(r, now, lag)
         /\ Placed(r, n, place[c], now, slack[c])
         /\ EstimatePos(r, now) = EstimatePos(shutter[c], now)
<1> DEFINE s == shutter[c]
           r == AllNotified(cmd)[c]
           m == Followed(c)
           n == After(cmd, c)
<1>0. /\ Good(s, m) /\ s \in ChannelState /\ now \in Time /\ online \in BOOLEAN
      /\ lag \in Nat /\ Timed(s) /\ Punctual(s, now, lag) /\ place[c] \in Position
      /\ Placed(s, m, place[c], now, slack[c]) /\ slack[c] \in Nat
  BY OneChannel
<1>1. Good(r, n) /\ r \in ChannelState
  BY IInvParts, AllNotifiedGood DEF Good, AllGood
<1>2. cmd.fn \in Moves \cup {"STOP", "OTHER"} /\ cmd.fn \in Moves \cup {"STOP", "SHADE", "OTHER"}
  BY DEF Command
<1>3. /\ r = IF c \in cmd.to THEN Notified(s, cmd.fn, now) ELSE s
      /\ n = IF c \in cmd.to /\ cmd.fn \in Drives THEN cmd.fn ELSE m
  BY DEF AllNotified, After, Reached
<1> HIDE DEF s, r, n, m
<1>4. Course(s, r, now)
  BY <1>0, <1>2, <1>3, SameCourse, NotifiedCourse
<1>5. Timed(r) /\ Punctual(r, now, lag)
  BY <1>0, <1>1, <1>4, TimedCourse, PunctualCourse
<1>6. Placed(r, n, place[c], now, slack[c]) /\ EstimatePos(r, now) = EstimatePos(s, now)
  <2>1. CASE c \in cmd.to
    <3>1. /\ Placed(Notified(s, cmd.fn, now), IF cmd.fn \in Drives THEN cmd.fn ELSE m,
                    place[c], now, slack[c])
          /\ EstimatePos(Notified(s, cmd.fn, now), now) = EstimatePos(s, now)
      BY <1>0, <1>2, <2>1, NotifiedPlaced DEF RealTravel, s
    <3>2. n = IF cmd.fn \in Drives THEN cmd.fn ELSE m
      BY <1>3, <2>1
    <3> QED BY <1>3, <2>1, <3>1, <3>2
  <2>2. CASE c \notin cmd.to
    BY <1>0, <1>3, <2>2
  <2> QED BY <2>1, <2>2
<1> QED BY <1>1, <1>5, <1>6 DEF s, r, n, m

\* A sweep after whatever was notified.
LEMMA SweptKept ==
  ASSUME RealTravel, IInv, RunInv, WorldInv, NEW c \in Channel,
         NEW r, NEW n, Good(r, n), Timed(r), Punctual(r, now, lag),
         Placed(r, n, place[c], now, slack[c]),
         EstimatePos(r, now) = EstimatePos(shutter[c], now),
         UNCHANGED <<now, place>>, shutter'[c] = CyclicChannel(r, now, online),
         Followed(c)' = IF StopDue(r, now) THEN "STOP" ELSE n,
         StopDue(r, now) => TimedStop(c)
  PROVE  Kept(c, StopCost[c])
<1>0. /\ now \in Time /\ online \in BOOLEAN /\ lag \in Nat /\ lag <= MaxLag
      /\ place[c] \in Position /\ MaxLag \in Nat
      /\ Near(shutter[c], place[c], now, slack[c])
  BY OneChannel
<1>1. PICK k \in Nat : k = slack[c]
  BY OneChannel
<1>2. Near(r, place[c], now, k) /\ Placed(r, n, place[c], now, k)
  BY <1>0, <1>1 DEF Near
<1>3. PICK e \in Nat : e = IF StopDue(r, now) THEN k + MaxLag ELSE k
  BY <1>0
<1>4. LET q == CyclicChannel(r, now, online) IN
      /\ Placed(q, IF StopDue(r, now) THEN "STOP" ELSE n, place[c], now, e)
      /\ Near(q, place[c], now, e)
  BY <1>0, <1>2, <1>3, CyclicPlaced DEF RealTravel
<1>5. /\ Placed(shutter'[c], Followed(c)', place'[c], now', e)
      /\ Near(shutter'[c], place'[c], now', e)
  BY <1>4
<1>6. e <= slack[c] + StopCost[c]
  BY <1>0, <1>1, <1>3, CostType
<1> QED BY <1>5, <1>6 DEF Kept

\* Nobody waits for a telegram when the queue is empty.
LEMMA NobodyWaits ==
  ASSUME WorldInv, jaroCmdQueue = << >>, NEW c \in Channel
  PROVE  ~shutter[c].pendingMove
  BY DEF WorldInv, QueueCalm, Awaited

\* jaroliftCyclic.
LEMMA PassKept ==
  ASSUME RealTravel, IInv, RunInv, WorldInv, CyclicPass \/ SendPass, UNCHANGED place,
         NEW c \in Channel
  PROVE  Kept(c, StopCost[c])
<1>0. /\ Good(shutter[c], Followed(c)) /\ Timed(shutter[c]) /\ Punctual(shutter[c], now, lag)
      /\ Placed(shutter[c], Followed(c), place[c], now, slack[c]) /\ Awaited(c)
  BY OneChannel
<1>1. CASE CyclicPass
  <2>1. /\ shutter'[c] = CyclicChannel(shutter[c], now, online)
        /\ motor'[c] = IF StopDue(shutter[c], now) THEN "STOP" ELSE motor[c]
        /\ now' = now
    BY <1>1 DEF CyclicPass, Swept, Stopped
  <2>2. StopDue(shutter[c], now) => TimedStop(c)
    BY <1>1 DEF TimedStop
  <2>3. c \in told' <=> c \in told \/ StopDue(shutter[c], now)
    BY <1>1 DEF CyclicPass, Transmit, Halted, air
  <2>4. Followed(c)' = IF StopDue(shutter[c], now) THEN "STOP" ELSE Followed(c)
    BY <2>1, <2>3 DEF Followed
  <2> QED BY <1>0, <2>1, <2>2, <2>4, SweptKept
<1>2. CASE SendPass
  <2> DEFINE cmd == Head(jaroCmdQueue)
             r   == AllNotified(cmd)[c]
             n   == After(cmd, c)
  <2>1. /\ cmd \in Command /\ jaroCmdQueue # << >> /\ now' = now
        /\ shutter'[c] = CyclicChannel(r, now, online)
        /\ motor'[c] = IF StopDue(r, now) THEN "STOP" ELSE Obeyed(cmd)[c]
        /\ c \in told' <=> c \in told \/ c \in Reached(cmd) \/ StopDue(r, now)
    BY <1>2, IInvParts DEF AllGood, SendPass, QueueType, Swept, Stopped, Transmit, Halted
  <2>2. StopDue(r, now) => TimedStop(c)
    BY <1>2 DEF TimedStop
  <2>3. cmd.fn # "SHADE"
    BY <2>1 DEF WorldInv, QueueCalm
  <2>4. cmd.fn \in Moves => Ready(shutter[c], cmd.fn = "DOWN")
    <3>1. CASE ~shutter[c].pendingMove
      BY <3>1 DEF Ready
    <3>2. CASE shutter[c].pendingMove
      <4>1. cmd = DriveCmd(shutter[c].goingDown, c) /\ Ready(shutter[c], shutter[c].goingDown)
        BY <1>0, <3>2 DEF Awaited
      <4>2. shutter[c].goingDown \in BOOLEAN
        BY <1>0 DEF Good, ChannelState
      <4>3. (cmd.fn = "DOWN") = shutter[c].goingDown
        BY <4>1, <4>2 DEF DriveCmd
      <4> QED BY <4>1, <4>3
    <3> QED BY <3>1, <3>2
  <2> HIDE DEF cmd
  <2>5. /\ Good(r, n) /\ Timed(r) /\ Punctual(r, now, lag)
        /\ Placed(r, n, place[c], now, slack[c])
        /\ EstimatePos(r, now) = EstimatePos(shutter[c], now)
    BY <2>1, <2>3, <2>4, AllNotifiedPlaced
  <2>6. Obeyed(cmd)[c] = IF c \in Reached(cmd) THEN cmd.fn ELSE motor[c]
    BY DEF Obeyed, Reached
  <2>7. Followed(c)' = IF StopDue(r, now) THEN "STOP" ELSE n
    BY <2>1, <2>6 DEF Followed, After
  <2> HIDE DEF r, n
  <2> QED BY <2>1, <2>2, <2>5, <2>7, SweptKept
<1> QED BY <1>1, <1>2

\* A press of a remote takes its channels out of step; their estimate stays.
LEMMA PressKept ==
  ASSUME RealTravel, IInv, RunInv, WorldInv, UNCHANGED place,
         NEW fn \in Fns, NEW to \in SUBSET Channel \ {{}}, RemotePress(fn, to),
         NEW c \in Channel
  PROVE  Kept(c, StopCost[c])
<1>1. shutter' = shutter /\ now' = now /\ told' = told \ to
  BY DEF RemotePress, Untimed
<1>2. Placed(shutter[c], Followed(c), place[c], now, slack[c]) /\ StopCost[c] \in Nat
  BY OneChannel, CostType
<1>3. Followed(c)' = Followed(c) \/ Followed(c)' = "SHADE"
  <2>1. c \notin to => motor'[c] = motor[c]
    BY DEF RemotePress, Obeyed
  <2> QED BY <1>1, <2>1 DEF Followed
<1>4. Placed(shutter[c], Followed(c)', place[c], now, slack[c])
  BY <1>2, <1>3 DEF Placed, EndInSight
<1> QED BY <1>1, <1>2, <1>4, KeptByHandler

\* What jarolift.loop() tells the tracker keeps the estimate.
LEMMA RadioKept ==
  ASSUME RealTravel, IInv, RunInv, WorldInv, UNCHANGED place, RadioLoop,
         NEW c \in Channel
  PROVE  Kept(c, StopCost[c])
<1>0. /\ Placed(shutter[c], Followed(c), place[c], now, slack[c]) /\ StopCost[c] \in Nat
      /\ motor' = motor /\ now' = now
  BY OneChannel, CostType DEF RadioLoop
<1>1. CASE UNCHANGED <<shutter, air>>
  <2>1. Followed(c)' = Followed(c) /\ shutter' = shutter
    BY <1>0, <1>1 DEF Followed, air
  <2> QED BY <1>0, <2>1, KeptByHandler
<1>2. CASE ~UNCHANGED <<shutter, air>>
  <2>1. heard # << >> /\ heard \in Seq(HeardFrame) /\ FramesCurrent
    BY <1>2, IInvParts DEF RadioLoop, AllGood, AirGood
  <2>2. PICK f \in HeardFrame : f = Head(heard) /\ f = heard[1]
    BY <2>1
  <2>3. /\ shutter' = AllNotified(f) /\ told' = (told \ f.to) \cup (f.to \ f.late)
    BY <1>2, <2>2 DEF RadioLoop
  <2>4. f.fn # "SHADE" /\ \A d \in f.to \ f.late : motor[d] = f.fn
    BY <2>1, <2>2 DEF WorldInv, AirCalm, FramesCurrent
  <2>5. /\ FrameCmd(f) \in Command /\ FrameCmd(f).fn # "SHADE"
        /\ AllNotified(f) = AllNotified(FrameCmd(f))
        /\ After(FrameCmd(f), c) = IF c \in f.to THEN f.fn ELSE Followed(c)
    BY <2>4, FrameType DEF FrameCmd, After
  <2>6. Ready(shutter[c], FrameCmd(f).fn = "DOWN")
    BY <2>1, NobodyWaits DEF Ready, WorldInv, AirCalm
  <2>7. /\ Placed(shutter'[c], After(FrameCmd(f), c), place[c], now, slack[c])
        /\ EstimatePos(shutter'[c], now) = EstimatePos(shutter[c], now)
    BY <2>3, <2>5, <2>6, AllNotifiedPlaced
  <2>8. Followed(c)' = After(FrameCmd(f), c) \/ Followed(c)' = "SHADE"
    BY <1>0, <2>3, <2>4, <2>5 DEF Followed
  <2>9. Placed(shutter'[c], Followed(c)', place[c], now, slack[c])
    BY <2>7, <2>8 DEF Placed, EndInSight
  <2> QED BY <1>0, <2>7, <2>9, KeptByHandler
<1> QED BY <1>1, <1>2

\* shutterPosSetTarget, asked with an empty queue: every way through it keeps
\* the estimate, and the one that needs a telegram queues the right one.
LEMMA SetTargetKept ==
  ASSUME RealTravel, IInv, RunInv, WorldInv, jaroCmdQueue = << >>, UNCHANGED place,
         NEW d \in Channel, NEW pct \in Position, SetTarget(d, pct), NEW c \in Channel
  PROVE  /\ Kept(c, StopCost[c]) /\ Awaited(c)'
         /\ Len(jaroCmdQueue') <= 1 /\ dropped' = {}
         /\ jaroCmdQueue' # << >> => Head(jaroCmdQueue').fn # "SHADE"
<1> DEFINE s == shutter[d]
           b == Bank(s, now)
           here   == pct \notin Ends /\ b.pos = pct
           refuse == pct \notin Ends /\ b.pos = UNKNOWN
           onWay  == b.moving /\ b.goingDown = NeedsDown(b, pct)
<1>0. /\ Good(s, Followed(d)) /\ s \in ChannelState /\ now \in Time /\ online \in BOOLEAN
      /\ place[d] \in Position /\ Placed(s, Followed(d), place[d], now, slack[d])
      /\ \A e \in Channel : ~shutter[e].pendingMove
      /\ 2 * Full <= Wrap /\ now' = now /\ dropped = {}
  BY OneChannel, NobodyWaits DEF RealTravel, SetTarget, Untimed, WorldInv, QueueCalm
<1>1. /\ b \in ChannelState /\ Good(b, Followed(d)) /\ b.moving = s.moving
      /\ Placed(b, Followed(d), place[d], now, slack[d])
      /\ b.pos = EstimatePos(s, now) /\ EstimatePos(b, now) = EstimatePos(s, now)
  BY <1>0, BankGood, BankPlaced, BankEstimate DEF Good
<1>2. ~b.pendingMove
  <2>1. b = [s EXCEPT !.pos = b.pos]
    BY <1>0, BankType
  <2> HIDE DEF b, s
  <2>2. b.pendingMove = s.pendingMove
    BY <1>0, <2>1 DEF ChannelState
  <2> QED BY <1>0, <2>2 DEF s
<1>3. ASSUME NEW r, Update(d, r), NEW n, Followed(d)' = n,
             \A e \in Channel \ {d} : Followed(e)' = Followed(e),
             Placed(r, n, place[d], now, slack[d]), EstimatePos(r, now) = EstimatePos(s, now)
      PROVE  Kept(c, StopCost[c]) /\ shutter'[d] = r /\ \A e \in Channel \ {d} : shutter'[e] = shutter[e]
  <2>1. shutter'[d] = r /\ \A e \in Channel \ {d} : shutter'[e] = shutter[e]
    BY <1>3, IInvParts DEF AllGood, Update, ChannelsGood
  <2>2. CASE c = d
    BY <1>0, <1>3, <2>1, <2>2, OneChannel, CostType, KeptByHandler
  <2>3. CASE c # d
    <3>1. Placed(shutter[c], Followed(c), place[c], now, slack[c]) /\ StopCost[c] \in Nat
      BY OneChannel, CostType
    <3>2. shutter'[c] = shutter[c] /\ Followed(c)' = Followed(c)
      BY <1>3, <2>1, <2>3
    <3>3. /\ Placed(shutter'[c], Followed(c)', place[c], now, slack[c])
          /\ EstimatePos(shutter'[c], now) = EstimatePos(shutter[c], now)
      BY <3>1, <3>2, Zenon
    <3>4. UNCHANGED <<now, place>>
      BY <1>0
    <3> HIDE DEF b
    <3> QED BY <2>1, <3>1, <3>3, <3>4, KeptByHandler
  <2> QED BY <2>1, <2>2, <2>3
<1>4. ASSUME NEW r, shutter'[d] = r, ~r.pendingMove,
             \A e \in Channel \ {d} : shutter'[e] = shutter[e],
             UNCHANGED <<jaroCmdQueue, dropped>>
      PROVE  /\ Awaited(c)' /\ Len(jaroCmdQueue') <= 1 /\ dropped' = {}
             /\ jaroCmdQueue' # << >> => Head(jaroCmdQueue').fn # "SHADE"
  <2>1. ~shutter'[c].pendingMove
    BY <1>0, <1>4
  <2> QED BY <1>0, <1>4, <2>1 DEF Awaited
<1>5. /\ StopMotor(d) => /\ Followed(d)' = "STOP"
                         /\ \A e \in Channel \ {d} : Followed(e)' = Followed(e)
      /\ SendNothing => \A e \in Channel : Followed(e)' = Followed(e)
  BY IInvParts DEF AllGood, StopMotor, Transmit, SendNothing, air, ChannelsGood, Followed
<1> HIDE DEF b, s
<1>6. CASE here /\ ~b.moving /\ SendNothing /\ UNCHANGED <<shutter, jaroCmdQueue, dropped>>
  <2>1. Placed(shutter[c], Followed(c), place[c], now, slack[c]) /\ StopCost[c] \in Nat
    BY OneChannel, CostType
  <2>2. Kept(c, StopCost[c])
    BY <1>0, <1>5, <1>6, <2>1, KeptByHandler
  <2> QED BY <1>0, <1>4, <1>6, <2>2 DEF s
<1>7. CASE /\ here /\ b.moving /\ StopMotor(d)
           /\ Update(d, SettleAt(b, b.pos, online))
           /\ UNCHANGED <<jaroCmdQueue, dropped>>
  <2> DEFINE r == SettleAt(b, b.pos, online)
  <2>1. b.pos \in Position \cup {UNKNOWN}
    BY <1>1 DEF ChannelState
  <2>2. Placed(r, "STOP", place[d], now, slack[d]) /\ EstimatePos(r, now) = b.pos
    <3>1. PICK x \in ChannelState : x = b
      BY <1>1
    <3>2. x.travelDown = Full /\ x.travelUp = Full /\ ~x.active
      BY <1>1, <3>1 DEF Placed
    <3>3. PICK q \in Position \cup {UNKNOWN} : q = b.pos
      BY <2>1
    <3>4. PICK up \in BOOLEAN : up = online
      BY <1>0
    <3>5. Placed(SettleAt(x, q, up), "STOP", place[d], now, slack[d])
      BY <3>2, SettlePlaced
    <3>6. EstimatePos(SettleAt(x, q, up), now) = q
      BY SettleType DEF EstimatePos
    <3> QED BY <3>1, <3>3, <3>4, <3>5, <3>6
  <2>3. ~r.pendingMove
    BY <1>0, <1>1, <2>1, SettleType
  <2> HIDE DEF r
  <2> QED BY <1>1, <1>3, <1>4, <1>5, <1>7, <2>2, <2>3 DEF r
<1>8. CASE refuse /\ Update(d, b) /\ SendNothing /\ UNCHANGED <<jaroCmdQueue, dropped>>
  BY <1>0, <1>1, <1>2, <1>3, <1>4, <1>5, <1>8
<1>9. CASE /\ ~here /\ ~refuse /\ onWay
           /\ Update(d, Retarget(b, pct, now))
           /\ SendNothing /\ UNCHANGED <<jaroCmdQueue, dropped>>
  <2> DEFINE r == Retarget(b, pct, now)
  <2>1. pct \in Ends \/ (b.pos # UNKNOWN /\ b.pos # pct)
    BY <1>9
  <2>2. Placed(r, Followed(d), place[d], now, slack[d]) /\ EstimatePos(r, now) = EstimatePos(b, now)
    BY <1>0, <1>1, <1>9, <2>1, RetargetPlaced
  <2>3. ~r.pendingMove
    BY <1>1, <1>9 DEF Retarget, Aim, ChannelState
  <2> HIDE DEF r
  <2> QED BY <1>0, <1>1, <1>3, <1>4, <1>5, <1>9, <2>2, <2>3 DEF r
<1>10. CASE /\ ~here /\ ~refuse /\ ~onWay
            /\ IF b.moving THEN StopMotor(d) ELSE SendNothing
            /\ Update(d, Redirect(b, pct))
            /\ Enqueue(DriveCmd(NeedsDown(b, pct), d))
  <2> DEFINE r == Redirect(b, pct)
             n == IF b.moving THEN "STOP" ELSE Followed(d)
             down == NeedsDown(b, pct)
  <2>1. /\ Placed(r, n, place[d], now, slack[d]) /\ EstimatePos(r, now) = EstimatePos(b, now)
        /\ ~r.moving /\ r.goingDown = down /\ Ready(r, down)
    BY <1>0, <1>1, <1>10, RedirectPlaced
  <2> HIDE DEF r, down
  <2>2. Followed(d)' = n /\ \A e \in Channel \ {d} : Followed(e)' = Followed(e)
    BY <1>0, <1>5, <1>10
  <2>3. Kept(c, StopCost[c]) /\ shutter'[d] = r /\ \A e \in Channel \ {d} : shutter'[e] = shutter[e]
    BY <1>1, <1>3, <1>10, <2>1, <2>2 DEF r
  <2>4. jaroCmdQueue' = <<DriveCmd(down, d)>> /\ dropped' = {}
    <3>1. Len(jaroCmdQueue) < MaxCmd
      BY QueueAssumption DEF RealTravel
    <3> QED BY <1>0, <1>10, <3>1 DEF Enqueue, down
  <2>5. Awaited(c)'
    <3>1. CASE c = d
      BY <2>1, <2>3, <2>4, <3>1 DEF Awaited
    <3>2. CASE c # d
      <4>1. ~shutter'[c].pendingMove
        BY <1>0, <2>3, <3>2
      <4> QED BY <4>1 DEF Awaited
    <3> QED BY <3>1, <3>2
  <2>6. /\ Len(jaroCmdQueue') <= 1
        /\ jaroCmdQueue' # << >> => Head(jaroCmdQueue').fn # "SHADE"
    BY <2>4 DEF DriveCmd
  <2> QED BY <2>3, <2>4, <2>5, <2>6
<1> QED BY <1>6, <1>7, <1>8, <1>9, <1>10 DEF SetTarget, b, s

\* Frames that wait stay what they are, and no more, when something is sent.
LEMMA TransmitCalm ==
  ASSUME AirGood, \A i \in 1 .. Len(heard) : heard[i].fn # "SHADE",
         NEW to \in SUBSET Channel, Transmit(to)
  PROVE  /\ heard = << >> => heard' = << >>
         /\ \A i \in 1 .. Len(heard') : heard'[i].fn # "SHADE"
<1>1. PICK n \in {Len(heard), Len(heard) - 1} \cap Nat :
        heard' = Overtaken(SubSeq(heard, 1, n), to)
  BY DEF Transmit
<1>2. heard \in Seq(HeardFrame) /\ n \in 0 .. Len(heard)
  BY <1>1 DEF AirGood
<1>3. PICK p \in Seq(HeardFrame) :
        p = SubSeq(heard, 1, n) /\ Len(p) = n /\ \A i \in 1 .. n : p[i] = heard[i]
  <2> DEFINE q == SubSeq(heard, 1, n)
  <2>1. \A i \in 1 .. n : heard[i] \in HeardFrame
    BY <1>2
  <2>2. q \in Seq(HeardFrame) /\ Len(q) = n /\ \A i \in 1 .. n : q[i] = heard[i]
    BY <1>2, <2>1, SubSeqProperties
  <2> HIDE DEF q
  <2> QED BY <2>2 DEF q
<1>4. /\ heard' \in Seq(HeardFrame) /\ Len(heard') = n
      /\ \A i \in 1 .. n : heard'[i].fn = p[i].fn
  <2>1. heard' = Overtaken(p, to)
    BY <1>1, <1>3
  <2>2. LET o == Overtaken(p, to) IN
        /\ o \in Seq(HeardFrame) /\ Len(o) = Len(p)
        /\ \A i \in 1 .. Len(p) : o[i].fn = p[i].fn
    BY OvertakenType
  <2> QED BY <1>3, <2>1, <2>2
<1>5. heard = << >> => heard' = << >>
  <2>1. heard = << >> => n = 0
    BY <1>2
  <2>2. Len(heard') = 0 => heard' = << >>
    BY <1>4
  <2> QED BY <1>4, <2>1, <2>2
<1> QED BY <1>2, <1>3, <1>4, <1>5

\* What the air holds, and what motors were sent, on every step.
LEMMA AirStaysCalm ==
  ASSUME RealTravel, IInv, WorldInv, WorldNext
  PROVE  AirCalm'
<1>0. /\ AirCalm /\ QueueCalm /\ AirGood /\ Calm /\ "SHADE" \notin Fns
      /\ jaroCmdQueue \in Seq(Command) /\ motor \in [Channel -> Drives]
      /\ heard \in Seq(HeardFrame)
  BY IInvParts DEF AllGood, AirGood, QueueType, ChannelsGood, WorldInv, RealTravel
<1>1. ASSUME NEW to \in SUBSET Channel, Transmit(to)
      PROVE  /\ heard = << >> => heard' = << >>
             /\ \A i \in 1 .. Len(heard') : heard'[i].fn # "SHADE"
  BY <1>0, <1>1, TransmitCalm DEF AirCalm
<1>2. CASE CyclicPass
  <2>1. jaroCmdQueue' = jaroCmdQueue /\ Halted(shutter) \in SUBSET Channel
    BY <1>2 DEF CyclicPass, Halted
  <2>2. \A c \in Channel : motor'[c] # "SHADE"
    BY <1>0, <1>2 DEF CyclicPass, Stopped, AirCalm
  <2>3. CASE Transmit(Halted(shutter))
    BY <1>0, <1>1, <2>1, <2>2, <2>3 DEF AirCalm
  <2>4. CASE UNCHANGED air
    BY <1>0, <2>1, <2>2, <2>4 DEF AirCalm, air
  <2> QED BY <1>2, <2>3, <2>4 DEF CyclicPass
<1>3. CASE SendPass
  <2> DEFINE cmd == Head(jaroCmdQueue)
  <2>1. /\ cmd \in Command /\ cmd.fn # "SHADE" /\ heard = << >>
        /\ motor' = Stopped(AllNotified(cmd), Obeyed(cmd))
        /\ Transmit(Reached(cmd) \cup Halted(AllNotified(cmd)))
    BY <1>0, <1>3 DEF SendPass, AirCalm, QueueCalm
  <2> HIDE DEF cmd
  <2>2. Reached(cmd) \cup Halted(AllNotified(cmd)) \in SUBSET Channel
    BY <2>1 DEF Reached, Halted, Command
  <2>3. \A c \in Channel : motor'[c] # "SHADE"
    BY <1>0, <2>1 DEF Stopped, Obeyed, AirCalm
  <2> QED BY <1>1, <2>1, <2>2, <2>3 DEF AirCalm
<1>4. CASE RadioLoop
  <2>1. UNCHANGED <<jaroCmdQueue, motor>>
    BY <1>4 DEF RadioLoop
  <2>2. CASE UNCHANGED heard
    BY <1>0, <2>1, <2>2 DEF AirCalm
  <2>3. CASE ~UNCHANGED heard
    <3>1. heard # << >> /\ heard' = Tail(heard)
      BY <1>4, <2>3 DEF RadioLoop, air
    <3>2. /\ heard' \in Seq(HeardFrame) /\ Len(heard') = Len(heard) - 1
          /\ \A i \in 1 .. Len(heard') : heard'[i] = heard[i + 1] /\ i + 1 \in 1 .. Len(heard)
      BY <1>0, <3>1, HeadTailProperties
    <3> QED BY <1>0, <2>1, <3>1, <3>2 DEF AirCalm
  <2> QED BY <2>2, <2>3
<1>5. CASE Tick \/ SessionLost \/ SessionUp
  BY <1>0, <1>5 DEF Tick, SessionLost, SessionUp, air, AirCalm
<1>6. CASE Restart
  BY <1>0, <1>6 DEF Restart, AirCalm
<1>7. ASSUME NEW fn \in Fns, NEW to \in SUBSET Channel \ {{}}, JaroCmd(fn, to), heard = << >>
      PROVE  AirCalm'
  BY <1>0, <1>7 DEF JaroCmd, air, AirCalm
<1>8. ASSUME NEW fn \in Fns, NEW to \in SUBSET Channel \ {{}}, RemotePress(fn, to),
             heard = << >>, jaroCmdQueue = << >>
      PROVE  AirCalm'
  <2> DEFINE f == [fn |-> fn, to |-> to, late |-> {}]
  <2>1. PICK w \in Seq(HeardFrame) : w = Overtaken(heard, to) /\ Len(w) = 0
    BY <1>0, <1>8, OvertakenType
  <2>2. f.fn # "SHADE" /\ w = << >> /\ Len(w) < Places
    BY <1>0, <2>1 DEF Places
  <2>3. heard' = w \/ heard' = Append(w, f)
    BY <1>8, <2>1, <2>2 DEF RemotePress
  <2> HIDE DEF f
  <2>4. \A i \in 1 .. Len(heard') : heard'[i].fn # "SHADE"
    <3>1. heard' = << >> \/ heard' = <<f>>
      BY <2>2, <2>3
    <3>2. \A i \in 1 .. Len(<<f>>) : <<f>>[i] = f
      OBVIOUS
    <3>3. 1 .. Len(<< >>) = {}
      OBVIOUS
    <3> QED BY <2>2, <3>1, <3>2, <3>3
  <2>5. jaroCmdQueue' = << >> /\ \A c \in Channel : motor'[c] # "SHADE"
    BY <1>0, <1>8 DEF RemotePress, Obeyed, AirCalm
  <2> QED BY <2>4, <2>5 DEF AirCalm
<1>9. ASSUME NEW d \in Channel, NEW pct \in Position, SetTarget(d, pct), heard = << >>
      PROVE  AirCalm'
  <2>1. StopMotor(d) \/ SendNothing
    BY <1>9 DEF SetTarget
  <2>2. CASE StopMotor(d)
    <3>1. Transmit({d}) /\ \A c \in Channel : motor'[c] # "SHADE"
      BY <1>0, <2>2 DEF StopMotor, AirCalm
    <3> QED BY <1>1, <1>9, <3>1 DEF AirCalm
  <2>3. CASE SendNothing
    BY <1>0, <1>9, <2>3 DEF SendNothing, air, AirCalm
  <2> QED BY <2>1, <2>2, <2>3
<1> QED BY <1>0, <1>2, <1>3, <1>4, <1>5, <1>6, <1>7, <1>8, <1>9 DEF WorldNext, UserInput

\* The queue, and who waits for it, on every other step.
LEMMA QueueStaysCalm ==
  ASSUME RealTravel, IInv, PendingHasTelegram, WorldInv,
         \/ Tick \/ CyclicPass \/ SendPass \/ RadioLoop \/ Restart \/ SessionLost \/ SessionUp
         \/ /\ jaroCmdQueue = << >>
            /\ \E fn \in Fns, to \in SUBSET Channel \ {{}} : JaroCmd(fn, to) \/ RemotePress(fn, to)
  PROVE  QueueCalm'
<1>0. /\ jaroCmdQueue \in Seq(Command) /\ Len(jaroCmdQueue) <= 1 /\ dropped = {}
      /\ jaroCmdQueue # << >> => Head(jaroCmdQueue).fn # "SHADE"
      /\ \A c \in Channel : Awaited(c)
      /\ Calm /\ MaxCmd > 0 /\ MaxCmd \in Nat
  BY IInvParts, QueueAssumption DEF AllGood, QueueType, WorldInv, QueueCalm, RealTravel
<1>1. ASSUME jaroCmdQueue = << >>, NEW fn \in Fns, NEW to \in SUBSET Channel \ {{}}, JaroCmd(fn, to)
      PROVE  /\ jaroCmdQueue' = <<[fn |-> fn, to |-> to]>> /\ dropped' = {} /\ fn # "SHADE"
             /\ \A c \in Channel : ~shutter'[c].pendingMove
  BY <1>0, <1>1, NobodyWaits DEF JaroCmd, Enqueue, RealTravel
<1>2. ASSUME jaroCmdQueue = << >>, NEW fn \in Fns, NEW to \in SUBSET Channel \ {{}},
             RemotePress(fn, to)
      PROVE  /\ jaroCmdQueue' = << >> /\ dropped' = {}
             /\ \A c \in Channel : ~shutter'[c].pendingMove
  BY <1>0, <1>2, NobodyWaits, TelegramFrame DEF RemotePress, Quiet, NotPending
<1>3. CASE SendPass
  <2>1. jaroCmdQueue' = << >> /\ dropped' = {}
    BY <1>0, <1>3 DEF SendPass
  <2>2. PendingHasTelegram'
    BY <1>3, PendingStep DEF Next
  <2>3. \A c \in Channel : ~shutter'[c].pendingMove
    BY <2>1, <2>2 DEF PendingHasTelegram
  <2> QED BY <2>1, <2>3 DEF QueueCalm, Awaited
<1>4. CASE CyclicPass
  <2>1. UNCHANGED <<jaroCmdQueue, dropped>>
    BY <1>4 DEF CyclicPass
  <2>2. ASSUME NEW c \in Channel, shutter'[c].pendingMove
        PROVE  shutter'[c] = shutter[c]
    <3>1. Quiet(c)
      BY <1>4, TelegramFrame
    <3>2. ~shutter[c].moving
      BY <1>0, <2>2, <3>1 DEF Quiet, NotPending, Awaited
    <3>3. shutter'[c] = CyclicChannel(shutter[c], now, online)
      BY <1>4 DEF CyclicPass, Swept
    <3>4. Good(shutter[c], Followed(c)) /\ now \in Time /\ online \in BOOLEAN
      BY IInvParts DEF AllGood, ChannelsGood, RestType
    <3> QED BY <3>2, <3>3, <3>4, CyclicFrame
  <2> QED BY <1>0, <2>1, <2>2 DEF QueueCalm, Awaited
<1>5. CASE Restart
  <2>1. ASSUME NEW c \in Channel PROVE ~shutter'[c].pendingMove
    BY <1>5, IInvParts DEF AllGood, Restart, PowerUp, ChannelsGood, ChannelState
  <2> QED BY <1>5, <2>1 DEF Restart, QueueCalm, Awaited
<1>6. CASE SessionLost \/ SessionUp \/ Tick
  <2>1. UNCHANGED <<shutter, jaroCmdQueue, dropped>>
    BY <1>6 DEF SessionLost, SessionUp, Tick
  <2> QED BY <1>0, <2>1 DEF QueueCalm, Awaited
<1>7. ASSUME jaroCmdQueue = << >>, NEW fn \in Fns, NEW to \in SUBSET Channel \ {{}}, JaroCmd(fn, to)
      PROVE  QueueCalm'
  <2>1. /\ jaroCmdQueue' = <<[fn |-> fn, to |-> to]>> /\ dropped' = {} /\ fn # "SHADE"
        /\ \A c \in Channel : ~shutter'[c].pendingMove
    BY <1>1, <1>7
  <2>2. \A x : Len(<<x>>) = 1 /\ Head(<<x>>) = x
    OBVIOUS
  <2>3. Len(jaroCmdQueue') <= 1 /\ Head(jaroCmdQueue').fn = fn
    BY <2>1, <2>2
  <2> QED BY <2>1, <2>3 DEF QueueCalm, Awaited
<1>8. ASSUME jaroCmdQueue = << >>, NEW fn \in Fns, NEW to \in SUBSET Channel \ {{}},
             RemotePress(fn, to)
      PROVE  QueueCalm'
  BY <1>2, <1>8 DEF QueueCalm, Awaited
<1>9. CASE /\ jaroCmdQueue = << >>
           /\ \E fn \in Fns, to \in SUBSET Channel \ {{}} : JaroCmd(fn, to) \/ RemotePress(fn, to)
  BY <1>7, <1>8, <1>9
<1>10. CASE RadioLoop
  <2>1. UNCHANGED <<jaroCmdQueue, dropped>>
    BY <1>10 DEF RadioLoop
  <2>2. CASE UNCHANGED shutter
    BY <1>0, <2>1, <2>2 DEF QueueCalm, Awaited
  <2>3. CASE ~UNCHANGED shutter
    <3>1. jaroCmdQueue = << >>
      BY <1>10, <2>3 DEF RadioLoop, WorldInv, AirCalm
    <3>2. \A c \in Channel : ~shutter'[c].pendingMove
      BY <1>10, <3>1, NobodyWaits, TelegramFrame DEF Quiet, NotPending
    <3> QED BY <1>0, <2>1, <3>2 DEF QueueCalm, Awaited
  <2> QED BY <2>2, <2>3
<1> QED BY <1>3, <1>4, <1>5, <1>6, <1>9, <1>10

\* A tick turns the motors, of channels in step and of those out of step.
LEMMA TickKept ==
  ASSUME RealTravel, IInv, RunInv, WorldInv, Tick, place' = [c \in Channel |-> Driven(c)],
         NEW c \in Channel
  PROVE  Kept(c, DriftCost[c]) /\ place'[c] \in Position
<1>1. /\ shutter' = shutter /\ Followed(c)' = Followed(c)
      /\ now' = (now + 1) % Wrap /\ lag < MaxLag
      /\ place'[c] = Turned(motor[c], place[c])
  BY DEF Tick, Driven, Turned, Followed, air
<1>2. PICK k \in Nat : k = slack[c]
  BY OneChannel
<1>3. ClockOutlastsTravel /\ 2 * Full <= Wrap
  BY DEF RealTravel
<1>4. PICK q \in Position : q = Turned(motor[c], place[c])
  BY OneChannel, FullAssumption DEF Turned, Position
<1>5. CASE c \in told
  <2>1. Followed(c) = motor[c] /\ motor[c] # "SHADE"
    BY <1>5 DEF Followed, WorldInv, AirCalm
  <2>2. /\ Placed(shutter[c], Followed(c), q, (now + 1) % Wrap, k)
        /\ Near(shutter[c], q, (now + 1) % Wrap, k)
    BY <1>1, <1>2, <1>3, <1>4, <2>1, OneChannel, TickPlaced
  <2>3. k <= slack[c] + DriftCost[c]
    BY <1>2, OneChannel, CostType
  <2> QED BY <1>1, <1>4, <2>2, <2>3 DEF Kept
<1>6. CASE c \notin told
  <2>1. Followed(c) = "SHADE"
    BY <1>6 DEF Followed
  <2>2. q <= place[c] + 1 /\ place[c] <= q + 1
    BY <1>4, OneChannel, FullAssumption DEF Turned, Position
  <2>3. /\ Placed(shutter[c], "SHADE", q, (now + 1) % Wrap, k + 2)
        /\ Near(shutter[c], q, (now + 1) % Wrap, k + 2)
    BY <1>1, <1>2, <1>3, <2>1, <2>2, OneChannel, DriftPlaced
  <2>4. k + 2 <= slack[c] + DriftCost[c] /\ k + 2 \in Nat
    BY <1>2, <1>6, OneChannel, CostType
  <2> QED BY <1>1, <1>4, <2>1, <2>3, <2>4 DEF Kept
<1> QED BY <1>5, <1>6

\* A restart forgets every position.
LEMMA RestartKept ==
  ASSUME RealTravel, IInv, RunInv, WorldInv, Restart, UNCHANGED place, NEW c \in Channel
  PROVE  Kept(c, StopCost[c])
<1>1. shutter'[c] = PowerUp(shutter[c]) /\ shutter[c] \in ChannelState
  BY OneChannel DEF Restart
<1>2. /\ TravelSame(shutter[c], shutter'[c]) /\ ~shutter'[c].moving
      /\ shutter'[c].pos = UNKNOWN /\ shutter'[c].stopAtMs = 0 /\ ~shutter'[c].active
  BY <1>1 DEF PowerUp, TravelSame, ChannelState
<1>3. /\ Placed(shutter[c], Followed(c), place[c], now, slack[c])
      /\ slack[c] \in Nat /\ StopCost[c] \in Nat
  BY OneChannel, CostType
<1>4. Placed(shutter'[c], Followed(c)', place'[c], now', slack[c])
  BY <1>1, <1>2, <1>3 DEF Placed, TravelSame, EndInSight, Found, Aimed
<1>5. EstimatePos(shutter'[c], now') = UNKNOWN
  BY <1>2 DEF EstimatePos
<1>6. slack[c] <= slack[c] + StopCost[c]
  BY <1>3
<1> QED BY <1>3, <1>4, <1>5, <1>6 DEF Kept, Near

\* Every step: what it cost is spent, and no more was lost.
LEMMA EveryKept ==
  ASSUME RealTravel, IInv, RunInv, WorldInv, WorldNext, NEW c \in Channel
  PROVE  /\ place'[c] \in Position
         /\ \/ Kept(c, DriftCost[c]) /\ Spend(DriftCost)
            \/ Kept(c, StopCost[c]) /\ Spend(StopCost)
<1>0. /\ place[c] \in Position /\ Calm /\ StopCost[c] \in Nat
      /\ Placed(shutter[c], Followed(c), place[c], now, slack[c])
  BY OneChannel, CostType DEF RealTravel
<1>1. CASE Tick /\ place' = [d \in Channel |-> Driven(d)] /\ Spend(DriftCost)
  BY <1>1, TickKept
<1>2. ASSUME CyclicPass \/ SendPass, UNCHANGED place
      PROVE  Kept(c, StopCost[c])
  BY <1>0, <1>2, PassKept
<1>3. ASSUME Restart, UNCHANGED place
      PROVE  Kept(c, StopCost[c])
  BY <1>0, <1>3, RestartKept
<1>4. ASSUME SessionLost \/ SessionUp, UNCHANGED place
      PROVE  Kept(c, StopCost[c])
  <2>1. UNCHANGED <<shutter, now>> /\ Followed(c)' = Followed(c)
    BY <1>4 DEF SessionLost, SessionUp, Followed, air
  <2> QED BY <1>0, <1>4, <2>1, KeptByHandler
<1>5. ASSUME NEW fn \in Fns, NEW to \in SUBSET Channel \ {{}}, JaroCmd(fn, to), UNCHANGED place
      PROVE  Kept(c, StopCost[c])
  <2>1. UNCHANGED <<shutter, now>> /\ Followed(c)' = Followed(c)
    BY <1>5 DEF JaroCmd, Untimed, Followed, air
  <2> QED BY <1>0, <1>5, <2>1, KeptByHandler
<1>6. ASSUME NEW fn \in Fns, NEW to \in SUBSET Channel \ {{}}, RemotePress(fn, to),
             UNCHANGED place
      PROVE  Kept(c, StopCost[c])
  BY <1>6, PressKept
<1>7. ASSUME NEW d \in Channel, NEW pct \in Position, SetTarget(d, pct),
             UNCHANGED place, jaroCmdQueue = << >>
      PROVE  Kept(c, StopCost[c])
  BY <1>7, SetTargetKept
<1>8. ASSUME RadioLoop, UNCHANGED place
      PROVE  Kept(c, StopCost[c])
  BY <1>8, RadioKept
<1> QED BY <1>0, <1>1, <1>2, <1>3, <1>4, <1>5, <1>6, <1>7, <1>8 DEF WorldNext, UserInput

\* WorldInv is inductive.
LEMMA WorldStep ==
  ASSUME RealTravel, IInv, RunInv, PendingHasTelegram, WorldInv, [WorldNext]_worldVars
  PROVE  WorldInv'
<1>1. CASE UNCHANGED worldVars
  <2>1. /\ UNCHANGED <<shutter, jaroCmdQueue, heard, told, motor, dropped, now, place, slack>>
        /\ \A c : Followed(c)' = Followed(c)
    BY <1>1 DEF worldVars, vars, air, Followed
  <2> QED BY <2>1 DEF WorldInv, QueueCalm, AirCalm, Awaited
<1>2. CASE WorldNext
  <2>1. ASSUME NEW c \in Channel
        PROVE  /\ place'[c] \in Position /\ slack'[c] \in 0 .. Full
               /\ Placed(shutter'[c], Followed(c)', place'[c], now', slack'[c])
               /\ Near(shutter'[c], place'[c], now', slack'[c])
    <3>1. /\ place'[c] \in Position
          /\ \/ Kept(c, DriftCost[c]) /\ Spend(DriftCost)
             \/ Kept(c, StopCost[c]) /\ Spend(StopCost)
      BY <1>2, EveryKept
    <3>2. DriftCost[c] \in Nat /\ StopCost[c] \in Nat /\ slack[c] \in Nat
      BY OneChannel, CostType
    <3>3. shutter'[c] \in ChannelState /\ now' \in Time
      BY WorldNextIsNext, NextIInv DEF IInv, TypeOK
    <3> QED BY <3>1, <3>2, <3>3, Counted
  <2>2. place' \in [Channel -> Position] /\ slack' \in [Channel -> 0 .. Full]
    <3>1. place' = [c \in Channel |-> place'[c]] /\ slack' = [c \in Channel |-> slack'[c]]
      BY <1>2, Zenon DEF WorldNext, WorldInv, Spend
    <3> QED BY <2>1, <3>1, Zenon
  <2>3. QueueCalm'
    <3>1. ASSUME NEW d \in Channel, NEW pct \in Position, SetTarget(d, pct),
                 jaroCmdQueue = << >>, UNCHANGED place
          PROVE  QueueCalm'
      BY <3>1, SetTargetKept DEF QueueCalm
    <3>2. Calm
      BY DEF RealTravel
    <3> QED BY <1>2, <3>1, <3>2, QueueStaysCalm DEF WorldNext, UserInput
  <2>4. AirCalm'
    BY <1>2, AirStaysCalm
  <2> QED BY <2>1, <2>2, <2>3, <2>4 DEF WorldInv
<1> QED BY <1>1, <1>2

\* With real travel times the estimate is off by at most the latency of one loop
\* pass for every timed stop, and two positions for every tick the channel was out
\* of step with its motor, since the last end-stop, for every number of channels,
\* travel time, clock width and latency: banking, retargeting, reversing, sending
\* late, being told late, restarting and the wrap of millis() cost nothing more
\* (shutterPosSetTarget, startMovement, shutterPosCyclic).
THEOREM WithinLatency ==
  ASSUME RealTravel
  PROVE  WorldSpec => []EstimateWithinLatency
<1>1. WorldInit => Init
  BY DEF WorldInit
<1>2. [WorldNext]_worldVars => [Next]_vars /\ [UploadsAtRest]_vars
  BY WorldNextIsNext DEF RealTravel, UploadsAtRest
<1>3. WorldSpec => Spec /\ [][UploadsAtRest]_vars
  BY <1>1, <1>2, PTL DEF WorldSpec, Spec
<1>4. WorldInit => WorldInv
  <2> SUFFICES ASSUME WorldInit PROVE WorldInv
    OBVIOUS
  <2>1. PICK t \in [Channel -> TravelTimes] :
          shutter = [c \in Channel |-> PowerUp(Unpowered(t[c]))]
    BY DEF WorldInit, Init
  <2>2. ASSUME NEW c \in Channel
        PROVE  /\ Placed(shutter[c], Followed(c), place[c], now, slack[c])
               /\ ~shutter[c].moving /\ shutter[c].pos = UNKNOWN /\ ~shutter[c].pendingMove
               /\ motor[c] # "SHADE"
    <3>1. shutter[c] = PowerUp(Unpowered(t[c])) /\ t[c][1] = Full /\ t[c][2] = Full
      BY <2>1 DEF RealTravel
    <3>2. /\ shutter[c].travelDown = Full /\ shutter[c].travelUp = Full /\ ~shutter[c].active
          /\ ~shutter[c].moving /\ shutter[c].pos = UNKNOWN /\ ~shutter[c].pendingMove
          /\ shutter[c].stopAtMs = 0
      BY <3>1 DEF PowerUp, Unpowered
    <3>3. motor[c] = "STOP"
      BY DEF WorldInit, Init
    <3> QED BY <3>2, <3>3 DEF Placed, EndInSight, Found, Aimed
  <2>3. ASSUME NEW c \in Channel
        PROVE  Near(shutter[c], place[c], now, slack[c]) /\ Awaited(c)
    BY <2>2 DEF Near, EstimatePos, Awaited
  <2>4. /\ jaroCmdQueue = << >> /\ heard = << >> /\ dropped = {}
        /\ place \in [Channel -> Position] /\ slack = [c \in Channel |-> 0]
    BY DEF WorldInit, Init
  <2>5. slack \in [Channel -> 0 .. Full]
    BY <2>4, FullAssumption
  <2>6. QueueCalm /\ AirCalm
    BY <2>2, <2>3, <2>4 DEF QueueCalm, AirCalm
  <2> QED BY <2>2, <2>3, <2>4, <2>5, <2>6 DEF WorldInv
<1>5. IInv /\ RunInv /\ PendingHasTelegram /\ WorldInv /\ [WorldNext]_worldVars => WorldInv'
  BY WorldStep
<1>6. WorldInv => EstimateWithinLatency
  BY DEF WorldInv, Near, EstimateWithinLatency
<1>7. ClockOutlastsTravel
  BY DEF RealTravel
<1>8. Spec /\ [][UploadsAtRest]_vars => []RunInv
  BY <1>7, RunHolds
<1> QED BY <1>3, <1>4, <1>5, <1>6, <1>8, InvariantHolds, PendingQueued, PTL DEF WorldSpec
=============================================================================

---------------------------- MODULE ShutterWorld ----------------------------
(***************************************************************************)
(* The tracker of ShutterPos beside the shutters it cannot see.  place is  *)
(* where a curtain really stands; the motor moves it one position per tick *)
(* in the direction of the last telegram, and its limit switches hold it   *)
(* at the ends.  The configured travel times are the real ones.            *)
(*                                                                         *)
(* The question is the one the feature stands or falls with: how far can   *)
(* the estimate drift from the shutter?  Accuracy may be lost by a timed   *)
(* stop, at most the latency of one loop pass, and while the tracker is    *)
(* out of step with the motor: from a press of a remote to its             *)
(* notification, or, if the press was not heard or was overtaken, to the   *)
(* next telegram.  A run into an end-stop repairs it.                      *)
(***************************************************************************)
EXTENDS ShutterPos

CONSTANT Calm    \* users wait until nothing is queued or heard before the next input

ASSUME CalmAssumption == Calm \in BOOLEAN

VARIABLES
  place,         \* per channel: the Position where its curtain really stands
  slack          \* per channel: the error explained since the estimate was last exact

worldVars == <<vars, place, slack>>

WorldInit == Init /\ place \in [Channel -> Position] /\ slack = [c \in Channel |-> 0]

\* One tick of motor travel, ended by the limit switches.
Driven(c) ==
  CASE motor[c] = "DOWN" /\ place[c] > 0    -> place[c] - 1
    [] motor[c] = "UP"   /\ place[c] < Full -> place[c] + 1
    [] OTHER                                -> place[c]

\* The tracker rests at an end and the shutter is there.
Exact(c) ==
  ~shutter'[c].moving /\ shutter'[c].pos \in Ends /\ place'[c] = shutter'[c].pos

\* A pass found the deadline of the channel passed.
TimedStop(c) ==
  \/ CyclicPass /\ StopDue(shutter[c], now)
  \/ SendPass /\ StopDue(AllNotified(Head(jaroCmdQueue))[c], now)

\* What a step adds to the error, which is never more than the whole way.
Spend(cost) ==
  slack' = [c \in Channel |->
              IF Exact(c) THEN 0
              ELSE IF slack[c] + cost[c] > Full THEN Full ELSE slack[c] + cost[c]]

\* One pass of the loop is what a timed stop may be late.
StopCost == [c \in Channel |-> IF TimedStop(c) THEN MaxLag ELSE 0]

\* Out of step, estimate and curtain may run apart by one position each in a tick.
DriftCost == [c \in Channel |-> IF c \in told THEN 0 ELSE 2]

\* The inputs of an operator who has calibrated and does not recalibrate.
UserInput ==
  \/ \E fn \in Fns, to \in SUBSET Channel \ {{}} : JaroCmd(fn, to) \/ RemotePress(fn, to)
  \/ \E c \in Channel, pct \in Position : SetTarget(c, pct)

WorldNext ==
  \/ Tick /\ place' = [c \in Channel |-> Driven(c)] /\ Spend(DriftCost)
  \/ /\ \/ CyclicPass \/ SendPass \/ RadioLoop \/ Restart \/ SessionLost \/ SessionUp
        \/ UserInput /\ (Calm => jaroCmdQueue = <<>> /\ heard = <<>>)
     /\ UNCHANGED place /\ Spend(StopCost)

WorldSpec == WorldInit /\ [][WorldNext]_worldVars

-----------------------------------------------------------------------------
Distance(a, b) == IF a < b THEN b - a ELSE a - b

\* The estimate is off by no more than the loop latency per timed stop and twice
\* the time out of step, since the last end-stop: banking, retargeting, reversing,
\* sending late, being told late and wrapping clocks cost nothing more.
EstimateWithinLatency ==
  \A c \in Channel : LET est == EstimatePos(shutter[c], now) IN
    est # UNKNOWN => Distance(est, place[c]) <= slack[c]

\* The instance the question is asked of: the travel times are the real ones and
\* nobody changes them, nobody asks for SHADE (which the tracker does not
\* follow), users wait for the queue, and the half of the clock that tells a
\* passed deadline from one ahead outlasts a travel.
RealTravel ==
  /\ \A t \in TravelTimes : t[1] = Full /\ t[2] = Full
  /\ Uploads = {}
  /\ "SHADE" \notin Fns
  /\ Calm
  /\ MaxCmd > 0
  /\ ClockOutlastsTravel
  /\ 2 * Full <= Wrap
=============================================================================

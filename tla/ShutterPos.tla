----------------------------- MODULE ShutterPos -----------------------------
(***************************************************************************)
(* The shutter side of the firmware's loop(): the position tracker of all  *)
(* channels (src/src/shutterPos.cpp) together with the command queue that  *)
(* feeds the radio (src/src/jarolift.cpp).  Both run in the one loop task, *)
(* so an action is a whole handler.  Around them stand the users (MQTT,    *)
(* WebUI, timers, wall remotes), the clock, the broker session and, for    *)
(* every channel, the receiver in the motor.                               *)
(*                                                                         *)
(* A handler happens at one instant; the time the radio and the other      *)
(* tasks of loop() take is the Tick steps between two handlers, of which   *)
(* at most MaxLag fall between two passes of jaroliftCyclic.               *)
(*                                                                         *)
(* A press of a wall remote is obeyed at once but told to the tracker only *)
(* when jarolift.loop(), at the end of a pass, takes its frame; until then *)
(* the frame waits, and other telegrams may overtake it.  The history      *)
(* variable told and the late sets of the frames record this; they         *)
(* restrict no action.                                                     *)
(*                                                                         *)
(* An operator marked "Slip" is a plausible bug in the definition below    *)
(* it, and used by no specification.                                       *)
(***************************************************************************)
EXTENDS ShutterTracker, Sequences, FiniteSets

CONSTANTS
  Channel,       \* the shutter channels, 16 in the code
  Fns,           \* the telegrams users and remotes ask for
  TravelTimes,   \* the <<down, up>> travel times a configuration can hold
  Uploads,       \* those a configuration uploaded at run time can hold
  Shade,         \* POS_SHADE, 10 in the code
  Faults,        \* disturbances of this instance: "restart", "session"
  MaxCmd,        \* MAX_CMD, the capacity of jaroCmdQueue, 20 in the code
  MaxLag,        \* bound: ticks between two passes of the loop
  MaxInputs      \* bound: inputs and faults from outside in one behaviour

Moves == {"UP", "DOWN"}

ASSUME FnsAssumption     == Fns \subseteq Moves \cup {"STOP", "SHADE", "OTHER"}
ASSUME TravelAssumption  == /\ TravelTimes \subseteq Nat \X Nat
                            /\ Uploads \subseteq Nat \X Nat
ASSUME ShadeAssumption   == Shade \in Position
ASSUME FaultsAssumption  == Faults \subseteq {"restart", "session"}
ASSUME QueueAssumption   == MaxCmd \in Nat

VARIABLES
  shutter,        \* the state of every channel, see ShutterTracker
  jaroCmdQueue,   \* the commands waiting for the radio
  radioDue,       \* jaroliftCyclic is past its sweep, jarolift.loop() comes next
  heard,          \* frames of remotes that wait: the parked one, then the live one
  told,           \* channels of whose latest telegram the tracker was told last
  motor,          \* the last drive telegram the receiver of a channel obeyed
  online,         \* the broker session: mqttIsConnected()
  now,            \* millis()
  lag,            \* ticks since the last pass of jaroliftCyclic
  dropped,        \* channels a movement command was dropped for: queue full
  inputs          \* inputs so far, only to bound the model

air  == <<heard, told>>
vars == <<shutter, jaroCmdQueue, radioDue, air, motor, online, now, lag, dropped, inputs>>

Command == [fn : Moves \cup {"STOP", "SHADE", "OTHER"}, to : SUBSET Channel]
Drives  == Moves \cup {"STOP", "SHADE"}       \* telegrams a motor acts on

\* A frame that waits; late are the channels sent another telegram since.
HeardFrame ==
  [fn : Drives, to : SUBSET Channel, late : SUBSET Channel]
Places  == 2                                  \* the parked frame and the live one

TypeOK ==
  /\ shutter \in [Channel -> ChannelState]
  /\ jaroCmdQueue \in Seq(Command) /\ Len(jaroCmdQueue) <= MaxCmd
  /\ radioDue \in BOOLEAN
  /\ heard \in Seq(HeardFrame) /\ Len(heard) <= Places
  /\ told \in SUBSET Channel
  /\ motor \in [Channel -> Drives]
  /\ online \in BOOLEAN
  /\ now \in Time
  /\ lag \in Nat
  /\ dropped \in SUBSET Channel
  /\ inputs \in Nat

-----------------------------------------------------------------------------
\* A configured channel before its first set up.
Unpowered(t) ==
  [ pos |-> UNKNOWN, posAtStart |-> UNKNOWN, target |-> EndStop, startMs |-> 0,
    stopAtMs |-> 0, moving |-> FALSE, goingDown |-> FALSE, pendingMove |-> FALSE,
    active |-> FALSE, measuring |-> FALSE, calDown |-> FALSE, calStartMs |-> 0,
    travelDown |-> t[1], travelUp |-> t[2], shown |-> UNKNOWN ]

Init ==
  /\ \E t \in [Channel -> TravelTimes] : shutter = [c \in Channel |-> PowerUp(Unpowered(t[c]))]
  /\ jaroCmdQueue = <<>>
  /\ radioDue = FALSE
  /\ heard = <<>>
  /\ told = Channel
  /\ motor = [c \in Channel |-> "STOP"]
  /\ online = FALSE
  /\ now = 0
  /\ lag = 0
  /\ dropped = {}
  /\ inputs = 0

Input == inputs < MaxInputs /\ inputs' = inputs + 1

\* What a handler leaves alone when it only works on the channels.
Untimed == UNCHANGED <<online, now, lag, radioDue>>

\* Handlers of loop() that run between two passes of jaroliftCyclic.
BetweenPasses == ~radioDue

-----------------------------------------------------------------------------
(* The air.  A telegram of the controller overtakes every frame that still *)
(* waits, and wipes the one that is not parked (attachRxInterrupt), unless *)
(* the remote is held and repeats it.                                      *)

Overtaken(frames, to) ==
  [i \in 1 .. Len(frames) |-> [frames[i] EXCEPT !.late = @ \cup (to \cap frames[i].to)]]

Transmit(to) ==
  /\ told' = told \cup to
  /\ \E n \in {Len(heard), Len(heard) - 1} \cap Nat :
       heard' = Overtaken(SubSeq(heard, 1, n), to)

\* The channels a command of the queue sends a drive telegram to.
Reached(cmd) == IF cmd.fn \in Drives THEN cmd.to ELSE {}

-----------------------------------------------------------------------------
(* The command queue: jaroCmd drops a command when the queue is full.      *)

\* Slip: one command more than the queue may hold.
EnqueueOneMore(cmd) ==
  IF Len(jaroCmdQueue) <= MaxCmd
  THEN /\ jaroCmdQueue' = Append(jaroCmdQueue, cmd)
       /\ UNCHANGED dropped
  ELSE UNCHANGED <<jaroCmdQueue, dropped>>

Enqueue(cmd) ==
  IF Len(jaroCmdQueue) < MaxCmd
  THEN /\ jaroCmdQueue' = Append(jaroCmdQueue, cmd)
       /\ UNCHANGED dropped
  ELSE /\ UNCHANGED jaroCmdQueue
       /\ dropped' = IF cmd.fn \in Moves THEN dropped \cup cmd.to ELSE dropped

DriveCmd(down, c) == [fn |-> IF down THEN "DOWN" ELSE "UP", to |-> {c}]

\* A plain or a group command of MQTT, the WebUI or, between the sweep and
\* jarolift.loop(), a timer.
JaroCmd(fn, to) ==
  /\ Input
  /\ Enqueue([fn |-> fn, to |-> to])
  /\ Untimed /\ UNCHANGED <<shutter, air, motor>>

-----------------------------------------------------------------------------
(* The tracker's answer to a telegram that is on the air.                  *)

\* Slip: an UP telegram is not reported to the tracker.
NotifiedButUp(s, fn, t) ==
  CASE fn = "DOWN"  -> StartMovement(s, TRUE, t, online)
    [] fn = "STOP"  -> NotifyStop(s, t, online)
    [] fn = "SHADE" -> Publish(s, Shade, online)
    [] OTHER        -> s

Notified(s, fn, t) ==
  CASE fn = "DOWN"  -> StartMovement(s, TRUE, t, online)
    [] fn = "UP"    -> StartMovement(s, FALSE, t, online)
    [] fn = "STOP"  -> NotifyStop(s, t, online)
    [] fn = "SHADE" -> Publish(s, Shade, online)
    [] OTHER        -> s

AllNotified(cmd) ==
  [c \in Channel |-> IF c \in cmd.to THEN Notified(shutter[c], cmd.fn, now) ELSE shutter[c]]

Obeyed(cmd) ==
  [c \in Channel |-> IF c \in cmd.to /\ cmd.fn \in Drives THEN cmd.fn ELSE motor[c]]

\* A press of a configured remote: the receivers obey, and the controller hears
\* it or not.  What it hears is the newest frame; a live one of before is lost.
RemotePress(fn, to) ==
  /\ Input
  /\ fn \in Drives
  /\ motor' = Obeyed([fn |-> fn, to |-> to])
  /\ told' = told \ to
  /\ LET waiting == Overtaken(heard, to)
         kept    == IF Len(waiting) < Places THEN waiting ELSE SubSeq(waiting, 1, Places - 1)
     IN  heard' \in {waiting, Append(kept, [fn |-> fn, to |-> to, late |-> {}])}
  /\ Untimed /\ UNCHANGED <<shutter, jaroCmdQueue, dropped>>

\* jarolift.loop(): at most one frame is taken, and the tracker told of it.
RadioLoop ==
  /\ radioDue /\ radioDue' = FALSE
  /\ \/ /\ heard # <<>>
        /\ LET f == Head(heard) IN
             /\ shutter' = AllNotified(f)
             /\ told' = (told \ f.to) \cup (f.to \ f.late)
        /\ heard' = Tail(heard)
     \/ /\ Len(heard) < Places          \* what waits has not been seen to end
        /\ UNCHANGED <<shutter, air>>
  /\ UNCHANGED <<jaroCmdQueue, motor, online, now, lag, dropped, inputs>>

\* shutterPosCyclic over all channels: due stops are sent and settled.
Swept(sh) == [c \in Channel |-> CyclicChannel(sh[c], now, online)]

Stopped(sh, m) == [c \in Channel |-> IF StopDue(sh[c], now) THEN "STOP" ELSE m[c]]

\* The channels the sweep sends a STOP to.
Halted(sh) == {c \in Channel : StopDue(sh[c], now)}

\* A pass begins: it gets as far as the sweep, jarolift.loop() is left.
PassBegins == ~radioDue /\ radioDue' = TRUE /\ lag' = 0

\* jaroliftCyclic while the send timer is not due, or nothing waits.
CyclicPass ==
  /\ PassBegins
  /\ shutter' = Swept(shutter)
  /\ motor' = Stopped(shutter, motor)
  /\ IF Halted(shutter) = {} THEN UNCHANGED air ELSE Transmit(Halted(shutter))
  /\ UNCHANGED <<jaroCmdQueue, online, now, dropped, inputs>>

\* jaroliftCyclic when it takes a command: transmit, notify, then the sweep.
SendPass ==
  /\ PassBegins
  /\ jaroCmdQueue # <<>>
  /\ LET cmd == Head(jaroCmdQueue) IN
       /\ shutter' = Swept(AllNotified(cmd))
       /\ motor' = Stopped(AllNotified(cmd), Obeyed(cmd))
       /\ Transmit(Reached(cmd) \cup Halted(AllNotified(cmd)))
  /\ jaroCmdQueue' = Tail(jaroCmdQueue)
  /\ UNCHANGED <<online, now, dropped, inputs>>

-----------------------------------------------------------------------------
(* shutterPosSetTarget, one disjunct per way through it.                   *)

StopMotor(c) == motor' = [motor EXCEPT ![c] = "STOP"] /\ Transmit({c})
SendNothing  == UNCHANGED <<motor, air>>
Update(c, s) == shutter' = [shutter EXCEPT ![c] = s]

SetTarget(c, pct) ==
  LET s == shutter[c]
      b == Bank(s, now)
      here   == pct \notin Ends /\ b.pos = pct
      refuse == pct \notin Ends /\ b.pos = UNKNOWN
      onWay  == b.moving /\ b.goingDown = NeedsDown(b, pct)
  IN  /\ Input /\ BetweenPasses
      /\ Calibrated(s)
      /\ \/ /\ here /\ ~b.moving
            /\ SendNothing /\ UNCHANGED <<shutter, jaroCmdQueue, dropped>>
         \/ /\ here /\ b.moving
            /\ StopMotor(c)
            /\ Update(c, SettleAt(b, b.pos, online))
            /\ UNCHANGED <<jaroCmdQueue, dropped>>
         \/ /\ refuse
            /\ Update(c, b)
            /\ SendNothing /\ UNCHANGED <<jaroCmdQueue, dropped>>
         \/ /\ ~here /\ ~refuse /\ onWay
            /\ Update(c, Retarget(b, pct, now))
            /\ SendNothing /\ UNCHANGED <<jaroCmdQueue, dropped>>
         \/ /\ ~here /\ ~refuse /\ ~onWay
            /\ IF b.moving THEN StopMotor(c) ELSE SendNothing
            /\ Update(c, Redirect(b, pct))
            /\ Enqueue(DriveCmd(NeedsDown(b, pct), c))
      /\ Untimed

-----------------------------------------------------------------------------
(* The calibration run.                                                    *)

CalibStart(c, down) ==
  /\ Input /\ BetweenPasses
  /\ ~shutter[c].active
  /\ IF shutter[c].moving THEN StopMotor(c) ELSE SendNothing
  /\ Update(c, BeginCalibration(shutter[c], down, now, online))
  /\ Enqueue(DriveCmd(down, c))
  /\ Untimed

CalibFinish(c) ==
  /\ Input /\ BetweenPasses
  /\ shutter[c].active
  /\ IF Plausible(shutter[c], now)
     THEN /\ Update(c, StoreMeasurement(shutter[c], now, online))
          /\ SendNothing
     ELSE /\ Update(c, AbortCalibration(shutter[c]))
          /\ IF shutter[c].measuring THEN StopMotor(c) ELSE SendNothing
  /\ Untimed /\ UNCHANGED <<jaroCmdQueue, dropped>>

CalibAbort(c) ==
  /\ Input /\ BetweenPasses
  /\ shutter[c].active
  /\ Update(c, AbortCalibration(shutter[c]))
  /\ IF shutter[c].measuring THEN StopMotor(c) ELSE SendNothing
  /\ Untimed /\ UNCHANGED <<jaroCmdQueue, dropped>>

-----------------------------------------------------------------------------
(* The surroundings.                                                       *)

\* configLoadFromFile after an upload: the travel times change under way.
ConfigUpload(c, t) ==
  /\ Input
  /\ Update(c, [shutter[c] EXCEPT !.travelDown = t[1], !.travelUp = t[2]])
  /\ Untimed /\ SendNothing /\ UNCHANGED <<jaroCmdQueue, dropped>>

\* A restart loses the tracker, the queue and what was heard; motors,
\* configuration and the broker's retained topic stay as they are.
Restart ==
  /\ Input /\ "restart" \in Faults
  /\ shutter' = [c \in Channel |-> PowerUp(shutter[c])]
  /\ jaroCmdQueue' = <<>>
  /\ radioDue' = FALSE
  /\ heard' = <<>>
  /\ told' = Channel                    \* it believes nothing, so nothing outdated
  /\ dropped' = {}
  /\ online' = FALSE
  /\ now' = 0 /\ lag' = 0
  /\ UNCHANGED motor

SessionLost ==
  /\ Input /\ "session" \in Faults
  /\ online /\ online' = FALSE
  /\ UNCHANGED <<shutter, jaroCmdQueue, radioDue, air, motor, now, lag, dropped>>

SessionUp ==
  /\ ~online /\ online' = TRUE
  /\ UNCHANGED <<shutter, jaroCmdQueue, radioDue, air, motor, now, lag, dropped, inputs>>

Tick ==
  /\ lag < MaxLag
  /\ now' = (now + 1) % Wrap
  /\ lag' = lag + 1
  /\ UNCHANGED <<shutter, jaroCmdQueue, radioDue, air, motor, online, dropped, inputs>>

Next ==
  \/ CyclicPass
  \/ SendPass
  \/ RadioLoop
  \/ Tick
  \/ \E fn \in Fns, to \in SUBSET Channel \ {{}} : JaroCmd(fn, to) \/ RemotePress(fn, to)
  \/ \E c \in Channel, pct \in Position : SetTarget(c, pct)
  \/ \E c \in Channel, down \in BOOLEAN : CalibStart(c, down)
  \/ \E c \in Channel : CalibFinish(c) \/ CalibAbort(c)
  \/ \E c \in Channel, t \in Uploads : ConfigUpload(c, t)
  \/ Restart
  \/ SessionLost
  \/ SessionUp

Spec == Init /\ [][Next]_vars

\* loop() keeps running: time passes, passes begin and go on to jarolift.loop(),
\* and in some of all the passes the send timer has expired.
FairSpec ==
  Spec /\ WF_vars(Tick) /\ WF_vars(CyclicPass) /\ WF_vars(RadioLoop) /\ SF_vars(SendPass)

-----------------------------------------------------------------------------
(* What may be relied upon.                                                *)

Direction(s) == IF s.goingDown THEN "DOWN" ELSE "UP"

\* The tracker believes in a movement only while the motor really was sent in
\* that direction: no order of commands, remotes, stops and sweeps takes a channel
\* out of step whose latest telegram the tracker was told last (startMovement and
\* every jaroStopNow).  Out of step, until its next telegram, is a channel whose
\* remote was not heard, or heard so late that another telegram had overtaken the
\* press.  SHADE is the one telegram the tracker does not follow.
TrackerFollowsMotor ==
  \A c \in told :
    shutter[c].moving /\ motor[c] # "SHADE" => motor[c] = Direction(shutter[c])

\* A channel reported at rest part way was really told to stop, under the same
\* condition; at an end-stop the limit switch may do it (settleAt, its callers).
RestsOnlyWhenStopped ==
  \A c \in told :
    ~shutter[c].moving /\ shutter[c].pos \in Between /\ motor[c] # "SHADE"
      => motor[c] = "STOP"

\* A timed stop is armed only for a running, ordinary movement from a known
\* position to a target part way (stopAtMs, line 26).
ArmedStopHasTarget ==
  \A c \in Channel : LET s == shutter[c] IN
    s.stopAtMs # 0 => /\ s.moving /\ ~s.active
                      /\ s.target \in Between
                      /\ s.pos # UNKNOWN /\ s.posAtStart # UNKNOWN

\* The inductive invariant behind the five invariants above and below.  For one
\* channel: what its record, and the telegram the tracker goes by, say about each
\* other.
ChannelConsistent(s, m) ==
  /\ s.pos = UNKNOWN <=> s.posAtStart = UNKNOWN
  /\ s.stopAtMs # 0 => s.moving /\ ~s.active /\ s.target \in Between /\ s.pos # UNKNOWN
  /\ s.measuring => s.active /\ s.pos = UNKNOWN
  /\ s.active /\ s.moving => s.measuring /\ s.calDown = s.goingDown
  /\ s.moving /\ m # "SHADE" => m = Direction(s)
  /\ ~s.moving /\ s.pos \in Between /\ m # "SHADE" => m = "STOP"

\* The telegram the tracker goes by: a channel that is out of step is like one that
\* was sent SHADE, about its motor nothing is known.
Followed(c) == IF c \in told THEN motor[c] ELSE "SHADE"

\* A frame that waits and was not overtaken is what the motors last obeyed.
FramesCurrent ==
  \A i \in 1 .. Len(heard) : \A c \in heard[i].to \ heard[i].late : motor[c] = heard[i].fn

\* So a channel gets back into step by the next telegram to it, whatever was lost.
Consistent ==
  /\ \A c \in Channel : ChannelConsistent(shutter[c], Followed(c))
  /\ FramesCurrent

\* No timed stop lies further ahead than one full travel, whatever was
\* retargeted and wherever millis() wraps (lines 190-202 and 360-366).
StopWithinOneTravel ==
  \A c \in Channel : LET s == shutter[c] IN
    s.stopAtMs # 0 => Elapsed(s.startMs, s.stopAtMs) <= TravelTime(s, s.goingDown)

\* While the stopwatch of a calibration runs nobody is told a position, and a
\* movement of a channel under calibration is the measured one (lines 140-158).
CalibrationClaimsNothing ==
  \A c \in Channel : LET s == shutter[c] IN
    /\ s.measuring => s.active /\ s.pos = UNKNOWN
    /\ s.active /\ s.moving => s.measuring /\ s.calDown = s.goingDown

\* An accepted target waits for a telegram that really is in the queue, unless
\* the full queue dropped it (lines 382-384 with jaroCmd).
PendingHasTelegram ==
  \A c \in Channel : shutter[c].pendingMove =>
    \/ c \in dropped
    \/ \E i \in 1 .. Len(jaroCmdQueue) :
         jaroCmdQueue[i].fn \in Moves /\ c \in jaroCmdQueue[i].to

\* An unknown position is resolved at an end-stop and nowhere else (line 339).
KnownOnlyAtEndStop ==
  [][\A c \in Channel :
       shutter[c].pos = UNKNOWN /\ shutter'[c].pos # UNKNOWN => shutter'[c].pos \in Ends]_vars

\* The reported estimate never moves against the direction of travel: not when
\* it is banked, not when the deadline moves, not when millis() wraps.
EstimateFollowsDirection ==
  [][\A c \in Channel : LET s == shutter[c] t == shutter'[c] IN
       s.moving /\ t.moving /\ s.goingDown = t.goingDown /\ s.pos # UNKNOWN /\ t.pos # UNKNOWN
         => IF s.goingDown THEN EstimatePos(t, now') <= EstimatePos(s, now)
                           ELSE EstimatePos(t, now') >= EstimatePos(s, now)]_vars

\* In a session every channel that comes to rest is published where it rests;
\* a channel stopped only to reverse is not (lines 124, 375-380).
RestIsPublished ==
  [][\A c \in Channel : LET s == shutter[c] t == shutter'[c] IN
       online /\ online' /\ s.moving /\ ~t.moving /\ ~t.pendingMove /\ t.pos # UNKNOWN
         => t.shown = t.pos]_vars

\* Every movement comes to rest by itself, but for a calibration run.
MovementEnds ==
  \A c \in Channel :
    shutter[c].moving /\ ~shutter[c].active ~> ~shutter[c].moving \/ shutter[c].active

\* Every accepted target is taken up by a telegram, unless it was dropped.
TargetTakenUp ==
  \A c \in Channel : shutter[c].pendingMove ~> ~shutter[c].pendingMove \/ c \in dropped

-----------------------------------------------------------------------------
(* What the theorems about time and estimate ask of an instance.           *)

\* The travel times a channel can come to hold: configured, uploaded, measured.
Durations ==
  {t[1] : t \in TravelTimes \cup Uploads} \cup {t[2] : t \in TravelTimes \cup Uploads}
    \cup CalibMin .. CalibMax

\* millis() goes around more slowly than any travel and the lag after it, and
\* the loop is quick enough for a passed deadline to be told from one ahead.
ClockOutlastsTravel ==
  /\ MaxLag \in Nat
  /\ 2 * MaxLag < Wrap
  /\ \A d \in Durations : d + MaxLag < Wrap /\ (d * UpNum) \div UpDen + MaxLag < Wrap
=============================================================================

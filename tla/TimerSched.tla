----------------------------- MODULE TimerSched ------------------------------
(***************************************************************************)
(* The timers (src/timer.cpp): timerCyclic() runs in every pass of loop(), *)
(* looks at the clock, and once in every minute compares it with the       *)
(* timers of the configuration.  A timer is due at a fixed time or at      *)
(* sunrise or sundown, moved by an offset and kept within limits.          *)
(*                                                                         *)
(* Nothing holds the clock or the loop to regular steps: the loop may be   *)
(* held up for minutes, NTP may set the clock either way, summer time      *)
(* moves the local time by an hour, the configuration is edited, and a     *)
(* restart forgets which minute was the last.  An operator marked "Slip"   *)
(* is a plausible bug in the definition below it.                          *)
(***************************************************************************)
EXTENDS Integers

CONSTANTS
  Timer,         \* 0 .. TIMER_COUNT - 1
  Setups,        \* timers a user may configure
  Hours, Minutes,\* 24 and 60 in the code
  Week,          \* 7
  Sun,           \* per event and day: local minute of the event, or NoEvent
  LastTime,      \* bound: end of the clock, in half minutes
  MaxDisturbed   \* bound: disturbances of any kind

Day     == Hours * Minutes
Half    == 2                         \* looks at the clock that fit in a minute
NoEvent == -30000                    \* DUSK2DAWN_NO_EVENT
Unused  == -1                        \* no limit, or not a valid time
Event   == {"SUNRISE", "SUNDOWN"}
Total   == 0 .. Day - 1

Settings == [enable : BOOLEAN, type : Event \cup {"FIXED_TIME"}, time : Total \cup {Unused},
             offset : Int, days : SUBSET (0 .. Week - 1),
             min : Total \cup {Unused}, max : Total \cup {Unused}]

ASSUME SizeAssumption ==
  /\ Hours \in Nat \ {0} /\ Minutes \in Nat \ {0} /\ Week \in Nat \ {0}
  /\ LastTime \in Nat /\ MaxDisturbed \in Nat
ASSUME SetupsAssumption == Setups \subseteq Settings /\ Setups # {}
ASSUME SunAssumption == Sun \in [Event -> [0 .. (LastTime \div Half + Minutes) \div Day -> Int]]

VARIABLES
  now,           \* the clock
  known,         \* it shows a year from 2025 on
  summer,        \* tm_isdst: local time is an hour ahead
  last,          \* lastProcessedTime
  timer,         \* config.timer
  executed,      \* timers executeCommand was called for in the last step
  count,         \* per timer: its commands since midnight
  calm,          \* nothing has disturbed the day since midnight, and its first
                 \* minute was not the last one already (a clock set back)
  disturbed      \* so far, only to bound the model

vars == <<now, known, summer, last, timer, executed, count, calm, disturbed>>

TypeOK ==
  /\ now \in 0 .. LastTime /\ known \in BOOLEAN /\ summer \in BOOLEAN
  /\ last \in 0 .. LastTime \cup {-1}
  /\ timer \in [Timer -> Setups] /\ executed \subseteq Timer
  /\ count \in [Timer -> Nat] /\ calm \in BOOLEAN
  /\ disturbed \in 0 .. MaxDisturbed

Minute(time) == IF time < 0 THEN Unused ELSE time \div Half

\* localtime_r.
Local == Minute(now) + (IF summer THEN Minutes ELSE 0)
Today == Local \div Day
Clock == Local % Day

Init ==
  /\ now = 0 /\ known = FALSE /\ summer = FALSE /\ last = -1
  /\ timer \in [Timer -> Setups]
  /\ executed = {} /\ count = [t \in Timer |-> 0] /\ calm = FALSE
  /\ disturbed = 0

-----------------------------------------------------------------------------
(* checkTimerTrigger.                                                      *)

\* An offset beyond a day is a typo.
Offset(s) == IF s.offset > Day THEN Day ELSE IF s.offset < -Day THEN -Day ELSE s.offset

\* Slip: hour and minute are limited one by one.
WithinApart(total, s) ==
  LET H(x) == x \div Minutes
      M(x) == x % Minutes
      hour == IF s.min # Unused /\ H(total) < H(s.min) THEN H(s.min)
              ELSE IF s.max # Unused /\ H(total) > H(s.max) THEN H(s.max) ELSE H(total)
      minute == IF s.min # Unused /\ M(total) < M(s.min) THEN M(s.min)
                ELSE IF s.max # Unused /\ M(total) > M(s.max) THEN M(s.max) ELSE M(total)
  IN hour * Minutes + minute

Within(total, s) ==
  LET raised == IF s.min # Unused /\ total < s.min THEN s.min ELSE total
  IN IF s.max # Unused /\ raised > s.max THEN s.max ELSE raised

\* Slip: only one day is added before the remainder is taken.
WrappedOnce(event, s) == IF event + Offset(s) < 0 THEN event + Offset(s) + Day ELSE event + Offset(s)

\* The sun keeps to no clock: in summer its events have a later time.
SunEvent(s) == Sun[s.type][Today] + (IF summer THEN Minutes ELSE 0)

\* getSunriseOrSunset: the event of the day, moved, as a time of the day.
Wrapped(event, s) == (event + Offset(s)) % Day

Due(s) ==
  IF s.type = "FIXED_TIME" THEN s.time # Unused /\ s.time = Clock
  ELSE /\ Sun[s.type][Today] # NoEvent
       /\ Within(Wrapped(SunEvent(s), s), s) = Clock

Triggered == {t \in Timer : LET s == timer[t] IN s.enable /\ Today % Week \in s.days /\ Due(s)}

-----------------------------------------------------------------------------
NewMinute == Minute(now) # Minute(last)

\* timerCyclic, in a pass of loop() that finds a new minute.
TimerCyclic ==
  /\ known /\ NewMinute
  /\ last' = now
  /\ executed' = Triggered
  /\ count' = [t \in Timer |-> IF t \in Triggered THEN count[t] + 1 ELSE count[t]]
  /\ UNCHANGED <<now, known, summer, timer, calm, disturbed>>

-----------------------------------------------------------------------------
(* The clock and the rest of the controller.                               *)

Reset == [t \in Timer |-> 0]

\* Time goes by.  A minute the loop did not see is a disturbance.
Tick ==
  /\ now < LastTime /\ now' = now + 1
  /\ UNCHANGED <<known, summer, last, timer>>
  /\ LET unseen == Minute(now') # Minute(now) /\ (~known \/ NewMinute)
         midnight == Today' # Today
     IN /\ calm' = IF midnight THEN Minute(last) # Minute(now') ELSE calm /\ ~unseen
        /\ count' = IF midnight THEN Reset ELSE count
        /\ disturbed' = IF unseen /\ calm THEN disturbed + 1 ELSE disturbed
  /\ disturbed' <= MaxDisturbed
  /\ executed' = {}

Disturbs ==
  /\ disturbed < MaxDisturbed /\ disturbed' = disturbed + 1
  /\ calm' = FALSE /\ executed' = {}
  /\ count' = IF Today' # Today THEN Reset ELSE count

\* NTP sets the clock, forwards or back.
SetClock ==
  /\ now' \in 0 .. LastTime /\ known' = TRUE
  /\ UNCHANGED <<summer, last, timer>>
  /\ Disturbs

SummerTime ==
  /\ summer' = ~summer
  /\ UNCHANGED <<now, known, last, timer>>
  /\ Disturbs

\* A configuration is edited, or uploaded.
Configure ==
  /\ timer' \in [Timer -> Setups]
  /\ UNCHANGED <<now, known, summer, last>>
  /\ Disturbs

\* A restart; the clock survives it unless the power was lost.
Restart ==
  /\ last' = -1 /\ known' \in {known, FALSE}
  /\ UNCHANGED <<now, summer, timer>>
  /\ Disturbs

Next == TimerCyclic \/ Tick \/ SetClock \/ SummerTime \/ Configure \/ Restart

Spec == Init /\ [][Next]_vars

-----------------------------------------------------------------------------
(* What may be relied upon.                                                *)

\* A timer that means this day has a time on it.
HasTime(s, day) ==
  /\ s.enable /\ day % Week \in s.days
  /\ IF s.type = "FIXED_TIME" THEN s.time # Unused ELSE Sun[s.type][day] # NoEvent

\* When a day ends on which the loop looked at every minute and nobody touched
\* the clock or the configuration, every timer has had exactly one command on it,
\* or none where the day is not one of its own or has no event: no offset, limit
\* or sun moves it out of the day or makes it come twice (lines 175-186, 251-289,
\* 298-327).
OncePerDay ==
  [][LET last_of_day == Today' = Today + 1 /\ now' = now + 1 /\ summer' = summer
         seen == known /\ ~NewMinute
     IN last_of_day /\ calm /\ seen =>
          \A t \in Timer : count[t] = IF HasTime(timer[t], Today) THEN 1 ELSE 0]_vars

\* A timer with limits never gives a command outside them, unless they contradict
\* each other (lines 274-284).
LimitsKept ==
  [][\A t \in executed' : LET s == timer[t] IN
       /\ s.enable /\ known
       /\ s.type # "FIXED_TIME" /\ (s.min = Unused \/ s.max = Unused \/ s.min <= s.max)
            => /\ s.min # Unused => Clock >= s.min
               /\ s.max # Unused => Clock <= s.max]_vars

\* A timer gives its command once a day and within its limits, both as said above.
DailyWithinLimits == OncePerDay /\ LimitsKept
=============================================================================

------------------------------ MODULE MCServices ------------------------------
(* What loop() and the AsyncTCP task do beside the commands, checked in one   *)
(* run: the timers, the log, firmware updates and the topics of MQTT.  They   *)
(* share no variable: a behaviour follows one of them from any of its initial *)
(* states, the others rest in a state of their own.                           *)
EXTENDS TimerSched, LogRing, FirmwareUpdate, MqttTopics

VARIABLE part

servicesVars == <<part, vars, logVars, fwVars, topicsVars>>

-----------------------------------------------------------------------------
(* The timers: days of two hours of three minutes, a week of two days, and    *)
(* one timer with any of a range of settings.                                 *)

\* An ordinary day, a polar day, a day whose sunrise is before midnight.
MCSun == [SUNRISE |-> [day \in 0 .. 3 |-> <<1, NoEvent, -2, 1>>[day + 1]],
          SUNDOWN |-> [day \in 0 .. 3 |-> <<4, 5, 7, NoEvent>>[day + 1]]]

Astro(type, offset, min, max) ==
  [enable |-> TRUE, type |-> type, time |-> Unused, offset |-> offset, days |-> {0, 1},
   min |-> min, max |-> max]
Fixed(time, days) ==
  [enable |-> TRUE, type |-> "FIXED_TIME", time |-> time, offset |-> 0, days |-> days,
   min |-> Unused, max |-> Unused]

MCSetups ==
  {Fixed(time, days) : time \in {Unused, 0, 5}, days \in {{0}, {0, 1}}}
  \cup {Astro(type, offset, limits[1], limits[2]) :
          type \in Event, offset \in {-7, -4, 0, 2},
          limits \in {<<Unused, Unused>>, <<2, 4>>, <<Unused, 1>>, <<5, 1>>}}
  \cup {[Fixed(3, {0}) EXCEPT !.enable = FALSE]}

-----------------------------------------------------------------------------
\* Where a part rests.
TimerRests == Init /\ timer = [t \in Timer |-> Fixed(0, {0})]
LogRests   == LogInit /\ ~newest
FwRests    == FwInit /\ ~setupMode

ServicesInit ==
  /\ part \in {"timer", "log", "firmware", "topics"}
  /\ IF part = "timer" THEN Init ELSE TimerRests
  /\ IF part = "log" THEN LogInit ELSE LogRests
  /\ IF part = "firmware" THEN FwInit ELSE FwRests
  /\ TopicsInit

ServicesNext ==
  \/ part = "timer" /\ Next /\ UNCHANGED <<part, logVars, fwVars, topicsVars>>
  \/ part = "log" /\ LogNext /\ UNCHANGED <<part, vars, fwVars, topicsVars>>
  \/ part = "firmware" /\ FwNext /\ UNCHANGED <<part, vars, logVars, topicsVars>>
  \/ part = "topics" /\ TopicsNext /\ UNCHANGED <<part, vars, logVars, fwVars>>

ServicesSpec == ServicesInit /\ [][ServicesNext]_servicesVars
=============================================================================

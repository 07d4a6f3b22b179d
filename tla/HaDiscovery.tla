------------------------------ MODULE HaDiscovery ------------------------------
(***************************************************************************)
(* Home Assistant learns of the controller's covers, buttons and sensors   *)
(* from configurations that the broker retains (src/mqttDiscovery.cpp).    *)
(* loop() goes through all entities, one publication each: after the first *)
(* connection, when Home Assistant comes up, and twice for a reconfigure.  *)
(* An entity that is not enabled has its retained configuration cleared.   *)
(*                                                                         *)
(* The session may be lost within a sweep, and the configuration uploaded. *)
(* A publication waits in a queue that is thrown away with the session, so *)
(* from some point on nothing arrives any more, though the client takes    *)
(* itself to be connected: the session is "dying".                         *)
(*                                                                         *)
(* Of a retained configuration only the base topic in it is modelled.  The *)
(* prefix it is published under and the name of the device stay the same.  *)
(* An operator marked "Slip" is a plausible bug in the one below it.       *)
(***************************************************************************)
EXTENDS Integers

CONSTANTS
  Entities,   \* how many entities a sweep visits
  Optional,   \* those the configuration can switch off: channels, groups, Ethernet
  Bases,      \* values of config.mqtt.topic
  TooLong     \* <<entity, base>>: the payload exceeds jsonString

Entity == 1 .. Entities

ASSUME HaAssumption ==
  /\ Entities \in Nat \ {0} /\ Optional \subseteq Entity
  /\ TooLong \subseteq Entity \X Bases

VARIABLES
  enabled,        \* config.jaro.ch_enable, grp_enable, config.eth.enable
  base,           \* config.mqtt.topic
  haEnable,       \* config.mqtt.ha_enable
  haSession,      \* of the MQTT client: "down", "up" or "dying"
  bootUpMsgDone,
  request,        \* the message of Home Assistant that waits in the command queue
  sweep,          \* the sweep under way
  retained,       \* the broker: the base topic in what it retains for each entity
  unspoilt        \* since the sweep began nothing was lost and nothing edited

haVars == <<enabled, base, haEnable, haSession, bootUpMsgDone, request, sweep, retained, unspoilt>>
haConfig == <<enabled, base, haEnable>>

Nothing == "nothing"

\* next: the entity it visits next, 0 when no sweep is under way; reset: it clears all
\* of them; again: another one follows; prefix: statePrefix.
Sweep == [next : 0 .. Entities, reset : BOOLEAN, again : BOOLEAN, prefix : Bases]
NoSweep(b) == [next |-> 0, reset |-> FALSE, again |-> FALSE, prefix |-> b]

\* The broker may hold what an earlier configuration left.
HaInit ==
  /\ enabled \in SUBSET Optional /\ base \in Bases /\ haEnable \in BOOLEAN
  /\ haSession = "down" /\ bootUpMsgDone = FALSE /\ request = Nothing
  /\ sweep = NoSweep(base) /\ retained \in [Entity -> Bases \cup {Nothing}]
  /\ unspoilt = FALSE

-----------------------------------------------------------------------------
(* The session and the broker.                                             *)

HaConnect ==
  /\ haSession = "down" /\ haSession' = "up"
  /\ UNCHANGED <<haConfig, bootUpMsgDone, request, sweep, retained, unspoilt>>

\* What is published from here on is still queued when the session ends.
Dies ==
  /\ haSession = "up" /\ haSession' = "dying" /\ unspoilt' = FALSE
  /\ UNCHANGED <<haConfig, bootUpMsgDone, request, sweep, retained>>

HaDisconnect ==
  /\ haSession = "dying" /\ haSession' = "down"
  /\ UNCHANGED <<haConfig, bootUpMsgDone, request, sweep, retained, unspoilt>>

\* Home Assistant comes up, or its button "reconfigure" is pressed.
Hears(what) ==
  /\ haSession = "up" /\ request = Nothing /\ request' = what
  /\ UNCHANGED <<haConfig, haSession, bootUpMsgDone, sweep, retained, unspoilt>>

\* A page of the web interface, or an upload in the AsyncTCP task within a sweep.
Edit ==
  /\ enabled' \in SUBSET Optional /\ base' \in Bases /\ haEnable' \in BOOLEAN
  /\ unspoilt' = FALSE
  /\ UNCHANGED <<haSession, bootUpMsgDone, request, sweep, retained>>

\* The controller restarts.
Reboot ==
  /\ haSession' = "down" /\ bootUpMsgDone' = FALSE /\ request' = Nothing
  /\ sweep' = NoSweep(base) /\ unspoilt' = FALSE
  /\ UNCHANGED <<haConfig, retained>>

-----------------------------------------------------------------------------
(* loop().                                                                 *)

\* mqttDiscoverySetup: the settings are copied, the entities follow.
SweepBegins(reset, again) ==
  /\ sweep' = [next |-> 1, reset |-> reset, again |-> again, prefix |-> base]
  /\ unspoilt' = (haSession = "up")

\* mqttCyclic: the messages after a restart.
BootUpMessages ==
  /\ sweep.next = 0 /\ ~bootUpMsgDone /\ haSession # "down"
  /\ bootUpMsgDone' = TRUE
  /\ IF haEnable THEN SweepBegins(FALSE, FALSE) ELSE UNCHANGED <<sweep, unspoilt>>
  /\ UNCHANGED <<haConfig, haSession, request, retained>>

\* Slip: who was told once is not told again.
WelcomeOnce == haEnable /\ ~bootUpMsgDone

Welcome == haEnable

\* mqttHandleCommand, the two messages that start a sweep.
HaIsOnline ==
  /\ sweep.next = 0 /\ request = "online" /\ request' = Nothing
  /\ IF Welcome THEN SweepBegins(FALSE, FALSE) ELSE UNCHANGED <<sweep, unspoilt>>
  /\ UNCHANGED <<haConfig, haSession, bootUpMsgDone, retained>>

Reconfigure ==
  /\ sweep.next = 0 /\ request = "reconfigure" /\ request' = Nothing
  /\ SweepBegins(TRUE, TRUE)
  /\ UNCHANGED <<haConfig, haSession, bootUpMsgDone, retained>>

\* Slip: an entity that is switched off is no longer announced, and that is all.
WithdrawnSilently(e) == retained[e]

\* mqttHaClear: an empty payload.
Withdrawn(e) == Nothing

\* mqttHaConfig: a payload that does not fit is not published, not even to clear it.
Announced(e) ==
  IF <<e, sweep.prefix>> \in TooLong THEN retained[e]
  ELSE IF sweep.reset THEN Nothing ELSE sweep.prefix

Visit ==
  /\ sweep.next # 0
  /\ LET e == sweep.next
         now == IF e \in Optional \ enabled THEN Withdrawn(e) ELSE Announced(e)
     IN  /\ retained' = IF haSession = "up" THEN [retained EXCEPT ![e] = now] ELSE retained
         /\ IF e < Entities THEN sweep' = [sweep EXCEPT !.next = e + 1] /\ UNCHANGED unspoilt
            ELSE IF sweep.again THEN SweepBegins(FALSE, FALSE)
            ELSE sweep' = NoSweep(base) /\ UNCHANGED unspoilt
  /\ UNCHANGED <<haConfig, haSession, bootUpMsgDone, request>>

-----------------------------------------------------------------------------
Loop == BootUpMessages \/ HaIsOnline \/ Reconfigure \/ Visit

HaNext ==
  \/ Loop
  \/ HaConnect \/ Dies \/ HaDisconnect \/ Edit \/ Reboot
  \/ \E what \in {"online", "reconfigure"} : Hears(what)

HaSpec == HaInit /\ [][HaNext]_haVars

-----------------------------------------------------------------------------
(* What may be relied upon.                                                *)

\* What Home Assistant should find for an entity.
Wanted(e, b) == IF e \in Optional \ enabled THEN Nothing ELSE b
Fits(e, b) == e \in Optional \ enabled \/ <<e, b>> \notin TooLong

\* A sweep that ends with nothing lost or edited since it began leaves the broker with
\* exactly the configurations wanted, whatever earlier configurations, lost sessions and
\* broken off sweeps had left there; the one that resets leaves none.  Only an entity
\* whose payload does not fit keeps what it had (mqttDiscovery.cpp:229-261, 288-351).
SweepIsComplete ==
  [][(sweep.next = Entities /\ sweep'.next # Entities /\ unspoilt /\ haSession' = haSession)
       => \A e \in Entity : Fits(e, base) => retained'[e] = Wanted(e, IF sweep.reset THEN Nothing ELSE base)]_haVars

\* Home Assistant that comes up again and again finds what the configuration says,
\* once session and configuration stay: a sweep that was lost is made up for, though
\* the boot-up message is sent only once (mqtt.cpp:244-252 and 445-448).
EntitiesFollowConfig ==
  /\ <>[](haSession = "up" /\ haEnable /\ request # "reconfigure") /\ <>[][UNCHANGED haConfig]_haConfig
  /\ []<>(request = "online")
  => <>[](\A e \in Entity : Fits(e, base) => retained[e] = Wanted(e, base))
=============================================================================

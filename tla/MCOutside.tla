------------------------------ MODULE MCOutside ------------------------------
(* What the controller keeps up with the world outside, checked in one run:   *)
(* the connection to the broker, the network links, the tabs of the web       *)
(* interface and Home Assistant's entities.  They share no variable: a        *)
(* behaviour follows one of them from any of its initial states, the others   *)
(* rest in a state of their own.                                              *)
EXTENDS MqttConn, Network, WebPage, HaDiscovery

VARIABLE part

outsideVars == <<part, vars, netVars, webVars, haVars>>

\* The cover's payload does not fit with the longer base topic.
MCTooLong == {<<1, "long/base">>}

\* Where a part rests.
MqttRests == Init /\ ~link /\ ~broker /\ session = NoSession /\ status = "none"
NetRests == NetInit /\ wifiEnable /\ ~ethEnable /\ ~accessPoint
WebRests == WebInit /\ devCnt = 0 /\ loadTimer.behind = 0
HaRests  == HaInit /\ enabled = {} /\ base = "base" /\ ~haEnable /\ \A e \in Entity : retained[e] = Nothing

OutsideInit ==
  /\ part \in {"mqtt", "network", "web", "discovery"}
  /\ IF part = "mqtt" THEN Init ELSE MqttRests
  /\ IF part = "network" THEN NetInit ELSE NetRests
  /\ IF part = "web" THEN WebInit ELSE WebRests
  /\ IF part = "discovery" THEN HaInit ELSE HaRests

OutsideNext ==
  \/ part = "mqtt" /\ Next /\ UNCHANGED <<part, netVars, webVars, haVars>>
  \/ part = "network" /\ NetNext /\ UNCHANGED <<part, vars, webVars, haVars>>
  \/ part = "web" /\ WebNext /\ UNCHANGED <<part, vars, netVars, haVars>>
  \/ part = "discovery" /\ HaNext /\ UNCHANGED <<part, vars, netVars, webVars>>

\* The fairness of MqttConn, for the behaviours that follow it.
MqttFairness ==
  /\ WF_vars(part = "mqtt" /\ MqttCyclic) /\ SF_vars(part = "mqtt" /\ Tick)
  /\ WF_vars(part = "mqtt" /\ Accept) /\ WF_vars(part = "mqtt" /\ BirthArrives)
  /\ WF_vars(part = "mqtt" /\ Disconnect) /\ WF_vars(part = "mqtt" /\ SessionEnds)

\* loop() goes on, events are handled, time passes, and the driver associates with an
\* access point that is there.
NetFairness ==
  /\ WF_netVars(part = "network" /\ CheckWiFi)
  /\ WF_netVars(part = "network" /\ Handle)
  /\ WF_netVars(part = "network" /\ Driver)
  /\ SF_netVars(part = "network" /\ Passes)

\* loop() goes on; a refresh that is asked for in every pass comes due now and then.
WebFairness ==
  /\ WF_webVars(part = "web" /\ WebUICyclic)
  /\ WF_webVars(part = "web" /\ Second)
  /\ SF_webVars(part = "web" /\ FastRefresh)
  /\ SF_webVars(part = "web" /\ SlowRefresh)

HaFairness == WF_haVars(part = "discovery" /\ Loop)

OutsideSpec ==
  OutsideInit /\ [][OutsideNext]_outsideVars /\ MqttFairness /\ NetFairness /\ WebFairness /\ HaFairness
=============================================================================

-------------------------------- MODULE Network --------------------------------
(***************************************************************************)
(* The network links (src/basics.cpp).  WiFi and Ethernet report from the  *)
(* task of the event loop, one event after the other; the flags they set   *)
(* are what the rest of the firmware knows.  While neither link is up      *)
(* checkWiFi(), in loop(), starts WiFi again with a growing delay.         *)
(*                                                                         *)
(* The WiFi driver is external: started, it is associated and given an     *)
(* address when the access point is there, and either may be lost again.   *)
(* Started anew while it is on its way or connected, it may go on as it is *)
(* or begin from the start.  Events are handled within a unit of time.     *)
(* An operator marked "Slip" is a plausible bug in the one below it.       *)
(***************************************************************************)
EXTENDS Integers, Sequences

CONSTANTS
  WifiReconnect,     \* WIFI_RECONNECT: first delay between attempts
  WifiReconnectMax,  \* WIFI_RECONNECT_MAX: the longest
  Answers,           \* an access point that is there gives an address in this time
  MaxEvents          \* bound of the events under way

ASSUME NetAssumption ==
  /\ WifiReconnect \in Nat \ {0} /\ WifiReconnectMax \in Nat /\ WifiReconnect <= WifiReconnectMax
  /\ Answers \in Nat /\ Answers < WifiReconnect /\ MaxEvents \in Nat \ {0}

VARIABLES
  wifiEnable, ethEnable,  \* what of the configuration setup() saw
  accessPoint,            \* the access point is there
  station,                \* the WiFi driver: "off", "trying", "associated" or "connected"
  started,                \* time since it was started
  ethAddress,             \* Ethernet has an address
  events,                 \* events not handled yet, oldest first
  wifiConnected,          \* wifi.connected
  ethConnected,           \* eth.connected
  netPc,                  \* where checkWiFi is
  wifiReconnectTimer,     \* its input and output, and the time since the input changed
  wifiRetryDelay,
  doubled                 \* the delay checkWiFi computed

netVars == <<wifiEnable, ethEnable, accessPoint, station, started, ethAddress, events,
             wifiConnected, ethConnected, netPc, wifiReconnectTimer, wifiRetryDelay, doubled>>
driver  == <<accessPoint, station, started, ethAddress>>
checker == <<netPc, wifiReconnectTimer, doubled>>
setting == <<wifiEnable, ethEnable>>

Long == WifiReconnectMax + 1
Longer(time) == IF time < Long THEN time + 1 ELSE Long

\* setupWiFi and setupETH; without either link the controller is in setup mode.
NetInit ==
  /\ wifiEnable \in BOOLEAN /\ ethEnable \in BOOLEAN /\ (wifiEnable \/ ethEnable)
  /\ accessPoint \in BOOLEAN
  /\ station = IF wifiEnable THEN "trying" ELSE "off"
  /\ started = 0 /\ ethAddress = FALSE /\ events = <<>>
  /\ wifiConnected = FALSE /\ ethConnected = FALSE
  /\ netPc = "check" /\ wifiReconnectTimer = [in |-> FALSE, out |-> FALSE, since |-> Long]
  /\ wifiRetryDelay = WifiReconnect /\ doubled = WifiReconnect

-----------------------------------------------------------------------------
(* The drivers.                                                            *)

Reports(new) == Len(events \o new) <= MaxEvents /\ events' = events \o new

Associate ==
  /\ station = "trying" /\ accessPoint
  /\ station' = "associated" /\ Reports(<<"STA_CONNECTED">>)
  /\ UNCHANGED <<accessPoint, started, ethAddress, wifiConnected, ethConnected, checker, wifiRetryDelay, setting>>

GetAddress ==
  /\ station = "associated" /\ accessPoint
  /\ station' = "connected" /\ Reports(<<"STA_GOT_IP">>)
  /\ UNCHANGED <<accessPoint, started, ethAddress, wifiConnected, ethConnected, checker, wifiRetryDelay, setting>>

\* The access point is gone; setAutoReconnect tries for a while, or not.
LoseAccessPoint ==
  /\ station \in {"associated", "connected"} /\ ~accessPoint
  /\ station' \in {"off", "trying"} /\ Reports(<<"STA_DISCONNECTED">>)
  /\ UNCHANGED <<accessPoint, started, ethAddress, wifiConnected, ethConnected, checker, wifiRetryDelay, setting>>

GiveUp ==
  /\ station = "trying" /\ ~accessPoint /\ station' = "off"
  /\ UNCHANGED <<accessPoint, started, ethAddress, events, wifiConnected, ethConnected, checker, wifiRetryDelay, setting>>

\* The lease ends without a new one, the association stays.
LoseLease ==
  /\ station = "connected" /\ ~accessPoint
  /\ station' = "associated" /\ Reports(<<"STA_LOST_IP">>)
  /\ UNCHANGED <<accessPoint, started, ethAddress, wifiConnected, ethConnected, checker, wifiRetryDelay, setting>>

AccessPointChanges ==
  /\ accessPoint' = ~accessPoint
  /\ started' = 0
  /\ UNCHANGED <<station, ethAddress, events, wifiConnected, ethConnected, checker, wifiRetryDelay, setting>>

Cable ==
  /\ ethEnable /\ ethAddress' = ~ethAddress
  /\ \E event \in IF ethAddress THEN {"ETH_LOST_IP", "ETH_DISCONNECTED", "ETH_STOP"} ELSE {"ETH_GOT_IP"} :
       Reports(<<event>>)
  /\ UNCHANGED <<accessPoint, station, started, wifiConnected, ethConnected, checker, wifiRetryDelay, setting>>

-----------------------------------------------------------------------------
(* The events, handled one at a time in the task of the event loop.        *)

WifiUp == {"STA_GOT_IP"}

\* Slip: the end of a link is not listened for.
WifiDownUnheard == {"STA_LOST_IP"}

WifiDown == {"STA_DISCONNECTED", "STA_LOST_IP"}
EthDown  == {"ETH_LOST_IP", "ETH_DISCONNECTED", "ETH_STOP"}

\* A flag after an event.
FlagAfter(flag, event, ups, downs) == event \in ups \/ (flag /\ event \notin downs)

\* onWiFiStationConnected, onWiFiGotIP, onWiFiStationDisconnected, onEthEvent; those of
\* WiFi are registered only when it was enabled.
Handle ==
  /\ events # <<>> /\ events' = Tail(events)
  /\ LET event == Head(events)
     IN  /\ wifiConnected' = IF wifiEnable THEN FlagAfter(wifiConnected, event, WifiUp, WifiDown) ELSE wifiConnected
         /\ ethConnected' = FlagAfter(ethConnected, event, {"ETH_GOT_IP"}, EthDown)
         /\ wifiRetryDelay' = IF wifiEnable /\ event = "STA_CONNECTED" THEN WifiReconnect ELSE wifiRetryDelay
  /\ UNCHANGED <<driver, checker, setting>>

-----------------------------------------------------------------------------
(* checkWiFi, one pass.                                                    *)

\* muTimer::delayOnTrigger: the time runs from the last change of the input; the
\* output that is set stays set until the input goes off.
Fed(t, in) == IF t.in # in THEN [t EXCEPT !.in = in, !.since = 0] ELSE t
DelayElapsed(t, delay) == t.in /\ ~t.out /\ t.since >= delay
Settled(t) == IF ~t.in THEN [t EXCEPT !.out = FALSE] ELSE t

\* Slip: the time starts anew but the output stays set.
DelayResetKeepingOutput(t) == [t EXCEPT !.since = 0, !.out = t.in]

\* muTimer::delayReset.
DelayReset(t) == [t EXCEPT !.since = 0, !.out = ~t.in]

Check ==
  /\ netPc = "check"
  /\ LET t == Fed(wifiReconnectTimer, ~wifiConnected /\ ~ethConnected)
     IN  IF DelayElapsed(t, wifiRetryDelay)
         THEN wifiReconnectTimer' = DelayReset(t) /\ netPc' = "begin"
         ELSE wifiReconnectTimer' = Settled(t) /\ UNCHANGED netPc
  /\ UNCHANGED <<driver, events, wifiConnected, ethConnected, wifiRetryDelay, doubled, setting>>

\* WiFi.begin, also where WiFi was never enabled.
BeginWifi ==
  /\ netPc = "begin" /\ netPc' = "grow"
  /\ \/ station \in {"off", "trying"} /\ station' = "trying" /\ started' = 0 /\ UNCHANGED events
     \/ station \in {"associated", "connected"}
        /\ station' = "trying" /\ started' = 0 /\ Reports(<<"STA_DISCONNECTED">>)
     \/ station \in {"associated", "connected"} /\ UNCHANGED <<station, started, events>>
  /\ UNCHANGED <<accessPoint, ethAddress, wifiConnected, ethConnected, wifiReconnectTimer,
                 wifiRetryDelay, doubled, setting>>

Capped(delay) == IF delay > WifiReconnectMax THEN WifiReconnectMax ELSE delay

\* The delay is read ...
GrowDelay ==
  /\ netPc = "grow"
  /\ IF wifiRetryDelay < WifiReconnectMax
     THEN doubled' = Capped(2 * wifiRetryDelay) /\ netPc' = "store" ELSE netPc' = "check" /\ UNCHANGED doubled
  /\ UNCHANGED <<driver, events, wifiConnected, ethConnected, wifiReconnectTimer, wifiRetryDelay, setting>>

\* ... and written, over a reset that came in between.
StoreDelay ==
  /\ netPc = "store" /\ netPc' = "check" /\ wifiRetryDelay' = doubled
  /\ UNCHANGED <<driver, events, wifiConnected, ethConnected, wifiReconnectTimer, doubled, setting>>

\* Time passes between two passes.
Passes ==
  /\ netPc = "check" /\ events = <<>>
  /\ ~(station \in {"trying", "associated"} /\ accessPoint /\ started >= Answers)
  /\ started' = Longer(started)
  /\ wifiReconnectTimer' = [wifiReconnectTimer EXCEPT !.since = Longer(@)]
  /\ UNCHANGED <<accessPoint, station, ethAddress, events, wifiConnected, ethConnected, netPc,
                 wifiRetryDelay, doubled, setting>>

-----------------------------------------------------------------------------
CheckWiFi == Check \/ BeginWifi \/ GrowDelay \/ StoreDelay
Driver == Associate \/ GetAddress

NetNext ==
  \/ CheckWiFi \/ Handle \/ Passes
  \/ Driver \/ LoseAccessPoint \/ GiveUp \/ LoseLease \/ AccessPointChanges \/ Cable

NetSpec == NetInit /\ [][NetNext]_netVars

-----------------------------------------------------------------------------
(* What may be relied upon.                                                *)

\* Once every event is handled the flags say which links have an address, in whatever
\* order links came and went and however often WiFi was started again: neither
\* latches (lines 57-83, 128-137 and 156-184).
LinkIsTrue ==
  events = <<>> =>
    /\ wifiEnable => (wifiConnected <=> station = "connected")
    /\ ethConnected <=> ethAddress

\* Once the access point is there to stay and the cable left alone, the controller is
\* on the network for good, however long it was away before; it asks for no restart
\* (lines 91-122).
EventuallyReachable ==
  <>[]accessPoint /\ <>[][ethAddress' = ethAddress]_ethAddress /\ wifiEnable
    => <>[](wifiConnected \/ ethConnected)
=============================================================================

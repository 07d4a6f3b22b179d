------------------------------- MODULE MqttConn -------------------------------
(***************************************************************************)
(* The connection to the MQTT broker (src/mqtt.cpp): mqttCyclic() retries  *)
(* it from loop() with a growing delay, the client library reports from    *)
(* the AsyncTCP task, and Home Assistant reads the controller's            *)
(* availability from a retained topic: "online" is published on connect,   *)
(* "offline" is the last will.                                             *)
(*                                                                         *)
(* A connect attempt may be answered, refused, late or dead: the library   *)
(* can drop one without ever calling back.  A connection may be lost with  *)
(* either end not knowing.  The two tasks interleave between the steps of  *)
(* mqttCyclic().  Time passes in units of MQTT_RECONNECT and stops at Far. *)
(* An operator marked "Slip" is a plausible bug in the one below it.       *)
(***************************************************************************)
EXTENDS Integers

CONSTANTS
  Reconnect,     \* MQTT_RECONNECT: first delay between attempts
  ReconnectMax,  \* MQTT_RECONNECT_MAX: the longest
  Stall,         \* MQTT_CONNECT_STALL
  Patience       \* a network that works answers an attempt in this time

ASSUME DelayAssumption ==
  /\ Reconnect \in Nat \ {0} /\ ReconnectMax \in Nat /\ Stall \in Nat /\ Patience \in Nat
  /\ Reconnect <= Stall /\ Stall < ReconnectMax /\ Patience <= Stall

VARIABLES
  pc,            \* where mqttCyclic is
  setup,         \* setupDone: the client knows broker, callbacks and last will
  first,         \* mqttFirstAttempt
  delay,         \* mqttRetryDelay
  next,          \* its local of that name
  attempt,       \* time since mqttAttemptMs
  timer,         \* time mqttReconnectTimer has run, or Off
  announced,     \* bootUpMsgDone
  client,        \* the client library: DISCONNECTED, CONNECTING or CONNECTED
  link,          \* wifi.connected || eth.connected
  broker,        \* the broker can be reached
  answer,        \* what will come of the attempt
  tried,         \* time since the client began it
  session,       \* the broker's side of the connection
  status         \* what is retained under .../status

vars == <<pc, setup, first, delay, next, attempt, timer, announced, client, link, broker,
          answer, tried, session, status>>
loop == <<pc, setup, first, delay, next, attempt, timer, announced>>

Far == ReconnectMax + 1
Off == -1

TypeOK ==
  /\ pc \in {"setup", "retry", "attempt", "grow", "store", "announce"} /\ setup \in BOOLEAN /\ first \in BOOLEAN
  /\ delay \in Reconnect .. ReconnectMax /\ next \in Reconnect .. ReconnectMax
  /\ attempt \in 0 .. Far /\ timer \in 0 .. Far \cup {Off} /\ announced \in BOOLEAN
  /\ client \in {"DISCONNECTED", "CONNECTING", "CONNECTED"}
  /\ link \in BOOLEAN /\ broker \in BOOLEAN
  /\ answer \in {"prompt", "late", "dead"} /\ tried \in 0 .. Far
  /\ session \in [open : BOOLEAN, ours : BOOLEAN, will : BOOLEAN, birth : BOOLEAN]
  /\ status \in {"none", "online", "offline"}

NoSession == [open |-> FALSE, ours |-> FALSE, will |-> FALSE, birth |-> FALSE]

\* What a restart may leave behind.
Before == [open |-> TRUE, ours |-> FALSE, will |-> TRUE, birth |-> TRUE]

Init ==
  /\ pc = "setup" /\ setup = FALSE /\ first = TRUE
  /\ delay = Reconnect /\ next = Reconnect /\ attempt = Far /\ timer = Off
  /\ announced = FALSE /\ client = "DISCONNECTED"
  /\ link \in BOOLEAN /\ broker \in BOOLEAN
  /\ answer = "prompt" /\ tried = Far
  /\ \/ session = NoSession /\ status \in {"none", "offline"}
     \/ session = Before /\ status = "online"

-----------------------------------------------------------------------------
(* The client library, as mqttCyclic uses it.                              *)

\* connect() does nothing unless the client is DISCONNECTED, and is never answered
\* when mqttSetup has not named the broker yet.
Connect(state) ==
  IF state = "DISCONNECTED"
  THEN /\ client' = "CONNECTING" /\ tried' = 0
       /\ answer' \in IF ~setup THEN {"dead"}
                     ELSE IF link /\ broker THEN {"prompt"} ELSE {"late", "dead"}
  ELSE client' = state /\ UNCHANGED <<tried, answer>>

\* The client lets go of its connection; the broker may not know yet.
Abandoned == [session EXCEPT !.ours = FALSE]

-----------------------------------------------------------------------------
(* mqttCyclic, one pass.                                                   *)

\* mqttSetup, in the first pass that finds a network.
Setup ==
  /\ pc = "setup" /\ pc' = "retry"
  /\ setup' = (setup \/ link)
  /\ UNCHANGED <<first, delay, next, attempt, timer, announced, client, link, broker,
                 answer, tried, session, status>>

\* The network may have come up since Setup looked.
NoConnection == client # "CONNECTED" /\ link

NothingToRetry ==
  /\ pc = "retry" /\ ~NoConnection /\ pc' = "announce"
  /\ UNCHANGED <<setup, first, delay, next, attempt, timer, announced, client, link, broker,
                 answer, tried, session, status>>

FirstAttempt ==
  /\ pc = "retry" /\ NoConnection /\ first /\ pc' = "announce"
  /\ first' = FALSE /\ attempt' = 0
  /\ Connect(client)
  /\ UNCHANGED <<setup, delay, next, timer, announced, link, broker, session, status>>

Running == IF timer = Off THEN 0 ELSE timer

\* Slip: the time the timer started is not renewed.
RestartedNever == timer

Restarted == 0

\* The reconnect timer is asked while there is no connection and never otherwise: it
\* runs on through a connection.
AskTimer ==
  /\ pc = "retry" /\ NoConnection /\ ~first
  /\ IF Running >= delay THEN timer' = Restarted /\ pc' = "attempt"
     ELSE timer' = Running /\ pc' = "announce"
  /\ UNCHANGED <<setup, first, delay, next, attempt, announced, client, link, broker, answer,
                 tried, session, status>>

\* Slip: a wedged client is left as it is.
WedgedNever == FALSE

\* An attempt this old is taken for wedged and torn down.
Wedged == attempt > Stall

\* Slip: the time of the attempt is not noted.
NotedNever == attempt

Noted == 0

\* An attempt, after a wedged one is torn down.
Attempt ==
  /\ pc = "attempt" /\ pc' = "grow"
  /\ attempt' = Noted
  /\ Connect(IF Wedged THEN "DISCONNECTED" ELSE client)
  /\ session' = IF Wedged THEN Abandoned ELSE session
  /\ UNCHANGED <<setup, first, delay, next, timer, announced, link, broker, status>>

\* Slip: the cap is only looked at before doubling.
DoubledUncapped == 2 * delay

Doubled == IF 2 * delay > ReconnectMax THEN ReconnectMax ELSE 2 * delay

\* The delay is read ...
Grow ==
  /\ pc = "grow"
  /\ IF delay < ReconnectMax THEN next' = Doubled /\ pc' = "store"
     ELSE pc' = "announce" /\ UNCHANGED next
  /\ UNCHANGED <<setup, first, delay, attempt, timer, announced, client, link, broker,
                 answer, tried, session, status>>

\* ... and written; a connection made in between loses its reset.
Store ==
  /\ pc = "store" /\ pc' = "announce" /\ delay' = next
  /\ UNCHANGED <<setup, first, next, attempt, timer, announced, client, link, broker,
                 answer, tried, session, status>>

\* The discovery messages go out once, on the first connection seen.
Announce ==
  /\ pc = "announce" /\ pc' = "setup"
  /\ announced' = (announced \/ client = "CONNECTED")
  /\ UNCHANGED <<setup, first, delay, next, attempt, timer, client, link, broker,
                 answer, tried, session, status>>

-----------------------------------------------------------------------------
(* The AsyncTCP task and the broker.                                       *)

\* The broker publishes the last will of a session that ends without a goodbye.
Willed == IF session.open /\ session.will THEN "offline" ELSE status

\* Slip: the client is not told of a last will.
OpenedWillless == [open |-> TRUE, ours |-> TRUE, will |-> FALSE, birth |-> FALSE]

\* The session a CONNECT opens, with the will that mqttSetup registered.
Opened == [open |-> TRUE, ours |-> TRUE, will |-> setup, birth |-> FALSE]

\* The attempt is accepted, in place of an older session of this client:
\* onMqttConnect.
Accept ==
  /\ client = "CONNECTING" /\ answer # "dead" /\ link /\ broker
  /\ client' = "CONNECTED"
  /\ session' = Opened /\ status' = Willed
  /\ delay' = Reconnect
  /\ UNCHANGED <<pc, setup, first, next, attempt, timer, announced, link, broker, answer, tried>>

\* The birth message reaches the broker.
BirthArrives ==
  /\ session.open /\ session.ours /\ ~session.birth /\ link /\ broker
  /\ session' = [session EXCEPT !.birth = TRUE]
  /\ status' = "online"
  /\ UNCHANGED <<loop, client, link, broker, answer, tried>>

\* The attempt is refused, or the connection lost: onMqttDisconnect.
Disconnect ==
  /\ \/ client = "CONNECTING" /\ answer # "dead" /\ ~(link /\ broker)
     \/ client = "CONNECTED" /\ ~(link /\ broker /\ session.open)
  /\ client' = "DISCONNECTED"
  /\ session' = Abandoned
  /\ UNCHANGED <<loop, link, broker, answer, tried, status>>

\* The broker gives up a client that is gone or out of reach.
SessionEnds ==
  /\ session.open /\ ~(session.ours /\ link /\ broker)
  /\ session' = NoSession /\ status' = Willed
  /\ UNCHANGED <<loop, client, link, broker, answer, tried>>

Network ==
  /\ link' \in BOOLEAN /\ broker' \in BOOLEAN
  /\ <<link, broker>>' # <<link, broker>>
  \* an attempt on its way when the network changes may be late
  /\ answer' = IF answer = "prompt" THEN "late" ELSE answer
  /\ UNCHANGED <<loop, client, tried, session, status>>

Restart ==
  /\ pc' = "setup" /\ setup' = FALSE /\ first' = TRUE
  /\ delay' = Reconnect /\ next' = Reconnect /\ attempt' = Far /\ timer' = Off
  /\ announced' = FALSE /\ client' = "DISCONNECTED"
  /\ session' = Abandoned
  /\ UNCHANGED <<link, broker, answer, tried, status>>

Older(age) == IF age < Far THEN age + 1 ELSE Far

\* Time passes between two passes of mqttCyclic(), never within one.
Tick ==
  /\ pc = "setup"
  /\ ~(client = "CONNECTING" /\ answer = "prompt" /\ tried >= Patience)
  /\ attempt' = Older(attempt) /\ tried' = Older(tried)
  /\ timer' = IF timer = Off THEN Off ELSE Older(timer)
  /\ UNCHANGED <<pc, setup, first, delay, next, announced, client, link, broker, answer,
                 session, status>>

-----------------------------------------------------------------------------
MqttCyclic ==
  Setup \/ NothingToRetry \/ FirstAttempt \/ AskTimer \/ Attempt \/ Grow \/ Store \/ Announce
Next ==
  \/ MqttCyclic \/ Restart \/ Tick
  \/ Accept \/ BirthArrives \/ Disconnect \/ SessionEnds \/ Network

\* loop() keeps running and time passes between its passes (strong fairness, for it
\* is only counted there); both ends get round to what they know.  Nothing is asked
\* of the network.
Fairness ==
  /\ WF_vars(MqttCyclic) /\ SF_vars(Tick)
  /\ WF_vars(Accept) /\ WF_vars(BirthArrives) /\ WF_vars(Disconnect) /\ WF_vars(SessionEnds)

Spec == Init /\ [][Next]_vars /\ Fairness

-----------------------------------------------------------------------------
(* What may be relied upon.                                                *)

\* However the connection comes and goes, two attempts are never closer together
\* than the first delay: a broker is not hammered, even when the timer has run on
\* through a connection (lines 214-242).
AttemptsApart == [][pc = "attempt" /\ pc' # "attempt" => attempt >= Reconnect]_vars

\* An attempt the network would answer in time is not torn down, though
\* mqttAttemptMs is the time of the latest retry and not of the attempt that is
\* still open (lines 228-235).
PromptAttemptIsLeft ==
  [][(pc = "attempt" /\ pc' # "attempt" /\ client # "DISCONNECTED" /\ tried' = 0)
        => answer # "prompt"]_vars

\* Home Assistant reads "online" exactly while a session stands whose birth message
\* has arrived; it is never left with the "online" of a connection that is over,
\* though a lost one is replaced by the next (lines 94-121, 180-189).
AvailabilityIsTrue == status = "online" <=> session.open /\ session.birth

\* Once network and broker stay up and the controller running, the client is
\* connected for good and the broker says so, whatever attempt was wedged before,
\* also one begun before mqttSetup (lines 203-242).
EventuallyOnline ==
  <>[](link /\ broker) /\ <>[][~Restart]_vars
    => <>[](client = "CONNECTED" /\ status = "online")
=============================================================================

----------------------------- MODULE OutsideProofs -----------------------------
(***************************************************************************)
(* The safety of what the controller keeps up with the world outside, for  *)
(* every value of the constants.                                           *)
(*                                                                         *)
(* MqttConn: availability rests on every session having its last will,     *)
(* although an attempt may be begun before the will is registered; the two *)
(* properties of attempts rest on an order among three ages: the reconnect *)
(* timer's, the latest retry's and the open attempt's.                     *)
(*                                                                         *)
(* Network: of the events under way that are about an address the last one *)
(* tells how the link is now; where there is none, the flag does.          *)
(*                                                                         *)
(* HaDiscovery: an unspoilt sweep has one base topic and one session, and  *)
(* whatever it has passed is as it is wanted.                              *)
(***************************************************************************)
EXTENDS MqttConn, Network, HaDiscovery, TLAPS

-----------------------------------------------------------------------------
(* The connection to the broker.                                           *)

\* The sessions of the broker.
Session == [open : BOOLEAN, ours : BOOLEAN, will : BOOLEAN, birth : BOOLEAN]

\* Only an attempt that knows of a will can be answered.
SessionsHaveWills ==
  /\ client = "CONNECTING" /\ answer # "dead" => setup
  /\ session.open => session.will

\* The timer is not older than the retry that restarted it, and a retry not older
\* than the attempt of the client that is still open.
AgesInOrder ==
  /\ first => timer = Off
  /\ timer # Off => timer <= attempt
  /\ pc = "attempt" => attempt >= Reconnect /\ timer = 0
  /\ client # "DISCONNECTED" => attempt <= tried

\* An attempt that is answered in time is still young, also when the answer comes
\* between the last look at the client and the decision to tear it down.
PromptIsYoung ==
  /\ pc = "attempt" => ~first
  /\ client = "CONNECTING" /\ answer = "prompt" => tried <= Patience
  /\ pc = "attempt" /\ client = "CONNECTED" /\ answer = "prompt" => tried <= Patience

-----------------------------------------------------------------------------
LEMMA ReconnectInReach == Reconnect \in Nat /\ ReconnectMax \in Nat /\ Reconnect > 0
                          /\ Reconnect <= ReconnectMax /\ Far \in Nat /\ Far > ReconnectMax
                          /\ Stall \in Nat /\ Patience \in Nat /\ Patience <= Stall /\ Stall < ReconnectMax
  BY DelayAssumption DEF Far

\* An age that has grown is an age, and a greater one while there is room.
LEMMA OlderAge ==
  ASSUME NEW a \in 0 .. Far
  PROVE  /\ Older(a) \in 0 .. Far
         /\ Older(a) >= a
         /\ Older(a) = IF a < Far THEN a + 1 ELSE Far
  BY ReconnectInReach DEF Older

\* Two ages keep their order when both grow.
LEMMA OlderOrder ==
  ASSUME NEW a \in 0 .. Far, NEW b \in 0 .. Far, a <= b
  PROVE  Older(a) <= Older(b)
  BY ReconnectInReach DEF Older

\* connect() leaves a client of a known state and an attempt of a known kind.
LEMMA ConnectType ==
  ASSUME TypeOK, NEW state \in {"DISCONNECTED", "CONNECTING", "CONNECTED"}, Connect(state)
  PROVE  /\ client' \in {"DISCONNECTED", "CONNECTING", "CONNECTED"}
         /\ answer' \in {"prompt", "late", "dead"} /\ tried' \in 0 .. Far
  BY ReconnectInReach DEF Connect, TypeOK

\* A session that is let go of is a session.
LEMMA AbandonedType ==
  ASSUME session \in Session
  PROVE  /\ Abandoned \in Session
         /\ Abandoned.open = session.open /\ Abandoned.will = session.will
         /\ Abandoned.birth = session.birth
  BY DEF Abandoned, Session

LEMMA InitTyped == Init => TypeOK
<1> SUFFICES ASSUME Init PROVE TypeOK
  OBVIOUS
<1>1. NoSession \in Session /\ Before \in Session
  BY DEF Session, NoSession, Before
<1>2. delay \in Reconnect .. ReconnectMax /\ next \in Reconnect .. ReconnectMax
      /\ attempt \in 0 .. Far /\ timer \in 0 .. Far \cup {Off} /\ tried \in 0 .. Far
  BY ReconnectInReach DEF Init
<1>3. session \in Session /\ status \in {"none", "online", "offline"}
  BY <1>1 DEF Init
<1> QED
  BY <1>2, <1>3 DEF Init, TypeOK, Session

\* Every step keeps the types; the delay doubles up to its cap.
LEMMA StepTyped == TypeOK /\ [Next]_vars => TypeOK'
<1> SUFFICES ASSUME TypeOK, [Next]_vars PROVE TypeOK'
  OBVIOUS
<1> USE ReconnectInReach
<1>a. session \in Session
  BY DEF TypeOK, Session
<1>1. CASE Setup
  BY <1>1 DEF Setup, TypeOK
<1>2. CASE NothingToRetry
  BY <1>2 DEF NothingToRetry, TypeOK
<1>3. CASE FirstAttempt
  <2>1. Connect(client) /\ client \in {"DISCONNECTED", "CONNECTING", "CONNECTED"}
    BY <1>3 DEF FirstAttempt, TypeOK
  <2>2. client' \in {"DISCONNECTED", "CONNECTING", "CONNECTED"}
        /\ answer' \in {"prompt", "late", "dead"} /\ tried' \in 0 .. Far
    BY <2>1, ConnectType
  <2>3. attempt' \in 0 .. Far
    BY <1>3 DEF FirstAttempt
  <2> QED BY <2>2, <2>3, <1>3 DEF FirstAttempt, TypeOK
<1>4. CASE AskTimer
  BY <1>4 DEF AskTimer, TypeOK, Running, Restarted, Off
<1>5. CASE Attempt
  <2> DEFINE state == IF Wedged THEN "DISCONNECTED" ELSE client
  <2>1. Connect(state) /\ state \in {"DISCONNECTED", "CONNECTING", "CONNECTED"}
    BY <1>5 DEF Attempt, TypeOK
  <2>2. session' \in Session
    BY <1>a, <1>5, AbandonedType DEF Attempt
  <2>3. client' \in {"DISCONNECTED", "CONNECTING", "CONNECTED"}
        /\ answer' \in {"prompt", "late", "dead"} /\ tried' \in 0 .. Far
    BY <2>1, ConnectType
  <2> QED BY <2>2, <2>3, <1>5 DEF Attempt, TypeOK, Noted, Session
<1>6. CASE Grow
  BY <1>6 DEF Grow, TypeOK, Doubled
<1>7. CASE Store
  BY <1>7 DEF Store, TypeOK
<1>8. CASE Announce
  BY <1>8 DEF Announce, TypeOK
<1>9. CASE Restart
  <2>1. session' \in Session
    BY <1>9, <1>a, AbandonedType DEF Restart
  <2>2. delay' \in Reconnect .. ReconnectMax /\ next' \in Reconnect .. ReconnectMax
        /\ attempt' \in 0 .. Far /\ timer' \in 0 .. Far \cup {Off}
    BY <1>9 DEF Restart
  <2> QED BY <2>1, <2>2, <1>9 DEF Restart, TypeOK, Session
<1>10. CASE Tick
  <2>1. attempt' \in 0 .. Far /\ tried' \in 0 .. Far /\ timer' \in 0 .. Far \cup {Off}
    BY <1>10, OlderAge DEF Tick, TypeOK
  <2> QED BY <2>1, <1>10 DEF Tick, TypeOK
<1>11. CASE Accept
  BY <1>11 DEF Accept, TypeOK, Opened, Willed
<1>12. CASE BirthArrives
  BY <1>12 DEF BirthArrives, TypeOK, loop
<1>13. CASE Disconnect
  BY <1>13, <1>a, AbandonedType DEF Disconnect, TypeOK, loop, Session
<1>14. CASE SessionEnds
  BY <1>14 DEF SessionEnds, TypeOK, loop, NoSession, Willed
<1>15. CASE Network
  BY <1>15 DEF Network, TypeOK, loop
<1>16. CASE UNCHANGED vars
  BY <1>16 DEF vars, TypeOK
<1> QED
  BY <1>1, <1>2, <1>3, <1>4, <1>5, <1>6, <1>7, <1>8, <1>9, <1>10, <1>11, <1>12, <1>13,
     <1>14, <1>15, <1>16 DEF Next, MqttCyclic

\* Every variable keeps its type: the delay stays between MQTT_RECONNECT and its
\* cap (mqtt.cpp:237-240), for every value of the constants.
THEOREM TypeCorrect == Spec => []TypeOK
  BY InitTyped, StepTyped, PTL DEF Spec

-----------------------------------------------------------------------------
(* Availability.                                                           *)

AvailabilityInv == TypeOK /\ SessionsHaveWills /\ AvailabilityIsTrue

LEMMA InitAvailability == Init => SessionsHaveWills /\ AvailabilityIsTrue
  BY DEF Init, SessionsHaveWills, AvailabilityIsTrue, NoSession, Before

\* connect() begins an attempt that can be answered only if mqttSetup has run.
LEMMA ConnectKnowsWill ==
  ASSUME SessionsHaveWills, NEW state, state \in {client, "DISCONNECTED"}, Connect(state)
  PROVE  client' = "CONNECTING" /\ answer' # "dead" => setup
  BY DEF Connect, SessionsHaveWills

LEMMA StepAvailability == AvailabilityInv /\ [Next]_vars => SessionsHaveWills' /\ AvailabilityIsTrue'
<1> SUFFICES ASSUME TypeOK, SessionsHaveWills, AvailabilityIsTrue, [Next]_vars
             PROVE  SessionsHaveWills' /\ AvailabilityIsTrue'
  BY DEF AvailabilityInv
<1>a. session \in Session
  BY DEF TypeOK, Session
<1> USE DEF SessionsHaveWills, AvailabilityIsTrue
<1>1. CASE Setup
  BY <1>1 DEF Setup
<1>2. CASE NothingToRetry \/ AskTimer \/ Grow \/ Store \/ Announce
  BY <1>2 DEF NothingToRetry, AskTimer, Grow, Store, Announce
<1>3. CASE FirstAttempt
  <2>1. client' = "CONNECTING" /\ answer' # "dead" => setup
    BY <1>3, ConnectKnowsWill DEF FirstAttempt
  <2> QED BY <2>1, <1>3 DEF FirstAttempt
<1>4. CASE Attempt
  <2> DEFINE state == IF Wedged THEN "DISCONNECTED" ELSE client
  <2>1. Connect(state) /\ state \in {client, "DISCONNECTED"}
    BY <1>4 DEF Attempt
  <2>2. client' = "CONNECTING" /\ answer' # "dead" => setup
    BY <2>1, ConnectKnowsWill
  <2> QED BY <2>2, <1>4, <1>a, AbandonedType DEF Attempt
<1>5. CASE Restart
  BY <1>5, <1>a, AbandonedType DEF Restart
<1>6. CASE Tick
  BY <1>6 DEF Tick
<1>7. CASE Accept
  BY <1>7 DEF Accept, Opened, Willed
<1>8. CASE BirthArrives
  BY <1>8, <1>a DEF BirthArrives, loop, Session
<1>9. CASE Disconnect
  BY <1>9, <1>a, AbandonedType DEF Disconnect, loop
<1>10. CASE SessionEnds
  BY <1>10, <1>a DEF SessionEnds, loop, NoSession, Willed, Session
<1>11. CASE Network
  BY <1>11 DEF Network, loop
<1>12. CASE UNCHANGED vars
  BY <1>12 DEF vars
<1> QED
  BY <1>1, <1>2, <1>3, <1>4, <1>5, <1>6, <1>7, <1>8, <1>9, <1>10, <1>11, <1>12 DEF Next, MqttCyclic

\* Home Assistant reads "online" exactly while a session stands whose birth message
\* has arrived (mqtt.cpp:94-121, 180-189).
THEOREM AvailabilityTrue == Spec => []AvailabilityIsTrue
<1>1. Init => AvailabilityInv
  BY InitTyped, InitAvailability DEF AvailabilityInv
<1>2. AvailabilityInv /\ [Next]_vars => AvailabilityInv'
  BY StepTyped, StepAvailability DEF AvailabilityInv
<1>3. AvailabilityInv => AvailabilityIsTrue
  BY DEF AvailabilityInv
<1> QED
  BY <1>1, <1>2, <1>3, PTL DEF Spec

-----------------------------------------------------------------------------
(* The attempts.                                                           *)

AttemptInv == TypeOK /\ AgesInOrder /\ PromptIsYoung

LEMMA InitAttempts == Init => AgesInOrder /\ PromptIsYoung
  BY DEF Init, AgesInOrder, PromptIsYoung

\* While loop() decides about an attempt that is open, the attempt can not be both
\* prompt and old enough to be torn down.
LEMMA StepAttempts == AttemptInv /\ [Next]_vars => AgesInOrder' /\ PromptIsYoung'
<1> SUFFICES ASSUME TypeOK, AgesInOrder, PromptIsYoung, [Next]_vars
             PROVE  AgesInOrder' /\ PromptIsYoung'
  BY DEF AttemptInv
<1> USE ReconnectInReach DEF AgesInOrder, PromptIsYoung
<1>1. CASE Setup \/ NothingToRetry \/ Grow \/ Store \/ Announce
  BY <1>1 DEF Setup, NothingToRetry, Grow, Store, Announce
<1>2. CASE FirstAttempt
  BY <1>2 DEF FirstAttempt, Connect, TypeOK
<1>3. CASE AskTimer
  <2>1. attempt \in Nat /\ delay \in Nat /\ delay >= Reconnect /\ timer \in Nat \cup {Off}
    BY DEF TypeOK
  <2>2. CASE Running >= delay
    <3>1. attempt >= Reconnect
      BY <2>1, <2>2 DEF Running, Off
    <3> QED BY <2>1, <2>2, <3>1, <1>3 DEF AskTimer, Restarted, NoConnection, Off
  <2>3. CASE ~(Running >= delay)
    BY <2>1, <2>3, <1>3 DEF AskTimer, Running, Off
  <2> QED BY <2>2, <2>3
<1>4. CASE Attempt
  <2>1. attempt' = 0 /\ timer' = 0 /\ ~first' /\ pc' = "grow"
    BY <1>4 DEF Attempt, Noted
  <2>2. tried' \in Nat
    BY <1>4 DEF Attempt, Connect, TypeOK
  <2>3. client' = "CONNECTING" /\ answer' = "prompt" => tried' <= Patience
    BY <1>4 DEF Attempt, Connect
  <2> QED BY <2>1, <2>2, <2>3 DEF Off
<1>5. CASE Restart
  BY <1>5 DEF Restart
<1>6. CASE Tick
  <2>1. attempt \in 0 .. Far /\ tried \in 0 .. Far /\ (timer # Off => timer \in 0 .. Far)
    BY DEF TypeOK
  <2>2. client # "DISCONNECTED" => attempt' <= tried'
    BY <2>1, <1>6, OlderOrder DEF Tick
  <2>3. timer' # Off => timer' <= attempt'
    BY <2>1, <1>6, OlderOrder DEF Tick, Off
  <2>4. client = "CONNECTING" /\ answer = "prompt" => tried' <= Patience
    BY <2>1, <1>6, OlderAge DEF Tick
  <2> QED BY <2>2, <2>3, <2>4, <1>6 DEF Tick
<1>7. CASE Accept
  BY <1>7 DEF Accept
<1>8. CASE BirthArrives \/ SessionEnds \/ Network
  BY <1>8 DEF BirthArrives, SessionEnds, Network, loop
<1>9. CASE Disconnect
  BY <1>9 DEF Disconnect, loop
<1>10. CASE UNCHANGED vars
  BY <1>10 DEF vars, loop
<1> QED
  BY <1>1, <1>2, <1>3, <1>4, <1>5, <1>6, <1>7, <1>8, <1>9, <1>10 DEF Next, MqttCyclic

\* What AttemptInv says of all time.
LEMMA AlwaysAttempts == Spec => []AttemptInv
<1>1. Init => AttemptInv
  BY InitTyped, InitAttempts DEF AttemptInv
<1>2. AttemptInv /\ [Next]_vars => AttemptInv'
  BY StepTyped, StepAttempts DEF AttemptInv
<1> QED
  BY <1>1, <1>2, PTL DEF Spec

\* Two attempts are never closer together than the first delay, also when the timer
\* has run on through a connection (mqtt.cpp:214-242).
THEOREM Apart == Spec => AttemptsApart
<1>1. AttemptInv /\ [Next]_vars => [pc = "attempt" /\ pc' # "attempt" => attempt >= Reconnect]_vars
  BY DEF AttemptInv, AgesInOrder
<1> QED
  BY <1>1, AlwaysAttempts, PTL DEF Spec, AttemptsApart

\* An attempt the network would answer in time is not torn down (mqtt.cpp:228-235).
THEOREM PromptLeft == Spec => PromptAttemptIsLeft
<1>1. ASSUME AttemptInv, [Next]_vars
      PROVE  [(pc = "attempt" /\ pc' # "attempt" /\ client # "DISCONNECTED" /\ tried' = 0)
                => answer # "prompt"]_vars
  <2>1. CASE UNCHANGED vars
    BY <2>1 DEF vars
  <2>2. CASE pc # "attempt" \/ client = "DISCONNECTED"
    BY <2>2
  <2>3. CASE pc = "attempt" /\ pc' # "attempt" /\ client # "DISCONNECTED" /\ answer = "prompt"
    <3>1. attempt \in Nat /\ tried \in Nat /\ attempt <= tried /\ tried <= Patience /\ attempt > 0
      BY <1>1, <2>3, ReconnectInReach DEF AttemptInv, TypeOK, AgesInOrder, PromptIsYoung
    <3>2. ~Wedged
      BY <3>1, ReconnectInReach DEF Wedged
    <3>3. Attempt \/ Restart
      BY <1>1, <2>3 DEF Next, MqttCyclic, Setup, NothingToRetry, FirstAttempt, AskTimer, Grow, Store, Announce,
         Tick, Accept, BirthArrives, Disconnect, SessionEnds, Network, loop, vars
    <3>4. tried' = tried
      BY <2>3, <3>2, <3>3 DEF Attempt, Restart, Connect
    <3> QED BY <3>1, <3>4
  <2> QED BY <2>2, <2>3
<1> QED
  BY <1>1, AlwaysAttempts, PTL DEF Spec, PromptAttemptIsLeft

-----------------------------------------------------------------------------
(* The network links.                                                      *)

WifiTells == WifiUp \cup WifiDown
EthTells  == {"ETH_GOT_IP"} \cup EthDown
Event     == WifiTells \cup EthTells \cup {"STA_CONNECTED"}

NetTypeOK ==
  /\ wifiEnable \in BOOLEAN /\ ethEnable \in BOOLEAN
  /\ station \in {"off", "trying", "associated", "connected"} /\ ethAddress \in BOOLEAN
  /\ events \in Seq(Event)
  /\ wifiConnected \in BOOLEAN /\ ethConnected \in BOOLEAN

\* The last event of a queue that is about the address brings the truth ...
LastTells(queue, truth, ups, downs) ==
  \E i \in 1 .. Len(queue) :
    /\ queue[i] \in ups \cup downs
    /\ queue[i] \in ups <=> truth
    /\ \A j \in i + 1 .. Len(queue) : queue[j] \notin ups \cup downs

\* ... and where there is none the flag has it already.
Known(queue, flag, truth, ups, downs) ==
  \/ LastTells(queue, truth, ups, downs)
  \/ (\A i \in 1 .. Len(queue) : queue[i] \notin ups \cup downs) /\ (flag <=> truth)

WifiKnown == wifiEnable => Known(events, wifiConnected, station = "connected", WifiUp, WifiDown)
EthKnown  == Known(events, ethConnected, ethAddress, {"ETH_GOT_IP"}, EthDown)

LinkInv == NetTypeOK /\ WifiKnown /\ EthKnown

\* An event that is about the address makes the new state known.
LEMMA ReportKnown ==
  ASSUME NEW queue \in Seq(Event), NEW event \in Event, NEW flag, NEW truth,
         NEW ups, NEW downs, event \in ups \cup downs, event \in ups <=> truth
  PROVE  Known(queue \o <<event>>, flag, truth, ups, downs)
<1> DEFINE longer == queue \o <<event>>
<1>1. Len(longer) = Len(queue) + 1 /\ longer[Len(queue) + 1] = event
  OBVIOUS
<1>2. Len(queue) + 1 \in 1 .. Len(longer)
  BY <1>1
<1>3. \A j \in Len(queue) + 2 .. Len(longer) : FALSE
  BY <1>1
<1> QED
  BY <1>1, <1>2, <1>3 DEF Known, LastTells

\* Any other event leaves known what was known.
LEMMA OtherReportKnown ==
  ASSUME NEW queue \in Seq(Event), NEW event \in Event, NEW flag, NEW truth,
         NEW ups, NEW downs, event \notin ups \cup downs, Known(queue, flag, truth, ups, downs)
  PROVE  Known(queue \o <<event>>, flag, truth, ups, downs)
<1> DEFINE longer == queue \o <<event>>
<1>1. /\ Len(longer) = Len(queue) + 1 /\ longer[Len(queue) + 1] = event
      /\ \A i \in 1 .. Len(queue) : longer[i] = queue[i]
  OBVIOUS
<1>2. \A i \in 1 .. Len(longer) : i \in 1 .. Len(queue) \/ i = Len(queue) + 1
  BY <1>1
<1>3. CASE LastTells(queue, truth, ups, downs)
  <2>1. PICK i \in 1 .. Len(queue) :
          /\ queue[i] \in ups \cup downs
          /\ queue[i] \in ups <=> truth
          /\ \A j \in i + 1 .. Len(queue) : queue[j] \notin ups \cup downs
    BY <1>3 DEF LastTells
  <2>2. i \in 1 .. Len(longer) /\ longer[i] = queue[i]
    BY <1>1
  <2>3. \A j \in i + 1 .. Len(longer) : longer[j] \notin ups \cup downs
    BY <1>1, <1>2, <2>1
  <2> QED
    BY <2>1, <2>2, <2>3 DEF Known, LastTells
<1>4. CASE (\A i \in 1 .. Len(queue) : queue[i] \notin ups \cup downs) /\ (flag <=> truth)
  BY <1>1, <1>2, <1>4 DEF Known
<1> QED
  BY <1>3, <1>4 DEF Known

\* The oldest event is handled: either a later one brings the truth, or the flag that
\* this one leaves is true.
LEMMA HandledKnown ==
  ASSUME NEW queue \in Seq(Event), queue # <<>>, NEW flag, NEW truth,
         NEW ups, NEW downs, ups \cap downs = {}, Known(queue, flag, truth, ups, downs)
  PROVE  Known(Tail(queue), FlagAfter(flag, Head(queue), ups, downs), truth, ups, downs)
<1> DEFINE shorter == Tail(queue)
           new == FlagAfter(flag, Head(queue), ups, downs)
<1>1. /\ Len(shorter) = Len(queue) - 1 /\ Head(queue) = queue[1] /\ Len(queue) \in Nat \ {0}
      /\ \A i \in 1 .. Len(shorter) : shorter[i] = queue[i + 1]
  OBVIOUS
<1>2. CASE LastTells(queue, truth, ups, downs)
  <2>1. PICK i \in 1 .. Len(queue) :
          /\ queue[i] \in ups \cup downs
          /\ queue[i] \in ups <=> truth
          /\ \A j \in i + 1 .. Len(queue) : queue[j] \notin ups \cup downs
    BY <1>2 DEF LastTells
  <2>2. CASE i = 1
    <3>1. new <=> truth
      BY <1>1, <2>1, <2>2 DEF FlagAfter
    <3>2. \A j \in 1 .. Len(shorter) : shorter[j] \notin ups \cup downs
      BY <1>1, <2>1, <2>2
    <3> QED
      BY <3>1, <3>2 DEF Known
  <2>3. CASE i # 1
    <3>1. i - 1 \in 1 .. Len(shorter) /\ shorter[i - 1] = queue[i]
      BY <1>1, <2>3
    <3>2. \A j \in (i - 1) + 1 .. Len(shorter) : shorter[j] \notin ups \cup downs
      BY <1>1, <2>1, <2>3
    <3> QED
      BY <2>1, <3>1, <3>2 DEF Known, LastTells
  <2> QED
    BY <2>2, <2>3
<1>3. CASE (\A i \in 1 .. Len(queue) : queue[i] \notin ups \cup downs) /\ (flag <=> truth)
  <2>1. Head(queue) \notin ups \cup downs
    BY <1>1, <1>3
  <2>2. new <=> truth
    BY <1>3, <2>1 DEF FlagAfter
  <2>3. \A i \in 1 .. Len(shorter) : shorter[i] \notin ups \cup downs
    BY <1>1, <1>3
  <2> QED
    BY <2>2, <2>3 DEF Known
<1> QED
  BY <1>2, <1>3 DEF Known

LEMMA LinkInit == NetInit => LinkInv
<1> SUFFICES ASSUME NetInit PROVE LinkInv
  OBVIOUS
<1>1. station \in {"off", "trying"} /\ events \in Seq(Event) /\ Len(events) = 0
  BY DEF NetInit
<1>2. NetTypeOK
  BY <1>1 DEF NetInit, NetTypeOK
<1>3. (wifiConnected <=> station = "connected") /\ (ethConnected <=> ethAddress)
  BY <1>1 DEF NetInit
<1> QED
  BY <1>1, <1>2, <1>3 DEF LinkInv, WifiKnown, EthKnown, Known

\* A report of WiFi says nothing of the cable.
LEMMA EthKeepsKnown ==
  ASSUME LinkInv, NEW event \in WifiTells \cup {"STA_CONNECTED"}, events' = events \o <<event>>,
         UNCHANGED <<ethConnected, ethAddress>>
  PROVE  EthKnown'
<1>1. event \in Event /\ event \notin {"ETH_GOT_IP"} \cup EthDown
  BY DEF Event, WifiTells, WifiUp, WifiDown, EthDown
<1>2. Known(events \o <<event>>, ethConnected, ethAddress, {"ETH_GOT_IP"}, EthDown)
  BY <1>1, OtherReportKnown DEF LinkInv, NetTypeOK, EthKnown
<1> QED
  BY <1>2 DEF EthKnown

\* A report that agrees with the station keeps what is known of WiFi.
LEMMA WifiReported ==
  ASSUME LinkInv, NEW event \in WifiTells, events' = events \o <<event>>,
         event \in WifiUp <=> station' = "connected"
  PROVE  WifiKnown'
<1>1. event \in Event /\ event \in WifiUp \cup WifiDown
  BY DEF Event, WifiTells
<1>2. Known(events \o <<event>>, wifiConnected', station' = "connected", WifiUp, WifiDown)
  BY <1>1, ReportKnown DEF LinkInv, NetTypeOK
<1> QED
  BY <1>2 DEF WifiKnown, WifiUp, WifiDown

\* A report of anything else keeps it as long as the station is as connected as before.
LEMMA WifiKeepsKnown ==
  ASSUME LinkInv, NEW event \in EthTells \cup {"STA_CONNECTED"}, events' = events \o <<event>>,
         UNCHANGED <<wifiEnable, wifiConnected>>, station' = "connected" <=> station = "connected"
  PROVE  WifiKnown'
<1>1. event \in Event /\ event \notin WifiUp \cup WifiDown
  BY DEF Event, EthTells, WifiUp, WifiDown, EthDown
<1>2. wifiEnable => Known(events, wifiConnected, station' = "connected", WifiUp, WifiDown)
  BY DEF LinkInv, WifiKnown, Known, LastTells
<1>3. wifiEnable => Known(events \o <<event>>, wifiConnected, station' = "connected", WifiUp, WifiDown)
  BY <1>1, <1>2, OtherReportKnown DEF LinkInv, NetTypeOK
<1> QED
  BY <1>3 DEF WifiKnown, WifiUp, WifiDown

LEMMA LinkInductive == LinkInv /\ [NetNext]_netVars => LinkInv'
<1> SUFFICES ASSUME LinkInv, [NetNext]_netVars PROVE LinkInv'
  OBVIOUS
<1> USE DEF Reports, setting, checker, driver
<1>a. NetTypeOK
  BY DEF LinkInv
\* One report of the station, which becomes something else.
<1>b. ASSUME NEW event \in WifiTells \cup {"STA_CONNECTED"}, events' = events \o <<event>>,
             station' \in {"off", "trying", "associated", "connected"},
             event \in WifiTells => (event \in WifiUp <=> station' = "connected"),
             event \notin WifiTells => (station' = "connected" <=> station = "connected"),
             UNCHANGED <<wifiConnected, ethConnected, ethAddress, setting>>
      PROVE  LinkInv'
  <2>1. event \in Event
    BY <1>b DEF Event
  <2>2. NetTypeOK'
    BY <1>a, <1>b, <2>1 DEF NetTypeOK
  <2>3. EthKnown'
    BY <1>b, EthKeepsKnown
  <2>4. WifiKnown'
    <3>1. CASE event \in WifiTells
      BY <1>b, <3>1, WifiReported
    <3>2. CASE event \notin WifiTells
      BY <1>b, <3>2, WifiKeepsKnown
    <3> QED BY <3>1, <3>2
  <2> QED BY <2>2, <2>3, <2>4 DEF LinkInv
\* The station becomes something else and says nothing.
<1>c. ASSUME UNCHANGED <<events, wifiConnected, ethConnected, ethAddress, setting>>,
             station' \in {"off", "trying", "associated", "connected"},
             station' = "connected" <=> station = "connected"
      PROVE  LinkInv'
  BY <1>a, <1>c DEF LinkInv, NetTypeOK, WifiKnown, EthKnown, Known, LastTells, WifiUp, WifiDown, EthDown
<1>1. CASE Associate
  <2>1. "STA_CONNECTED" \notin WifiTells
    BY DEF WifiTells, WifiUp, WifiDown
  <2> QED BY <1>1, <1>b, <2>1 DEF Associate
<1>2. CASE GetAddress
  <2>1. "STA_GOT_IP" \in WifiTells /\ "STA_GOT_IP" \in WifiUp
    BY DEF WifiTells, WifiUp
  <2> QED BY <1>2, <1>b, <2>1 DEF GetAddress
<1>3. CASE LoseAccessPoint
  <2>1. "STA_DISCONNECTED" \in WifiTells /\ "STA_DISCONNECTED" \notin WifiUp
    BY DEF WifiTells, WifiUp, WifiDown
  <2> QED BY <1>3, <1>b, <2>1 DEF LoseAccessPoint
<1>4. CASE LoseLease
  <2>1. "STA_LOST_IP" \in WifiTells /\ "STA_LOST_IP" \notin WifiUp
    BY DEF WifiTells, WifiUp, WifiDown
  <2> QED BY <1>4, <1>b, <2>1 DEF LoseLease
<1>5. CASE GiveUp
  BY <1>5, <1>c DEF GiveUp
<1>6. CASE AccessPointChanges \/ Check \/ GrowDelay \/ StoreDelay \/ Passes
  BY <1>6, <1>a, <1>c DEF AccessPointChanges, Check, GrowDelay, StoreDelay, Passes, NetTypeOK
<1>7. CASE Cable
  <2>1. PICK event \in EthTells : /\ events' = events \o <<event>>
                                  /\ event = "ETH_GOT_IP" <=> ~ethAddress
    BY <1>7 DEF Cable, EthTells, EthDown
  <2>2. ethAddress' = ~ethAddress /\ UNCHANGED <<station, wifiConnected, ethConnected, setting>>
    BY <1>7 DEF Cable
  <2>3. event \in Event
    BY DEF Event
  <2>4. NetTypeOK'
    BY <1>a, <2>1, <2>2, <2>3 DEF NetTypeOK
  <2>5. WifiKnown'
    BY <2>1, <2>2, WifiKeepsKnown
  <2>6. Known(events \o <<event>>, ethConnected, ethAddress', {"ETH_GOT_IP"}, EthDown)
    BY <1>a, <2>1, <2>2, <2>3, ReportKnown DEF NetTypeOK, EthTells
  <2> QED BY <2>1, <2>2, <2>4, <2>5, <2>6 DEF LinkInv, EthKnown, EthDown
<1>8. CASE Handle
  <2>1. events \in Seq(Event) /\ events # <<>> /\ events' = Tail(events)
    BY <1>8, <1>a DEF Handle, NetTypeOK
  <2>2. UNCHANGED <<driver, setting>>
    BY <1>8 DEF Handle
  <2>3. ethConnected' = FlagAfter(ethConnected, Head(events), {"ETH_GOT_IP"}, EthDown)
        /\ wifiConnected' = IF wifiEnable THEN FlagAfter(wifiConnected, Head(events), WifiUp, WifiDown)
                            ELSE wifiConnected
    BY <1>8 DEF Handle
  <2>4. NetTypeOK'
    <3>1. Tail(events) \in Seq(Event)
      BY <2>1
    <3>2. ethConnected' \in BOOLEAN /\ wifiConnected' \in BOOLEAN
      BY <1>a, <2>3, Zenon DEF NetTypeOK, FlagAfter
    <3> QED
      BY <1>a, <2>1, <2>2, <3>1, <3>2 DEF NetTypeOK
  <2>5. Known(Tail(events), ethConnected', ethAddress, {"ETH_GOT_IP"}, EthDown)
    BY <2>1, <2>3, HandledKnown DEF LinkInv, EthKnown, EthDown
  <2>6. wifiEnable => Known(Tail(events), wifiConnected', station = "connected", WifiUp, WifiDown)
    BY <2>1, <2>3, HandledKnown DEF LinkInv, WifiKnown, WifiUp, WifiDown
  <2> QED BY <2>1, <2>2, <2>4, <2>5, <2>6 DEF LinkInv, EthKnown, WifiKnown, EthDown, WifiUp, WifiDown
<1>9. CASE BeginWifi
  <2>1. CASE station \in {"off", "trying"}
    BY <1>9, <1>c, <2>1 DEF BeginWifi
  <2>2. CASE station \in {"associated", "connected"} /\ station' = "trying" /\ Reports(<<"STA_DISCONNECTED">>)
    <3>1. "STA_DISCONNECTED" \in WifiTells /\ "STA_DISCONNECTED" \notin WifiUp
      BY DEF WifiTells, WifiUp, WifiDown
    <3> QED BY <1>9, <1>b, <2>2, <3>1 DEF BeginWifi
  <2>3. CASE UNCHANGED <<station, started, events>>
    BY <1>9, <1>a, <1>c, <2>3 DEF BeginWifi, NetTypeOK
  <2> QED BY <1>9, <2>1, <2>2, <2>3 DEF BeginWifi
<1>10. CASE UNCHANGED netVars
  BY <1>10, <1>a, <1>c DEF netVars, NetTypeOK
<1> QED
  BY <1>1, <1>2, <1>3, <1>4, <1>5, <1>6, <1>7, <1>8, <1>9, <1>10 DEF NetNext, CheckWiFi, Driver

\* Once every event is handled the flags say which links have an address, for any
\* number of events under way: an event that ends a link is never overtaken, and none
\* is missing (basics.cpp:57-83, 128-137 and 156-184).
THEOREM LinksTrue == NetSpec => []LinkIsTrue
<1>1. LinkInv => LinkIsTrue
  BY DEF LinkInv, WifiKnown, EthKnown, Known, LastTells, LinkIsTrue
<1> QED
  BY <1>1, LinkInit, LinkInductive, PTL DEF NetSpec

-----------------------------------------------------------------------------
(* Home Assistant's entities.                                              *)

HaTypeOK ==
  /\ base \in Bases
  /\ haSession \in {"down", "up", "dying"}
  /\ sweep \in Sweep
  /\ retained \in [Entity -> Bases \cup {Nothing}]
  /\ unspoilt \in BOOLEAN

\* What a sweep is to leave, with resets none.
Goal == IF sweep.reset THEN Nothing ELSE base

\* An unspoilt sweep goes on in one session with the base topic it began with, and
\* what it has passed is as wanted.
PassedAsWanted ==
  unspoilt =>
    /\ haSession = "up"
    /\ sweep.next # 0 =>
         /\ sweep.prefix = base
         /\ \A e \in 1 .. sweep.next - 1 : Fits(e, base) => retained[e] = Wanted(e, Goal)

HaInv == HaTypeOK /\ PassedAsWanted

LEMMA EntitiesPositive == Entities \in Nat \ {0}
  BY HaAssumption

\* A sweep that has only begun has passed nothing.
LEMMA SweepStarts ==
  ASSUME HaTypeOK, NEW reset \in BOOLEAN, NEW again \in BOOLEAN, SweepBegins(reset, again),
         UNCHANGED <<haConfig, haSession>>
  PROVE  sweep' \in Sweep /\ unspoilt' \in BOOLEAN /\ PassedAsWanted'
<1>1. sweep' = [next |-> 1, reset |-> reset, again |-> again, prefix |-> base]
      /\ unspoilt' = (haSession = "up") /\ base' = base /\ base \in Bases /\ haSession' = haSession
  BY DEF SweepBegins, haConfig, HaTypeOK
<1>2. 1 \in 0 .. Entities
  BY EntitiesPositive
<1>3. sweep' \in Sweep /\ sweep'.next = 1 /\ sweep'.prefix = base'
  BY <1>1, <1>2 DEF Sweep
<1>4. \A e \in 1 .. sweep'.next - 1 : FALSE
  BY <1>3
<1> QED
  BY <1>1, <1>3, <1>4 DEF PassedAsWanted

\* No sweep is one, too.
LEMMA NoSweepTyped ==
  ASSUME NEW b \in Bases
  PROVE  NoSweep(b) \in Sweep /\ NoSweep(b).next = 0
<1>1. 0 \in 0 .. Entities
  BY EntitiesPositive
<1> QED
  BY <1>1 DEF NoSweep, Sweep

\* An entity that is visited in an unspoilt sweep is as wanted from then on, and those
\* before it stay so.
LEMMA VisitedAsWanted ==
  ASSUME HaInv, Visit, unspoilt
  PROVE  /\ haSession = "up" /\ sweep.next \in Entity
         /\ retained' \in [Entity -> Bases \cup {Nothing}]
         /\ \A e \in 1 .. sweep.next : Fits(e, base) => retained'[e] = Wanted(e, Goal)
<1>1. haSession = "up" /\ sweep.next \in Entity /\ sweep.prefix = base /\ base \in Bases
      /\ sweep.next \in Nat /\ retained \in [Entity -> Bases \cup {Nothing}]
  BY EntitiesPositive DEF HaInv, HaTypeOK, PassedAsWanted, Visit, Sweep, Entity
<1> DEFINE v == sweep.next
           now == IF v \in Optional \ enabled THEN Withdrawn(v) ELSE Announced(v)
<1>2. retained' = [retained EXCEPT ![v] = now]
  BY <1>1 DEF Visit
<1>3. now \in Bases \cup {Nothing}
  BY <1>1 DEF Withdrawn, Announced
<1>4. Fits(v, base) => now = Wanted(v, Goal)
  BY <1>1 DEF Fits, Wanted, Goal, Withdrawn, Announced
<1>5. \A e \in 1 .. v : e \in Entity /\ (e = v \/ e \in 1 .. v - 1)
  <2>1. v \in 1 .. Entities /\ Entities \in Nat
    BY <1>1, EntitiesPositive DEF Entity
  <2> QED
    BY <2>1 DEF Entity
<1>6. \A e \in 1 .. v - 1 : Fits(e, base) => retained[e] = Wanted(e, Goal)
  BY <1>1 DEF HaInv, PassedAsWanted, Entity
<1>7. ASSUME NEW e \in 1 .. v, Fits(e, base)
      PROVE  retained'[e] = Wanted(e, Goal)
  <2>1. CASE e = v
    BY <1>1, <1>2, <1>4, <1>7, <2>1
  <2>2. CASE e # v
    BY <1>1, <1>2, <1>5, <1>6, <1>7, <2>2
  <2> QED BY <2>1, <2>2
<1> QED
  BY <1>1, <1>2, <1>3, <1>7

LEMMA HaStarts == HaInit => HaInv
  BY NoSweepTyped DEF HaInit, HaInv, HaTypeOK, PassedAsWanted

\* As long as nobody touches sweep, entities and configuration they stay as wanted.
LEMMA NothingPassed ==
  ASSUME HaInv, UNCHANGED <<haConfig, sweep, retained>>, unspoilt' => unspoilt /\ haSession' = haSession
  PROVE  PassedAsWanted'
  BY DEF HaInv, PassedAsWanted, Fits, Wanted, Goal, haConfig

LEMMA HaInductive == HaInv /\ [HaNext]_haVars => HaInv'
<1> SUFFICES ASSUME HaInv, [HaNext]_haVars PROVE HaInv'
  OBVIOUS
<1>a. HaTypeOK /\ PassedAsWanted
  BY DEF HaInv
<1>1. CASE HaConnect
  <2>1. PassedAsWanted'
    BY <1>1, <1>a DEF HaConnect, PassedAsWanted
  <2> QED BY <1>1, <1>a, <2>1 DEF HaConnect, HaInv, HaTypeOK, haConfig
<1>2. CASE Dies
  BY <1>2, <1>a, NothingPassed DEF Dies, HaInv, HaTypeOK, haConfig
<1>3. CASE HaDisconnect
  <2>1. PassedAsWanted'
    BY <1>3, <1>a DEF HaDisconnect, PassedAsWanted
  <2> QED BY <1>3, <1>a, <2>1 DEF HaDisconnect, HaInv, HaTypeOK, haConfig
<1>4. CASE \E what \in {"online", "reconfigure"} : Hears(what)
  BY <1>4, <1>a, NothingPassed DEF Hears, HaInv, HaTypeOK, haConfig
<1>5. CASE Edit
  BY <1>5, <1>a DEF Edit, HaInv, HaTypeOK, PassedAsWanted
<1>6. CASE Reboot
  <2>1. sweep' \in Sweep
    BY <1>6, <1>a, NoSweepTyped DEF Reboot, HaTypeOK
  <2> QED BY <1>6, <1>a, <2>1 DEF Reboot, HaInv, HaTypeOK, PassedAsWanted, haConfig
<1>7. CASE BootUpMessages
  <2>1. CASE haEnable
    BY <1>7, <1>a, <2>1, SweepStarts DEF BootUpMessages, HaInv, HaTypeOK, haConfig
  <2>2. CASE ~haEnable
    BY <1>7, <1>a, <2>2, NothingPassed DEF BootUpMessages, HaInv, HaTypeOK, haConfig
  <2> QED BY <2>1, <2>2
<1>8. CASE HaIsOnline
  <2>1. CASE haEnable
    BY <1>8, <1>a, <2>1, SweepStarts DEF HaIsOnline, Welcome, HaInv, HaTypeOK, haConfig
  <2>2. CASE ~haEnable
    BY <1>8, <1>a, <2>2, NothingPassed DEF HaIsOnline, Welcome, HaInv, HaTypeOK, haConfig
  <2> QED BY <2>1, <2>2
<1>9. CASE Reconfigure
  BY <1>9, <1>a, SweepStarts DEF Reconfigure, HaInv, HaTypeOK, haConfig
<1>10. CASE Visit
  <2>1. retained' \in [Entity -> Bases \cup {Nothing}]
    BY <1>10, <1>a DEF Visit, HaTypeOK, Sweep, Withdrawn, Announced
  <2>2. UNCHANGED <<haConfig, haSession>> /\ base' = base
    BY <1>10 DEF Visit, haConfig
  <2>3. CASE sweep.next < Entities
    <3>1. sweep' = [sweep EXCEPT !.next = sweep.next + 1] /\ unspoilt' = unspoilt
      BY <1>10, <2>3 DEF Visit
    <3>2. sweep.next \in Nat /\ sweep.next + 1 \in 0 .. Entities
      BY <1>a, <2>3, EntitiesPositive DEF HaTypeOK, Sweep
    <3>3. /\ sweep' \in Sweep /\ sweep'.next = sweep.next + 1
          /\ sweep'.prefix = sweep.prefix /\ sweep'.reset = sweep.reset
      BY <1>a, <3>1, <3>2 DEF HaTypeOK, Sweep
    <3>4. ASSUME unspoilt
          PROVE  \A e \in 1 .. sweep.next : Fits(e, base) => retained'[e] = Wanted(e, Goal)
      BY <1>10, <3>4, VisitedAsWanted
    <3>5. PassedAsWanted'
      <4>1. SUFFICES ASSUME unspoilt
                     PROVE  /\ haSession' = "up" /\ sweep'.prefix = base'
                            /\ \A e \in 1 .. sweep'.next - 1 : Fits(e, base)' => retained'[e] = Wanted(e, Goal)'
        BY <3>1 DEF PassedAsWanted
      <4>2. sweep'.next - 1 = sweep.next
        BY <3>2, <3>3
      <4>3. haSession = "up" /\ sweep.prefix = base
        BY <1>10, <1>a, <4>1 DEF PassedAsWanted, Visit
      <4> QED
        BY <2>2, <3>3, <3>4, <4>1, <4>2, <4>3 DEF Fits, Wanted, Goal, haConfig
    <3> QED BY <1>a, <2>1, <2>2, <3>1, <3>3, <3>5 DEF HaInv, HaTypeOK
  <2>4. CASE ~(sweep.next < Entities) /\ sweep.again
    <3>1. SweepBegins(FALSE, FALSE)
      BY <1>10, <2>4 DEF Visit
    <3>2. sweep' \in Sweep /\ unspoilt' \in BOOLEAN /\ PassedAsWanted'
      BY <1>a, <2>2, <3>1, SweepStarts
    <3> QED BY <1>a, <2>1, <2>2, <3>2 DEF HaInv, HaTypeOK
  <2>5. CASE ~(sweep.next < Entities) /\ ~sweep.again
    <3>1. sweep' = NoSweep(base) /\ unspoilt' = unspoilt
      BY <1>10, <2>5 DEF Visit
    <3>2. sweep' \in Sweep /\ sweep'.next = 0
      BY <1>a, <3>1, NoSweepTyped DEF HaTypeOK
    <3> QED BY <1>a, <2>1, <2>2, <3>1, <3>2 DEF HaInv, HaTypeOK, PassedAsWanted
  <2> QED BY <2>3, <2>4, <2>5
<1>11. CASE UNCHANGED haVars
  BY <1>11, <1>a, NothingPassed DEF haVars, HaInv, HaTypeOK, haConfig
<1> QED
  BY <1>1, <1>2, <1>3, <1>4, <1>5, <1>6, <1>7, <1>8, <1>9, <1>10, <1>11 DEF HaNext, Loop

\* A sweep that ends with nothing lost or edited since it began leaves the broker with
\* exactly the configurations wanted, for any number of entities, whichever payloads do
\* not fit and whatever the broker retained before (mqttDiscovery.cpp:229-261, 288-351).
THEOREM SweepComplete == HaSpec => SweepIsComplete
<1> DEFINE Ends == sweep.next = Entities /\ sweep'.next # Entities /\ unspoilt /\ haSession' = haSession
           Complete == \A e \in Entity : Fits(e, base) => retained'[e] = Wanted(e, IF sweep.reset THEN Nothing ELSE base)
<1>1. HaInv /\ [HaNext]_haVars => [Ends => Complete]_haVars
  <2> SUFFICES ASSUME HaInv, [HaNext]_haVars, ~UNCHANGED haVars, Ends
               PROVE  Complete
    OBVIOUS
  <2>1. haSession = "up" /\ sweep.next # 0
    BY EntitiesPositive DEF HaInv, PassedAsWanted
  <2>2. Visit
    BY <2>1 DEF HaNext, Loop, HaConnect, Dies, HaDisconnect, Hears, Edit, Reboot, BootUpMessages,
       HaIsOnline, Reconfigure
  <2>3. \A e \in 1 .. sweep.next : Fits(e, base) => retained'[e] = Wanted(e, Goal)
    BY <2>2, VisitedAsWanted
  <2> QED
    BY <2>3 DEF Entity, Goal
<1>2. HaSpec => []HaInv
  BY HaStarts, HaInductive, PTL DEF HaSpec
<1> QED
  BY <1>1, <1>2, PTL DEF HaSpec, SweepIsComplete
=============================================================================

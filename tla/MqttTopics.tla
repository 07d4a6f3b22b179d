------------------------------- MODULE MqttTopics -------------------------------
(***************************************************************************)
(* How MQTT messages are told apart (mqttHandleCommand, src/mqtt.cpp).     *)
(* Every topic, to publish, to subscribe or to compare with, is put        *)
(* together by addTopic() in one static buffer, and read there by the next *)
(* call.  loop() does so all the time, and the AsyncTCP task in            *)
(* onMqttConnect(): what one filled in the other may read.                 *)
(*                                                                         *)
(* A topic is its part after the base topic.  A message has a topic of a   *)
(* family, perhaps with a number and a part after it, and a payload that   *)
(* the handler knows or not; which words those are is left out, and so is  *)
(* what the operations do that it calls.                                   *)
(* An operator marked "Slip" is a plausible bug in the one below it.       *)
(***************************************************************************)
EXTENDS Integers, Sequences

CONSTANTS
  Channels,  \* shutters
  Groups     \* groups, fewer than shutters

ASSUME TopicsAssumption == Channels \in Nat /\ Groups \in Nat /\ Groups < Channels

VARIABLES
  newTopic,    \* addTopic()'s buffer: what follows the base topic
  todo,        \* what each task still has to do, step by step
  ownBuffer,   \* no other task filled the buffer since it began
  message,     \* what loop() handles, if it does
  channel,     \* what checkJaroCmd found of a shutter,
  group,       \* and of a group
  outcome,     \* what became of the message
  published,   \* where loop() published last
  subscribed   \* what brings messages: the session's subscriptions but those gone astray

topicsVars == <<newTopic, todo, ownBuffer, message, channel, group, outcome, published, subscribed>>
found == <<channel, group>>

Words == {"restart", "reconfigure", "group/up", "group/down", "group/stop", "group/shade"}
Subtopics == {"set_position", "calibrate"}

\* "other" is anything else that may follow, and a family the handler does not know.
Topic ==
  [family : {"shutter", "group"}, index : 0 .. Channels + 1, sub : Subtopics \cup {"", "other"}]
    \cup [family : Words \cup {"homeassistant/status", "other"}, index : {0}, sub : {""}]
Message == [topic : Topic, known : BOOLEAN]
NoMessage == [topic |-> [family |-> "none", index |-> 0, sub |-> ""], known |-> FALSE]

NoMatch == -1
BadIndex == -2
Outcome(to, index) == [to |-> to, index |-> index]
Pending == Outcome("pending", 0)
Refused == Outcome("refused", 0)
Unknown == Outcome("unknown", 0)

-----------------------------------------------------------------------------
(* What the tasks do with the buffer: fill it, or use what is in it.       *)

Fill(suffix) == <<"fill", suffix>>
Use(purpose) == <<"use", purpose>>
Compare(suffix, purpose) == <<Fill(suffix), Use(purpose)>>

\* Slip: both topics are put together before the first is used.
ShutterThenGroupAliased == <<Fill("shutter"), Fill("group"), Use("channel"), Use("group")>>

ShutterThenGroup == Compare("shutter", "channel") \o Compare("group", "group")

Reply == Compare("message", "publish")

\* mqttHandleCommand.
Handling ==
  Compare("shutter", "subtopic") \o ShutterThenGroup
  \o Compare("restart", "word") \o Compare("reconfigure", "word") \o <<Use("found")>>
  \o Compare("group/up", "word") \o Compare("group/down", "word")
  \o Compare("group/stop", "word") \o Compare("group/shade", "word")
  \o <<Use("unknown")>>

\* onMqttConnect, from sendWiFiInfo on.
Connecting ==
  Compare("wifi", "publish") \o Compare("cmd/#", "subscribe") \o Compare("setvalue/#", "subscribe")
  \o <<Use("status")>>

TopicsInit ==
  /\ newTopic = "" /\ todo = [t \in {"loop", "tcp"} |-> <<>>]
  /\ ownBuffer = [t \in {"loop", "tcp"} |-> TRUE]
  /\ message = NoMessage /\ channel = NoMatch /\ group = NoMatch
  /\ outcome = Pending /\ published = "" /\ subscribed = {}

Doing(t, step) == todo[t] # <<>> /\ Head(todo[t]) = step
Goes(t, steps) == todo' = [todo EXCEPT ![t] = steps]
GoesOn(t) == Goes(t, Tail(todo[t]))
Busy(t) == todo[t] # <<>>

\* addTopic, in either task.
AddTopic(t) ==
  /\ Busy(t) /\ Head(todo[t])[1] = "fill"
  /\ newTopic' = Head(todo[t])[2]
  /\ GoesOn(t)
  /\ ownBuffer' = [u \in DOMAIN ownBuffer |-> ownBuffer[u] /\ (u = t \/ ~Busy(u))]
  /\ UNCHANGED <<message, found, outcome, published, subscribed>>

-----------------------------------------------------------------------------
(* loop().                                                                 *)

\* A message is taken from the command queue, perhaps one of an earlier session.
TakeMessage ==
  /\ ~Busy("loop")
  /\ message' \in Message /\ Goes("loop", Handling)
  /\ channel' = NoMatch /\ group' = NoMatch /\ outcome' = Pending /\ published' = ""
  /\ ownBuffer' = [ownBuffer EXCEPT !["loop"] = TRUE]
  /\ UNCHANGED <<newTopic, subscribed>>

\* What loop() publishes of itself: sendWiFiInfo, sendETHInfo, sendSysInfo.
SendInfo ==
  /\ ~Busy("loop") /\ \E suffix \in {"wifi", "eth", "sysinfo"} : Goes("loop", Compare(suffix, "publish"))
  /\ message' = NoMessage /\ channel' = NoMatch /\ group' = NoMatch /\ outcome' = Pending /\ published' = ""
  /\ ownBuffer' = [ownBuffer EXCEPT !["loop"] = TRUE]
  /\ UNCHANGED <<newTopic, subscribed>>

\* The message is dealt with; what is refused or unknown is answered.
DealtWith(result) ==
  /\ outcome' = result
  /\ Goes("loop", IF result \in {Refused, Unknown} THEN Reply ELSE <<>>)

OnToTheNext == GoesOn("loop") /\ UNCHANGED outcome

\* A prefix of the topic is looked for in the buffer, whatever that holds by now.
CheckJaroCmd(topic, max) ==
  IF topic.family = newTopic /\ topic.sub = ""
  THEN IF topic.index \in 1 .. max THEN topic.index ELSE BadIndex
  ELSE NoMatch

Addressed(to, index) == IF index # BadIndex /\ message.known THEN Outcome(to, index) ELSE Refused

\* <base>/cmd/shutter/<n>/set_position and .../calibrate.
UseSubtopic ==
  /\ Doing("loop", Use("subtopic"))
  /\ LET topic == message.topic
     IN  IF topic.family = newTopic /\ topic.sub \in Subtopics
         THEN DealtWith(Addressed(topic.sub, IF topic.index \in 1 .. Channels THEN topic.index ELSE BadIndex))
         ELSE OnToTheNext
  /\ UNCHANGED <<newTopic, ownBuffer, message, found, published, subscribed>>

UseChannel ==
  /\ Doing("loop", Use("channel")) /\ GoesOn("loop")
  /\ channel' = CheckJaroCmd(message.topic, Channels)
  /\ UNCHANGED <<newTopic, ownBuffer, message, group, outcome, published, subscribed>>

UseGroup ==
  /\ Doing("loop", Use("group")) /\ GoesOn("loop")
  /\ group' = CheckJaroCmd(message.topic, Groups)
  /\ UNCHANGED <<newTopic, ownBuffer, message, channel, outcome, published, subscribed>>

\* A topic that is one word; a bitmask may be anything, and parses to some number.
UseWord ==
  /\ Doing("loop", Use("word"))
  /\ IF message.topic.family = newTopic THEN DealtWith(Outcome(newTopic, 0)) ELSE OnToTheNext
  /\ UNCHANGED <<newTopic, ownBuffer, message, found, published, subscribed>>

\* The topic of Home Assistant, then what was found of shutters and groups.
UseFound ==
  /\ Doing("loop", Use("found"))
  /\ IF message.topic.family = "homeassistant/status"
     THEN DealtWith(Outcome(IF message.known THEN "discovery" ELSE "ignored", 0))
     ELSE IF channel # NoMatch THEN DealtWith(Addressed("shutter", channel))
     ELSE IF group # NoMatch THEN DealtWith(Addressed("group", group))
     ELSE OnToTheNext
  /\ UNCHANGED <<newTopic, ownBuffer, message, found, published, subscribed>>

UseUnknown ==
  /\ Doing("loop", Use("unknown")) /\ DealtWith(Unknown)
  /\ UNCHANGED <<newTopic, ownBuffer, message, found, published, subscribed>>

UsePublish ==
  /\ Doing("loop", Use("publish")) /\ GoesOn("loop")
  /\ published' = newTopic
  /\ UNCHANGED <<newTopic, ownBuffer, message, found, outcome, subscribed>>

-----------------------------------------------------------------------------
(* onMqttConnect, in the AsyncTCP task.                                    *)

OnMqttConnect ==
  /\ ~Busy("tcp") /\ Goes("tcp", Connecting)
  /\ subscribed' = {}
  /\ ownBuffer' = [ownBuffer EXCEPT !["tcp"] = TRUE]
  /\ UNCHANGED <<newTopic, message, found, outcome, published>>

SendWiFiInfo ==
  /\ Doing("tcp", Use("publish")) /\ GoesOn("tcp")
  /\ UNCHANGED <<newTopic, ownBuffer, message, found, outcome, published, subscribed>>

Subscribe ==
  /\ Doing("tcp", Use("subscribe")) /\ GoesOn("tcp")
  /\ subscribed' = subscribed \cup ({newTopic} \cap {"cmd/#", "setvalue/#"})
  /\ UNCHANGED <<newTopic, ownBuffer, message, found, outcome, published>>

SubscribeStatus ==
  /\ Doing("tcp", Use("status")) /\ GoesOn("tcp")
  /\ subscribed' = subscribed \cup {"homeassistant/status"}
  /\ UNCHANGED <<newTopic, ownBuffer, message, found, outcome, published>>

-----------------------------------------------------------------------------
TopicsNext ==
  \/ \E t \in {"loop", "tcp"} : AddTopic(t)
  \/ TakeMessage \/ SendInfo
  \/ UseSubtopic \/ UseChannel \/ UseGroup \/ UseWord \/ UseFound \/ UseUnknown \/ UsePublish
  \/ OnMqttConnect \/ SendWiFiInfo \/ Subscribe \/ SubscribeStatus

TopicsSpec == TopicsInit /\ [][TopicsNext]_topicsVars

-----------------------------------------------------------------------------
(* What may be relied upon.                                                *)

\* What the README promises of a topic.
Meant(m) ==
  LET topic == m.topic
      Of(max) == topic.index \in 1 .. max /\ m.known
  IN  CASE topic.family = "shutter" /\ topic.sub # "other" ->
             IF Of(Channels) THEN Outcome(IF topic.sub = "" THEN "shutter" ELSE topic.sub, topic.index) ELSE Refused
        [] topic.family = "group" /\ topic.sub = "" -> IF Of(Groups) THEN Outcome("group", topic.index) ELSE Refused
        [] topic.family \in Words -> Outcome(topic.family, 0)
        [] topic.family = "homeassistant/status" -> Outcome(IF m.known THEN "discovery" ELSE "ignored", 0)
        [] OTHER -> Unknown

\* A message that is handled while the session does not begin anew goes to the shutter,
\* group or operation its topic names, and a refusal goes to the reply topic.  A session
\* that begins just then may make the message unknown, and send the reply astray, but it
\* never takes the message to another shutter, group or operation (mqtt.cpp:344-502).
CommandsAreRouted ==
  [][(message # NoMessage /\ Busy("loop") /\ todo'["loop"] = <<>>)
       => /\ outcome' \in {Meant(message), Unknown}
          /\ ownBuffer["loop"] =>
               outcome' = Meant(message) /\ (outcome' \in {Refused, Unknown} => published' = "message")]_topicsVars
=============================================================================

------------------------------ MODULE CmdQueue ------------------------------
(***************************************************************************)
(* The cross-task command queue (src/src/cmdQueue.cpp) with its producers, *)
(* onMqttMessage and the webUI element callback, which run in the AsyncTCP *)
(* task, and its consumer cmdQueueCyclic, which runs in loop().  The two   *)
(* tasks interleave at every call that touches shared memory: the space    *)
(* check, the send, the receive, the dispatch, the test of the drop        *)
(* counter and the critical section that clears it.                        *)
(*                                                                         *)
(* pc walks the loop task through setup() and through the part of loop()   *)
(* that meets the queue.  An operator marked "Slip" is a plausible bug in  *)
(* the definition below it; no specification uses it, the README tells     *)
(* which property notices it.                                              *)
(***************************************************************************)
EXTENDS Naturals, Sequences

CONSTANTS
  Keys,          \* topics and element ids; these four mean something here:
                 \*   "restart" restarts the controller, "mqtt" toggles
                 \*   config.mqtt.enable, "reload" uploads a configuration,
                 \*   "bad" is NULL or does not fit into CMD_KEY_LEN
  QueueLen,      \* CMD_QUEUE_LEN, 24 in the code
  WebReserve,    \* CMD_QUEUE_WEB_RESERVE, 6 in the code
  Budget,        \* CMD_DRAIN_BUDGET_MS
  MaxCost,       \* the longest a single dispatch takes
  MaxInputs      \* bound: inputs from outside in one behaviour

ASSUME QueueAssumption  == QueueLen \in Nat /\ WebReserve \in Nat /\ WebReserve < QueueLen
ASSUME BudgetAssumption == Budget \in Nat \ {0} /\ MaxCost \in Nat

Sources == {"mqtt", "web"}
Cmd     == [source : Sources, key : Keys \ {"bad", "reload"}]

VARIABLES
  pc,            \* where the loop task is
  created,       \* cmdQueue # NULL
  cmdQueue,      \* what waits in the FreeRTOS queue
  sending,       \* the command a producer holds between its checks and the send
  taken,         \* the command loop() has received and not yet dispatched
  spent,         \* millis() - drainStart of the current drain
  armed,         \* the producers whose callback is registered
  setupMode,
  mqttEnable,    \* config.mqtt.enable
  cmdDropCount,
  refused,       \* commands the producers had to refuse since the start
  reported,      \* of those, the ones loop() has logged
  handled,       \* commands that left the queue through loop(), in order
  inputs         \* inputs so far, only to bound the model

loopVars == <<pc, created, taken, spent, armed, setupMode, reported, handled>>
vars == <<loopVars, cmdQueue, sending, mqttEnable, cmdDropCount, refused, inputs>>

Phases == {"cmdQueueSetup", "configSetup", "webUISetup",
           "drain", "dispatch", "report", "critical", "mqttCyclic"}

TypeOK ==
  /\ pc \in Phases
  /\ created \in BOOLEAN
  /\ cmdQueue \in Seq(Cmd) /\ Len(cmdQueue) <= QueueLen
  /\ sending \in Seq(Cmd) /\ Len(sending) <= 1
  /\ taken \in Seq(Cmd) /\ Len(taken) <= 1
  /\ spent \in Nat
  /\ armed \subseteq Sources
  /\ setupMode \in BOOLEAN /\ mqttEnable \in BOOLEAN
  /\ cmdDropCount \in Nat /\ refused \in Nat /\ reported \in Nat
  /\ handled \in Seq(Cmd)
  /\ inputs \in Nat

\* The controller before setup().
Init ==
  /\ pc = "cmdQueueSetup" /\ created = FALSE
  /\ cmdQueue = <<>> /\ sending = <<>> /\ taken = <<>> /\ handled = <<>>
  /\ spent = 0 /\ armed = {}
  /\ setupMode = FALSE /\ mqttEnable = FALSE
  /\ cmdDropCount = 0 /\ refused = 0 /\ reported = 0
  /\ inputs = 0

Input == inputs < MaxInputs /\ inputs' = inputs + 1

\* ESP.restart(), a watchdog reset or a power failure: RAM is gone.
Reboot ==
  /\ pc' = "cmdQueueSetup" /\ created' = FALSE
  /\ cmdQueue' = <<>> /\ sending' = <<>> /\ taken' = <<>> /\ handled' = <<>>
  /\ spent' = 0 /\ armed' = {}
  /\ setupMode' = FALSE /\ mqttEnable' = FALSE
  /\ cmdDropCount' = 0 /\ refused' = 0 /\ reported' = 0

PowerLoss == Input /\ Reboot

-----------------------------------------------------------------------------
(* setup()                                                                 *)

CmdQueueSetup == pc = "cmdQueueSetup" /\ created' = TRUE /\ pc' = "configSetup"

\* Multiple resets and a missing or broken configuration lead to setup mode.
ConfigSetup ==
  /\ pc = "configSetup" /\ pc' = "webUISetup"
  /\ setupMode' \in BOOLEAN /\ mqttEnable' \in BOOLEAN

WebUISetup == pc = "webUISetup" /\ armed' = armed \cup {"web"} /\ pc' = "mqttCyclic"

Setup ==
  \/ /\ CmdQueueSetup
     /\ UNCHANGED <<taken, spent, armed, setupMode, reported, handled>>
     /\ UNCHANGED <<cmdQueue, sending, mqttEnable, cmdDropCount, refused, inputs>>
  \/ /\ ConfigSetup
     /\ UNCHANGED <<created, taken, spent, armed, reported, handled>>
     /\ UNCHANGED <<cmdQueue, sending, cmdDropCount, refused, inputs>>
  \/ /\ WebUISetup
     /\ UNCHANGED <<created, taken, spent, setupMode, reported, handled>>
     /\ UNCHANGED <<cmdQueue, sending, mqttEnable, cmdDropCount, refused, inputs>>

-----------------------------------------------------------------------------
(* The AsyncTCP task: one callback at a time.                              *)

CountDrop == cmdDropCount' = cmdDropCount + 1 /\ refused' = refused + 1

\* Slip: the reserve is compared the wrong way round at its border.
SpaceForBorder(source) ==
  source = "web" \/ QueueLen - Len(cmdQueue) >= WebReserve

\* The producers of a reserve look before they send.
SpaceFor(source) ==
  source = "web" \/ QueueLen - Len(cmdQueue) > WebReserve

\* cmdQueuePush up to the send.  Without a queue nothing is even counted.
Push(source, key) ==
  /\ Input
  /\ sending = <<>>
  /\ source \in armed
  /\ IF ~created
     THEN refused' = refused + 1 /\ UNCHANGED <<sending, cmdDropCount>>
     ELSE IF key = "bad" \/ ~SpaceFor(source)
     THEN CountDrop /\ UNCHANGED sending
     ELSE /\ sending' = <<[source |-> source, key |-> key]>>
          /\ UNCHANGED <<cmdDropCount, refused>>
  /\ UNCHANGED <<loopVars, cmdQueue, mqttEnable>>

\* xQueueSend without waiting.
Send ==
  /\ sending # <<>>
  /\ IF Len(cmdQueue) < QueueLen
     THEN cmdQueue' = Append(cmdQueue, Head(sending)) /\ UNCHANGED <<cmdDropCount, refused>>
     ELSE CountDrop /\ UNCHANGED cmdQueue
  /\ sending' = <<>>
  /\ UNCHANGED <<loopVars, mqttEnable, inputs>>

\* onMqttMessage refuses one chunk of a message that came in several.
Fragment ==
  /\ Input
  /\ sending = <<>>
  /\ "mqtt" \in armed
  /\ CountDrop
  /\ UNCHANGED <<loopVars, cmdQueue, sending, mqttEnable>>

\* A finished upload loads its configuration from within the AsyncTCP task.
Upload ==
  /\ Input
  /\ "reload" \in Keys
  /\ sending = <<>>
  /\ "web" \in armed
  /\ mqttEnable' \in BOOLEAN
  /\ UNCHANGED <<loopVars, cmdQueue, sending, cmdDropCount, refused>>

-----------------------------------------------------------------------------
(* loop()                                                                  *)

\* Slip: the budget is not looked at.
MayReceiveUnbudgeted == cmdQueue # <<>>

\* Slip: commands of a producer that is switched off are left in the queue.
MayReceiveWedged ==
  /\ spent < Budget /\ cmdQueue # <<>>
  /\ Head(cmdQueue).source = "mqtt" => mqttEnable /\ ~setupMode

\* The loop condition of cmdQueueCyclic: first the budget, then the receive.
MayReceive == spent < Budget /\ cmdQueue # <<>>

Receive ==
  /\ pc = "drain" /\ MayReceive
  /\ taken' = <<Head(cmdQueue)>> /\ cmdQueue' = Tail(cmdQueue)
  /\ pc' = "dispatch"
  /\ UNCHANGED <<created, spent, armed, setupMode, reported, handled>>
  /\ UNCHANGED <<sending, mqttEnable, cmdDropCount, refused, inputs>>

DrainDone ==
  /\ pc = "drain" /\ ~MayReceive
  /\ pc' = "report"
  /\ UNCHANGED <<created, taken, spent, armed, setupMode, reported, handled>>
  /\ UNCHANGED <<cmdQueue, sending, mqttEnable, cmdDropCount, refused, inputs>>

\* An MQTT command is discarded while MQTT is switched off or in setup mode.
Gated(cmd) == cmd.source = "mqtt" /\ ~(mqttEnable /\ ~setupMode)

Dispatch ==
  /\ pc = "dispatch"
  /\ LET cmd == Head(taken) IN
       \/ /\ cmd.key = "restart" /\ ~Gated(cmd)
          /\ Reboot
       \/ /\ cmd.key # "restart" \/ Gated(cmd)
          /\ pc' = "drain"
          /\ taken' = <<>> /\ handled' = Append(handled, cmd)
          /\ \E cost \in 0 .. MaxCost : spent' = spent + cost
          /\ mqttEnable' = IF cmd.key = "mqtt" /\ cmd.source = "web" THEN ~mqttEnable ELSE mqttEnable
          /\ UNCHANGED <<created, armed, setupMode, reported>>
          /\ UNCHANGED <<cmdQueue, sending, cmdDropCount, refused>>
  /\ UNCHANGED inputs

\* Slip: a single refused command is not worth a line.
ReportTwo ==
  /\ pc = "report"
  /\ pc' = IF cmdDropCount > 1 THEN "critical" ELSE "mqttCyclic"
  /\ UNCHANGED <<created, taken, spent, armed, setupMode, reported, handled>>
  /\ UNCHANGED <<cmdQueue, sending, mqttEnable, cmdDropCount, refused, inputs>>

\* The drop counter is tested outside the critical section ...
Report ==
  /\ pc = "report"
  /\ pc' = IF cmdDropCount # 0 THEN "critical" ELSE "mqttCyclic"
  /\ UNCHANGED <<created, taken, spent, armed, setupMode, reported, handled>>
  /\ UNCHANGED <<cmdQueue, sending, mqttEnable, cmdDropCount, refused, inputs>>

\* Slip: the counter is read, but not cleared.
ReadDrops == reported' = reported + cmdDropCount /\ UNCHANGED cmdDropCount

\* ... and read and cleared inside it.
TakeDrops == reported' = reported + cmdDropCount /\ cmdDropCount' = 0

ReportCritical ==
  /\ pc = "critical" /\ pc' = "mqttCyclic"
  /\ TakeDrops
  /\ UNCHANGED <<created, taken, spent, armed, setupMode, handled>>
  /\ UNCHANGED <<cmdQueue, sending, mqttEnable, refused, inputs>>

\* The rest of loop(): the first pass with MQTT enabled and a network registers
\* the MQTT callback.  The next pass starts a new drain.
MqttCyclic ==
  /\ pc = "mqttCyclic" /\ pc' = "drain"
  /\ spent' = 0
  /\ \/ mqttEnable /\ ~setupMode /\ armed' = armed \cup {"mqtt"}
     \/ UNCHANGED armed
  /\ UNCHANGED <<created, taken, setupMode, reported, handled>>
  /\ UNCHANGED <<cmdQueue, sending, mqttEnable, cmdDropCount, refused, inputs>>

AsyncTcp ==
  \/ \E source \in Sources, key \in Keys \ {"reload"} : Push(source, key)
  \/ Send \/ Fragment \/ Upload

Loop == Receive \/ DrainDone \/ Dispatch \/ Report \/ ReportCritical \/ MqttCyclic

Next == Setup \/ AsyncTcp \/ Loop \/ PowerLoss

Spec == Init /\ [][Next]_vars

\* loop() keeps running, and a callback that has begun finishes.
FairSpec == Spec /\ WF_vars(Setup) /\ WF_vars(Loop) /\ WF_vars(Send)

-----------------------------------------------------------------------------
(* What may be relied upon.                                                *)

\* "MQTT may use 18 slots, the webUI always has 6" (line 18): an MQTT command
\* is never further back than the slots it may take, so a queue that has to
\* refuse the webUI already holds at least WebReserve of its commands.  The
\* space is checked and the command sent in two steps with loop() in between.
WebUIKeepsItsSlots ==
  /\ \A i \in 1 .. Len(cmdQueue) :
       cmdQueue[i].source = "mqtt" => i <= QueueLen - WebReserve
  /\ sending # <<>> /\ Head(sending).source = "mqtt" => Len(cmdQueue) < QueueLen - WebReserve

\* Every refused command is counted once and reported once, although the
\* counter is tested without the lock: also one refused between the test and
\* the critical section, and none before the queue exists (lines 82, 213).
DropsAreReported == refused = reported + cmdDropCount

\* "one loop() iteration grows by at most this budget plus a single dispatch"
\* (line 22).
DrainIsBounded == spent < Budget + MaxCost

\* A refused command does not stay unreported.
DropsGetReported == cmdDropCount > 0 ~> cmdDropCount = 0

\* The promise to both sides, see CommandChannel.
Channel == INSTANCE CommandChannel WITH waiting <- taken \o cmdQueue

ImplementsChannel == Channel!Spec
=============================================================================

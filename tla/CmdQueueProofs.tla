--------------------------- MODULE CmdQueueProofs ---------------------------
(***************************************************************************)
(* Proofs about CmdQueue for every queue length, reserve, drain budget and *)
(* set of commands, and for behaviours of any length: the invariants, and  *)
(* that the queue implements the safety part of CommandChannel.            *)
(***************************************************************************)
EXTENDS CmdQueue, SequenceTheorems, TLAPS

\* The inductive invariant.  A producer is only armed once the queue exists, a
\* command is in loop()'s hands exactly while it is dispatched, and it was
\* taken while there was budget left.
QueueInv ==
  /\ TypeOK
  /\ WebUIKeepsItsSlots
  /\ DropsAreReported
  /\ DrainIsBounded
  /\ pc = "dispatch" => taken # <<>> /\ spent < Budget
  /\ pc # "dispatch" => taken = <<>>
  /\ pc # "cmdQueueSetup" => created = TRUE
  /\ armed # {} => created = TRUE
  /\ pc \in {"cmdQueueSetup", "configSetup", "webUISetup"} => spent = 0

\* The assumptions on the constants the proofs use.
LEMMA Sizes == /\ QueueLen \in Nat /\ WebReserve \in Nat /\ WebReserve < QueueLen
               /\ Budget \in Nat /\ Budget > 0 /\ MaxCost \in Nat
  BY QueueAssumption, BudgetAssumption

\* The first and the rest of a queue.
LEMMA FirstAndRest ==
  ASSUME NEW q \in Seq(Cmd), q # <<>>
  PROVE  /\ Head(q) \in Cmd /\ Tail(q) \in Seq(Cmd) /\ Len(Tail(q)) = Len(q) - 1
         /\ Len(q) \in Nat \ {0}
         /\ \A i \in 1 .. Len(q) - 1 : Tail(q)[i] = q[i + 1]
         /\ <<Head(q)>> \in Seq(Cmd) /\ Len(<<Head(q)>>) = 1
         /\ <<Head(q)>> \o Tail(q) = q
<1>1. Head(q) \in Cmd /\ Tail(q) \in Seq(Cmd) /\ Len(Tail(q)) = Len(q) - 1
  BY HeadTailProperties
<1>2. Len(q) \in Nat \ {0} /\ \A i \in 1 .. Len(q) - 1 : Tail(q)[i] = q[i + 1]
  BY HeadTailProperties, EmptySeq
<1>3. <<Head(q)>> \in Seq(Cmd) /\ Len(<<Head(q)>>) = 1
  BY <1>1
<1>4. <<Head(q)>> \o Tail(q) = q
  BY <1>1, <1>2, <1>3
<1> QED
  BY <1>1, <1>2, <1>3, <1>4

\* The controller before setup() satisfies the invariant.
LEMMA InitQueue == Init => QueueInv
<1> SUFFICES ASSUME Init
             PROVE  QueueInv
  OBVIOUS
<1>1. <<>> \in Seq(Cmd) /\ Len(<<>>) = 0
  OBVIOUS
<1>2. created \in BOOLEAN /\ setupMode \in BOOLEAN /\ mqttEnable \in BOOLEAN
  BY Zenon DEF Init
<1> QED
  BY <1>1, <1>2, Sizes DEF Init, QueueInv, TypeOK, Phases, Sources, WebUIKeepsItsSlots,
     DropsAreReported, DrainIsBounded

\* A restart leads back there.
LEMMA RebootQueue ==
  ASSUME Reboot, inputs' \in Nat
  PROVE  QueueInv'
<1>1. <<>> \in Seq(Cmd) /\ Len(<<>>) = 0
  OBVIOUS
<1>2. created' \in BOOLEAN /\ setupMode' \in BOOLEAN /\ mqttEnable' \in BOOLEAN
  BY Zenon DEF Reboot
<1> QED
  BY <1>1, <1>2, Sizes DEF Reboot, QueueInv, TypeOK, Phases, Sources, WebUIKeepsItsSlots,
     DropsAreReported, DrainIsBounded

\* setup() creates the queue before it arms a producer.
LEMMA SetupQueue ==
  ASSUME QueueInv, Setup
  PROVE  QueueInv'
<1>1. CASE CmdQueueSetup /\ UNCHANGED <<taken, spent, armed, setupMode, reported, handled>>
                         /\ UNCHANGED <<cmdQueue, sending, mqttEnable, cmdDropCount, refused, inputs>>
  <2>1. created' \in BOOLEAN /\ created' = TRUE
    BY <1>1, Zenon DEF CmdQueueSetup
  <2> QED
    BY <1>1, <2>1 DEF CmdQueueSetup, QueueInv, TypeOK, Phases, WebUIKeepsItsSlots,
       DropsAreReported, DrainIsBounded
<1>2. CASE ConfigSetup /\ UNCHANGED <<created, taken, spent, armed, reported, handled>>
                       /\ UNCHANGED <<cmdQueue, sending, cmdDropCount, refused, inputs>>
  BY <1>2 DEF ConfigSetup, QueueInv, TypeOK, Phases, WebUIKeepsItsSlots,
     DropsAreReported, DrainIsBounded
<1>3. CASE WebUISetup /\ UNCHANGED <<created, taken, spent, setupMode, reported, handled>>
                      /\ UNCHANGED <<cmdQueue, sending, mqttEnable, cmdDropCount, refused, inputs>>
  BY <1>3 DEF WebUISetup, QueueInv, TypeOK, Phases, Sources, WebUIKeepsItsSlots,
     DropsAreReported, DrainIsBounded
<1> QED
  BY <1>1, <1>2, <1>3 DEF Setup

\* A producer hands over a command only with the space its reserve asks for.
LEMMA PushQueue ==
  ASSUME QueueInv, NEW source \in Sources, NEW key \in Keys \ {"reload"}, Push(source, key)
  PROVE  QueueInv'
<1>1. created = TRUE /\ UNCHANGED <<loopVars, cmdQueue, mqttEnable>> /\ inputs' \in Nat
  BY DEF Push, QueueInv, Input, TypeOK
<1>2. CASE key = "bad" \/ ~SpaceFor(source)
  <2>1. CountDrop /\ UNCHANGED sending
    BY <1>1, <1>2 DEF Push
  <2> QED
    BY <1>1, <2>1 DEF CountDrop, loopVars, QueueInv, TypeOK, WebUIKeepsItsSlots,
       DropsAreReported, DrainIsBounded
<1>3. CASE ~(key = "bad" \/ ~SpaceFor(source))
  <2> DEFINE cmd == [source |-> source, key |-> key]
  <2>1. sending' = <<cmd>> /\ UNCHANGED <<cmdDropCount, refused>>
    BY <1>1, <1>3 DEF Push
  <2>2. cmd \in Cmd /\ cmd.source = source
    BY <1>3 DEF Cmd
  <2>3. sending' \in Seq(Cmd) /\ Len(sending') = 1 /\ Head(sending').source = source
    BY <2>1, <2>2
  <2>4. source = "mqtt" => Len(cmdQueue) < QueueLen - WebReserve
    BY <1>3, Sizes DEF SpaceFor, QueueInv, TypeOK
  <2> HIDE DEF cmd
  <2> QED
    BY <1>1, <2>1, <2>3, <2>4 DEF loopVars, QueueInv, TypeOK, WebUIKeepsItsSlots,
       DropsAreReported, DrainIsBounded
<1> QED
  BY <1>2, <1>3

\* The send appends behind the slots that were free when the producer looked.
LEMMA SendQueue ==
  ASSUME QueueInv, Send
  PROVE  QueueInv'
<1>1. sending # <<>> /\ sending \in Seq(Cmd) /\ cmdQueue \in Seq(Cmd) /\ Len(cmdQueue) \in Nat
  BY DEF Send, QueueInv, TypeOK
<1>2. Head(sending) \in Cmd
  BY <1>1, FirstAndRest
<1>3. sending' = <<>> /\ UNCHANGED <<loopVars, mqttEnable, inputs>> /\ <<>> \in Seq(Cmd) /\ Len(<<>>) = 0
  BY DEF Send
<1>4. CASE Len(cmdQueue) < QueueLen
  <2>1. cmdQueue' = Append(cmdQueue, Head(sending)) /\ UNCHANGED <<cmdDropCount, refused>>
    BY <1>4 DEF Send
  <2>2. cmdQueue' \in Seq(Cmd) /\ Len(cmdQueue') = Len(cmdQueue) + 1
    BY <1>1, <1>2, <2>1
  <2>3. \A i \in 1 .. Len(cmdQueue') :
          cmdQueue'[i] = IF i <= Len(cmdQueue) THEN cmdQueue[i] ELSE Head(sending)
    BY <1>1, <1>2, <2>1
  <2>4. \A i \in 1 .. Len(cmdQueue') :
          cmdQueue'[i].source = "mqtt" => i <= QueueLen - WebReserve
    BY <1>1, <2>2, <2>3, Sizes DEF QueueInv, WebUIKeepsItsSlots
  <2> QED
    BY <1>3, <1>4, <2>1, <2>2, <2>4, Sizes DEF loopVars, QueueInv, TypeOK, WebUIKeepsItsSlots,
       DropsAreReported, DrainIsBounded
<1>5. CASE ~(Len(cmdQueue) < QueueLen)
  <2>1. CountDrop /\ UNCHANGED cmdQueue
    BY <1>5 DEF Send
  <2> QED
    BY <1>3, <2>1 DEF CountDrop, loopVars, QueueInv, TypeOK, WebUIKeepsItsSlots,
       DropsAreReported, DrainIsBounded
<1> QED
  BY <1>4, <1>5

\* A refused fragment is counted, an upload only changes the MQTT switch.
LEMMA CallbackQueue ==
  ASSUME QueueInv, Fragment \/ Upload
  PROVE  QueueInv'
<1>1. CASE Fragment
  BY <1>1 DEF Fragment, Input, CountDrop, loopVars, QueueInv, TypeOK, WebUIKeepsItsSlots,
     DropsAreReported, DrainIsBounded
<1>2. CASE Upload
  BY <1>2 DEF Upload, Input, loopVars, QueueInv, TypeOK, WebUIKeepsItsSlots,
     DropsAreReported, DrainIsBounded
<1> QED
  BY <1>1, <1>2

\* A receive moves every waiting command one slot forward.
LEMMA ReceiveQueue ==
  ASSUME QueueInv, Receive
  PROVE  QueueInv'
<1>1. cmdQueue \in Seq(Cmd) /\ cmdQueue # <<>> /\ spent < Budget /\ pc = "drain"
  BY DEF Receive, MayReceive, QueueInv, TypeOK
<1>2. /\ taken' = <<Head(cmdQueue)>> /\ cmdQueue' = Tail(cmdQueue) /\ pc' = "dispatch"
      /\ UNCHANGED <<created, spent, armed, setupMode, reported, handled>>
      /\ UNCHANGED <<sending, mqttEnable, cmdDropCount, refused, inputs>>
  BY DEF Receive
<1>3. taken' \in Seq(Cmd) /\ Len(taken') = 1 /\ taken' # <<>>
  BY <1>1, <1>2, FirstAndRest
<1>4. /\ cmdQueue' \in Seq(Cmd) /\ Len(cmdQueue') = Len(cmdQueue) - 1 /\ Len(cmdQueue) \in Nat \ {0}
      /\ \A i \in 1 .. Len(cmdQueue') : cmdQueue'[i] = cmdQueue[i + 1]
  BY <1>1, <1>2, FirstAndRest
<1>5. \A i \in 1 .. Len(cmdQueue') : cmdQueue'[i].source = "mqtt" => i <= QueueLen - WebReserve
  <2> SUFFICES ASSUME NEW i \in 1 .. Len(cmdQueue'), cmdQueue'[i].source = "mqtt"
               PROVE  i <= QueueLen - WebReserve
    OBVIOUS
  <2>1. i + 1 \in 1 .. Len(cmdQueue) /\ cmdQueue[i + 1].source = "mqtt"
    BY <1>4
  <2>2. i + 1 <= QueueLen - WebReserve
    BY <2>1 DEF QueueInv, WebUIKeepsItsSlots
  <2> QED
    BY <2>2, <1>4, Sizes
<1> QED
  BY <1>1, <1>2, <1>3, <1>4, <1>5, Sizes DEF QueueInv, TypeOK, Phases, WebUIKeepsItsSlots,
     DropsAreReported, DrainIsBounded

\* A dispatch starts with budget left, so it ends less than one dispatch over.
LEMMA DispatchQueue ==
  ASSUME QueueInv, Dispatch
  PROVE  QueueInv'
<1> DEFINE cmd == Head(taken)
<1>1. inputs' \in Nat /\ pc = "dispatch" /\ taken \in Seq(Cmd) /\ taken # <<>> /\ spent < Budget /\ created = TRUE
  BY DEF Dispatch, QueueInv, TypeOK
<1>2. CASE Reboot
  BY <1>1, <1>2, RebootQueue
<1>3. CASE /\ pc' = "drain"
           /\ taken' = <<>> /\ handled' = Append(handled, cmd)
           /\ \E cost \in 0 .. MaxCost : spent' = spent + cost
           /\ mqttEnable' = IF cmd.key = "mqtt" /\ cmd.source = "web" THEN ~mqttEnable ELSE mqttEnable
           /\ UNCHANGED <<created, armed, setupMode, reported>>
           /\ UNCHANGED <<cmdQueue, sending, cmdDropCount, refused>>
  <2>1. spent' \in Nat /\ spent' < Budget + MaxCost
    BY <1>1, <1>3, Sizes DEF QueueInv, TypeOK
  <2>2. cmd \in Cmd
    BY <1>1, FirstAndRest
  <2> HIDE DEF cmd
  <2>3. handled' \in Seq(Cmd) /\ <<>> \in Seq(Cmd) /\ Len(<<>>) = 0
    BY <1>3, <2>2 DEF QueueInv, TypeOK
  <2>4. mqttEnable \in BOOLEAN
    BY DEF QueueInv, TypeOK
  <2>5. mqttEnable' \in BOOLEAN
    BY <1>3, <2>4, Zenon
  <2> QED
    BY <1>1, <1>3, <2>1, <2>3, <2>5 DEF QueueInv, TypeOK, Phases, WebUIKeepsItsSlots,
       DropsAreReported, DrainIsBounded
<1> QED
  BY <1>2, <1>3 DEF Dispatch

\* The end of a drain, the report of the refused commands, the rest of loop().
LEMMA RestOfLoopQueue ==
  ASSUME QueueInv, DrainDone \/ Report \/ ReportCritical \/ MqttCyclic
  PROVE  QueueInv'
<1>1. CASE DrainDone
  BY <1>1 DEF DrainDone, QueueInv, TypeOK, Phases, WebUIKeepsItsSlots,
     DropsAreReported, DrainIsBounded
<1>2. CASE Report
  BY <1>2 DEF Report, QueueInv, TypeOK, Phases, WebUIKeepsItsSlots,
     DropsAreReported, DrainIsBounded
<1>3. CASE ReportCritical
  BY <1>3 DEF ReportCritical, TakeDrops, QueueInv, TypeOK, Phases, WebUIKeepsItsSlots,
     DropsAreReported, DrainIsBounded
<1>4. CASE MqttCyclic
  <2>1. /\ pc' = "drain" /\ pc = "mqttCyclic" /\ spent' = 0
        /\ UNCHANGED <<created, taken, setupMode, reported, handled>>
        /\ UNCHANGED <<cmdQueue, sending, mqttEnable, cmdDropCount, refused, inputs>>
    BY <1>4 DEF MqttCyclic
  <2>2. armed' \subseteq Sources
    BY <1>4 DEF MqttCyclic, Sources, QueueInv, TypeOK
  <2> QED
    BY <2>1, <2>2, Sizes DEF QueueInv, TypeOK, Phases, WebUIKeepsItsSlots,
       DropsAreReported, DrainIsBounded
<1> QED
  BY <1>1, <1>2, <1>3, <1>4

\* Every step preserves the invariant.
LEMMA StepQueue == QueueInv /\ [Next]_vars => QueueInv'
<1> SUFFICES ASSUME QueueInv, [Next]_vars
             PROVE  QueueInv'
  OBVIOUS
<1>1. CASE Setup
  BY <1>1, SetupQueue
<1>2. CASE AsyncTcp
  BY <1>2, PushQueue, SendQueue, CallbackQueue DEF AsyncTcp
<1>3. CASE Loop
  BY <1>3, ReceiveQueue, DispatchQueue, RestOfLoopQueue DEF Loop
<1>4. CASE PowerLoss
  <2>1. Reboot /\ inputs' \in Nat
    BY <1>4 DEF PowerLoss, Input, QueueInv, TypeOK
  <2> QED
    BY <2>1, RebootQueue
<1>5. CASE UNCHANGED vars
  BY <1>5 DEF vars, loopVars, QueueInv, TypeOK, WebUIKeepsItsSlots,
     DropsAreReported, DrainIsBounded
<1> QED
  BY <1>1, <1>2, <1>3, <1>4, <1>5 DEF Next

\* The inductive invariant holds in every reachable state.
LEMMA QueueInvHolds == Spec => []QueueInv
  BY InitQueue, StepQueue, PTL DEF Spec

-----------------------------------------------------------------------------
(* The invariants                                                          *)

\* Every variable keeps its type: in particular the queue never holds more
\* than its slots, and at most one command is in loop()'s hands.
THEOREM TypeCorrect == Spec => []TypeOK
<1>1. QueueInv => TypeOK
  BY DEF QueueInv
<1> QED
  BY <1>1, QueueInvHolds, PTL

\* MQTT commands leave the reserve to the webUI although the space is checked
\* and the command sent in two steps (cmdQueuePush).
THEOREM SlotsKept == Spec => []WebUIKeepsItsSlots
<1>1. QueueInv => WebUIKeepsItsSlots
  BY DEF QueueInv
<1> QED
  BY <1>1, QueueInvHolds, PTL

\* Every refused command is counted and reported exactly once, with the test
\* of the counter outside the lock (cmdQueueCyclic).
THEOREM DropsReported == Spec => []DropsAreReported
<1>1. QueueInv => DropsAreReported
  BY DEF QueueInv
<1> QED
  BY <1>1, QueueInvHolds, PTL

\* One pass of loop() spends its budget and at most a single dispatch more on
\* the queue (cmdQueueCyclic).
THEOREM DrainBounded == Spec => []DrainIsBounded
<1>1. QueueInv => DrainIsBounded
  BY DEF QueueInv
<1> QED
  BY <1>1, QueueInvHolds, PTL

-----------------------------------------------------------------------------
(* The refinement                                                          *)

\* The empty controller is the empty channel.
LEMMA EmptyChannel == ASSUME Init PROVE Channel!Init
  BY DEF Init, Channel!Init

\* A restart empties the channel.
LEMMA RestartedChannel == ASSUME Reboot PROVE Channel!Restart
  BY DEF Reboot, Channel!Restart

\* A send accepts one command behind all that wait, or refuses it.
LEMMA SendAccepts ==
  ASSUME QueueInv, Send
  PROVE  Channel!Accept \/ UNCHANGED Channel!channelVars
<1>1. sending \in Seq(Cmd) /\ sending # <<>> /\ cmdQueue \in Seq(Cmd) /\ taken \in Seq(Cmd)
  BY DEF Send, QueueInv, TypeOK
<1>2. taken' = taken /\ handled' = handled
  BY DEF Send, loopVars
<1>3. CASE Len(cmdQueue) < QueueLen
  <2> DEFINE cmd == Head(sending)
  <2>1. cmd \in Cmd
    BY <1>1, FirstAndRest
  <2>2. cmdQueue' = Append(cmdQueue, cmd)
    BY <1>3 DEF Send
  <2> HIDE DEF cmd
  <2>3. taken \o Append(cmdQueue, cmd) = Append(taken \o cmdQueue, cmd)
    BY <1>1, <2>1
  <2> QED
    BY <1>2, <2>1, <2>2, <2>3 DEF Channel!Accept
<1>4. CASE ~(Len(cmdQueue) < QueueLen)
  <2>1. cmdQueue' = cmdQueue
    BY <1>4 DEF Send
  <2> QED
    BY <1>2, <2>1 DEF Channel!channelVars
<1> QED
  BY <1>3, <1>4

\* A receive only moves the oldest command into loop()'s hands.
LEMMA ReceiveStutters ==
  ASSUME QueueInv, Receive
  PROVE  UNCHANGED Channel!channelVars
<1>1. cmdQueue \in Seq(Cmd) /\ cmdQueue # <<>> /\ taken = <<>>
  BY DEF Receive, MayReceive, QueueInv, TypeOK
<1>2. taken' = <<Head(cmdQueue)>> /\ cmdQueue' = Tail(cmdQueue) /\ handled' = handled
  BY DEF Receive
<1>3. taken' \o cmdQueue' = cmdQueue
  BY <1>1, <1>2, FirstAndRest
<1>4. taken \o cmdQueue = cmdQueue
  BY <1>1, ConcatEmptySeq
<1> QED
  BY <1>2, <1>3, <1>4 DEF Channel!channelVars

\* A dispatch handles the oldest command, or restarts the controller.
LEMMA DispatchHandles ==
  ASSUME QueueInv, Dispatch
  PROVE  Channel!Handle \/ Channel!Restart
<1>1. taken \in Seq(Cmd) /\ Len(taken) <= 1 /\ taken # <<>> /\ cmdQueue \in Seq(Cmd)
  BY DEF Dispatch, QueueInv, TypeOK
<1>2. CASE Reboot
  BY <1>2, RestartedChannel
<1>3. CASE taken' = <<>> /\ handled' = Append(handled, Head(taken)) /\ cmdQueue' = cmdQueue
  <2> DEFINE cmd == Head(taken)
  <2>1. cmd \in Cmd /\ taken = <<cmd>>
    <3>1. cmd \in Cmd /\ Tail(taken) \in Seq(Cmd) /\ Len(Tail(taken)) = Len(taken) - 1
          /\ Len(taken) \in Nat \ {0} /\ <<cmd>> \o Tail(taken) = taken /\ <<cmd>> \in Seq(Cmd)
      BY <1>1, FirstAndRest
    <3>2. Tail(taken) = <<>>
      BY <1>1, <3>1, EmptySeq
    <3> QED
      BY <3>1, <3>2, ConcatEmptySeq
  <2>2. taken' = <<>> /\ handled' = Append(handled, cmd) /\ cmdQueue' = cmdQueue
    BY <1>3
  <2> HIDE DEF cmd
  <2>3. <<cmd>> \o cmdQueue # <<>> /\ Head(<<cmd>> \o cmdQueue) = cmd
    BY <1>1, <2>1
  <2>4. Tail(<<cmd>> \o cmdQueue) = cmdQueue
    BY <1>1, <2>1
  <2>5. <<>> \o cmdQueue = cmdQueue
    BY <1>1, ConcatEmptySeq
  <2>6. taken \o cmdQueue # <<>> /\ Head(taken \o cmdQueue) = cmd /\ Tail(taken \o cmdQueue) = cmdQueue
    BY <2>1, <2>3, <2>4
  <2>7. (taken \o cmdQueue)' = cmdQueue
    BY <2>2, <2>5
  <2> QED
    BY <2>2, <2>6, <2>7 DEF Channel!Handle
<1> QED
  BY <1>2, <1>3 DEF Dispatch

\* Every step of the queue is a step of the channel or leaves it alone.
LEMMA StepOfChannel ==
  QueueInv /\ [Next]_vars => [Channel!Next]_(Channel!channelVars)
<1> SUFFICES ASSUME QueueInv, [Next]_vars
             PROVE  Channel!Next \/ UNCHANGED Channel!channelVars
  OBVIOUS
<1>1. CASE Send
  BY <1>1, SendAccepts DEF Channel!Next
<1>2. CASE Receive
  BY <1>2, ReceiveStutters
<1>3. CASE Dispatch
  BY <1>3, DispatchHandles DEF Channel!Next
<1>4. CASE PowerLoss
  BY <1>4, RestartedChannel DEF PowerLoss, Channel!Next
<1>5. CASE UNCHANGED <<taken, cmdQueue, handled>>
  BY <1>5 DEF Channel!channelVars
<1>6. CASE Setup
  BY <1>5, <1>6 DEF Setup
<1>7. CASE \E source \in Sources, key \in Keys \ {"reload"} : Push(source, key)
  BY <1>5, <1>7 DEF Push, loopVars
<1>8. CASE Fragment \/ Upload
  BY <1>5, <1>8 DEF Fragment, Upload, loopVars
<1>9. CASE DrainDone \/ Report \/ ReportCritical \/ MqttCyclic
  BY <1>5, <1>9 DEF DrainDone, Report, ReportCritical, MqttCyclic
<1>10. CASE UNCHANGED vars
  BY <1>5, <1>10 DEF vars, loopVars
<1> QED
  BY <1>1, <1>2, <1>3, <1>4, <1>6, <1>7, <1>8, <1>9, <1>10 DEF Next, AsyncTcp, Loop

\* The queue implements the safety part of its promise: an accepted command is
\* handled exactly once and in the order of acceptance, whatever the two tasks
\* do in between, and only a restart loses it.
THEOREM ImplementsSafely == Spec => Channel!SafeSpec
<1>1. Init => Channel!Init
  BY EmptyChannel
<1> QED
  BY <1>1, QueueInvHolds, StepOfChannel, PTL DEF Spec, Channel!SafeSpec
=============================================================================

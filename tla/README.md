# Formal models of the ESP32 Jarolift Controller

The firmware drives up to sixteen Jarolift TDEF roller shutters by radio. The
shutters answer nothing, so everything the controller says about them is
inferred: where a shutter stands from how long it ran, whether a telegram will
be obeyed from a rolling counter the receivers keep to themselves. This
directory models that inference and the queues in front of it in TLA+,
model-checks it with TLC and proves its invariants with TLAPS.

Paths below are relative to the repository: `src/shutterPos.cpp` is the file
`src/src/shutterPos.cpp` of `PROJECT.json`, whose `map` gives the lines behind
every definition.

## 1. Inventory

| Component | State | Operations | Hard behaviour | Status |
|---|---|---|---|---|
| Position tracker and calibration, `src/shutterPos.cpp` | per channel: position, start position, target, start time, stop deadline, flags; a calibration stopwatch | position request, UP/DOWN/STOP notifications, cyclic sweep, calibration start, finish and abort | requests overtake queued commands, `millis()` wraps, remotes interfere and are heard late, restarts forget everything | modelled, proved |
| Radio command queue, `src/jarolift.cpp` | `jaroCmdQueue` (20 commands), send timer | `jaroCmd`, `processJaroCommands`, `jaroStopNow`, remote callback | a full queue, a STOP that bypasses the queue, group commands, a remote's frame that waits while telegrams go out | modelled, proved |
| Rolling counter, `lib/JaroliftController` | counter in RAM and its validity, in NVS, in the old EEPROM | read, migrate, increment, set by hand, one burst | power loss between transmission and commit, NVS faults, wrap through 0 | modelled, proved |
| Cross-task command queue, `src/cmdQueue.cpp` | FreeRTOS queue (24 slots), drop counter | push from MQTT and webUI, drain, report | two tasks, check-then-send, a test outside the lock, a slow dispatch | modelled, proved |
| RF receive path, `lib/JaroliftController` | live buffer and pending slot, shared with an interrupt | edge interrupt, `processRxData`, detach and attach around a transmission | torn, repeated or lost frames, a half pulse that comes late | modelled, proved |
| Remote presses, `ShadeDetector.h`, `src/remoteMatch.cpp` | a run of STOP frames, the press heard last | update, repeat filter | two machines with two gaps must agree on what one press is, with frames lost | modelled, proved |
| MQTT connection, `src/mqtt.cpp` | retry delay, time of the attempt, flags; the client's state; the retained status topic | setup, connect, callbacks, cyclic | two tasks, attempts that are never answered, sessions only one end knows of | modelled, proved |
| MQTT command handler, `src/mqtt.cpp` | the buffer of `addTopic()` | message to shutter, group or operation; subscriptions | one buffer, filled by two tasks | modelled, proved |
| Timer, `src/timer.cpp` | minute looked at last | cyclic | stalls, clock steps, summer time, polar days, offsets past midnight | modelled, proved |
| Configuration store, `src/config.cpp` | configuration, its hash, a file | load, fill, save, change detection, upload from the other task | crash or write failure in a save, load and save at once | modelled, proved |
| Web UI: refresh of the tabs, `src/webUI.cpp`, `webUIupdates.cpp` | reload latch, refresh request, last value sent of each element | a tab asks, fast and slow refresh, language | the latch is cleared after it was answered; changes are sent only when seen | modelled |
| Web UI: element callbacks, `src/webUIcallback.cpp` | none of its own | buttons and fields to commands, settings, flags | | every kind of callback, not the table |
| Network links, `src/basics.cpp` | connected flags, reconnect timer, retry delay | events of WiFi and Ethernet, `checkWiFi` | two tasks, a backoff that is reset while it grows | modelled, proved |
| Home Assistant discovery, `src/mqttDiscovery.cpp` | what the broker retains for each entity | a sweep over all entities, announce or clear | sessions lost and settings edited within a sweep | modelled, proved |
| Log, `src/message.cpp` | ring of lines, next slot | write, clear, dump to the page and to telnet | every task writes, nothing locks | modelled, proved; the heap monitor only logs |
| Firmware update and release check, `src/webUI.cpp`, `webUIupdates.cpp`, `main.cpp` | update flag, watchdog, fetched release | upload, ArduinoOTA, update from GitHub, check | updates overlap; a release is memory with one owner | modelled, proved |
| Telnet, `src/telnet.cpp` | none of its own | one command line | | what no other front end does: `log read`, `config reset` |
| Boot and main loop, `src/main.cpp` | setup mode | `setup`, `loop` | setup order | as far as command queue, configuration and watchdog depend on it |
| Bundled libraries | client state, timers | | | as far as the firmware relies on them: `muTimer`, the client's connect, disconnect and queue |
| CC1101 driver, KeeLoq cipher | registers, a key | SPI access, a block cipher | hardware and pure data | not modelled |

How they interact: the AsyncTCP task runs the MQTT and web callbacks and only
pushes into the cross-task queue. Everything else runs in `loop()`: it drains
that queue (`cmdQueueCyclic`), whose commands call `jaroCmd`,
`shutterPosSetTarget` or the calibration; then `jaroliftCyclic` takes one
command from the radio queue when its timer is due, transmits it, notifies the
tracker, and sweeps the tracker for due stops. The tracker publishes positions
over MQTT, and calls back into the radio for an immediate STOP. Every
transmission passes through the rolling counter. A press of a wall remote moves the
shutter at once, but its frame waits in a buffer of the interrupt until
`jarolift.loop()`, the last step of `jaroliftCyclic`, tells the tracker.

Beside these commands the tasks share memory without a queue: both write the log
ring, both put topics together in the one buffer of `addTopic()`, an uploaded
firmware switches the watchdog under `loop()`, a tab latches its request for
values, and the events of WiFi and Ethernet, on a task of their own, set the
flags by which `loop()` decides whether to start WiFi again.

What makes each component correct:

- tracker: its picture of a channel agrees with the last telegram the motor
  obeyed, if it was told of that one last; an estimate is never better than what it rests on; every movement ends;
- radio queue: an accepted target has a telegram;
- counter: the stored counter does not fall behind the receivers by more than
  the burst a crash interrupted;
- command queue: exactly once, in order, nobody starves, nothing is lost silently;
- receive path: a decoded frame is one burst, taken once and in order;
- remote presses: one report per press, SHADE for a STOP held long enough;
- MQTT: the availability topic tells the truth, a broker that stays is reached, a
  message goes where its topic says;
- network: the flags follow the links, an access point that stays is reached;
- tabs: one that asks is given everything, and what changes reaches it;
- discovery: a sweep leaves exactly what the configuration wants, one that was lost
  is made up for;
- log: a dump is the log, and is again after every mix-up;
- firmware: a lone update is unwatched, everything else watched; no release is
  lost or used after it was freed;
- timer: once on its day, within its limits;
- configuration: no change is taken for saved that is not; a restart finds the
  latest one kept.

## 2. Modules

| Module | Models | Remarks |
|---|---|---|
| `ShutterTracker` | the functions of `shutterPos.cpp` for one channel | no variables; the channel record joins `s_shutterState`, `s_calibState`, the travel times and the retained topic |
| `ShutterPos` | all channels, `jaroCmdQueue`, motors, frames of remotes that wait, broker session, clock | extends `ShutterTracker`; one action per handler; `told` and the `late` sets of the frames are history variables |
| `ShutterWorld` | `ShutterPos` beside the real curtains | extends `ShutterPos`; adds `place`, and `slack`, the error that is explained |
| `ShutterClaims`, `PositionClaims` | statements of comments the code does not keep | extend `ShutterPos` |
| `DeviceCounter` | rolling counter, flash, receivers | every burst is three steps: encrypt, transmit, update |
| `CmdQueue` | the cross-task queue, its producers and its consumer | one action per access to shared memory |
| `CommandChannel` | what the cross-task queue promises | abstract; implemented by `CmdQueue` |
| `RxCapture` | the interrupt, `noteDiscardedFrame`, the pending slot, `processRxData` | a pulse is the number of the burst it belongs to |
| `RemotePress` | `ShadeDetector::update`, `remoteIsRepeat`, the callback; frames with channel masks | `heard` is a history variable: what a press really was |
| `TimerSched` | `timerCyclic`, `checkTimerTrigger`, the clock | the sun is a constant |
| `MqttConn` | `mqttSetup`, `mqttCyclic`, callbacks, client library, broker | a pass of `mqttCyclic` is several steps, the callbacks come between them |
| `ConfigStore` | `config.cpp`, and what edits and uploads a configuration | both tasks run the same load and save, step by step |
| `MqttTopics` | `addTopic`, `mqttHandleCommand`, `checkJaroCmd`, the subscriptions of `onMqttConnect` | every fill and every use of the buffer is a step |
| `TopicClaims` | a statement of a comment the code does not keep | extends `MqttTopics` |
| `Network` | event handlers, `checkWiFi`, `setupWiFi`, `setupETH` | WiFi driver and access point are external |
| `WebPage` | `webUICyclic`, `updateAllElements`, the two refreshes | follows one tab of many |
| `HaDiscovery` | `mqttDiscoverySetup`, the broker's retained configurations | one step per publication |
| `LogRing` | `addLogBuffer`, `clearLogBuffer`, `webReadLogBufferCyclic`, `readLogger` | one step per access to the ring |
| `FirmwareUpdate` | upload, ArduinoOTA, GitHub check and update | flag and watchdog are written in two steps |
| `MC...` | small instances for TLC | `MCRadio`, `MCServices` and `MCOutside` are sums, see section 3 |
| `ShutterPosProofs` | `ShutterTracker`, `ShutterPos` | theorems, checked by TLAPS, as in the next ones; section 4 |
| `ShutterEstimateProofs` | the estimate in `ShutterPos`, and `ShutterWorld` | extends `ShutterPosProofs` |
| `DeviceCounterProofs`, `CmdQueueProofs`, `ConfigStoreProofs` | the module each is named after | `CmdQueueProofs` also shows that `CommandChannel` is implemented |
| `ReceptionProofs` | `RxCapture`, `RemotePress` | |
| `ServicesProofs` | `FirmwareUpdate`, `MqttTopics`, `TimerSched`, `LogRing` | |
| `OutsideProofs` | `MqttConn`, `Network`, `HaDiscovery` | |

Correspondence of `ShutterPos` with the code, as an example of the style:
`SetTarget(c, pct)` has one disjunct for each way through
`shutterPosSetTarget` (nowhere to go, already there and running, refused,
retarget, new command), `SendPass` is a pass of `jaroliftCyclic` that takes a
command: transmit (`Obeyed`), notify (`AllNotified`), pop, then the sweep
(`Swept`, `Stopped`) of the same pass. `CyclicPass` is a pass whose send timer is
not due. `RadioLoop` is the end of either, `jarolift.loop()`: it takes at most one frame
of a remote and tells the tracker. `RemotePress` is a press: the receivers obey, and the
frame, unless it is not heard, waits in the parked or the live place. Whatever the
controller sends in the meantime overtakes it (`Transmit`): the live frame is wiped with
the buffer, unless the remote is held and repeats it, a parked one stays. `told` is the
set of channels of whose latest telegram the tracker was told last; the invariants
between tracker and motor are about these.

A channel is a record, so the tracker is a set of functions from records to
records (`StartMovement`, `SettleAt`, `Retarget`, ...), each the body of one C++
function or branch. This is what lets the proofs treat each function once.

### Abstractions

- A handler happens at one instant. The time it takes (the radio holds the
  loop for 30 ms to 5 s) is the `Tick` steps between handlers; at most `MaxLag`
  ticks lie between two passes of `jaroliftCyclic`.
- The motor obeys the last telegram it was sent, also a reversal without a STOP.
  The comment at `shutterPos.cpp:374` says that a receiver ignores one; the
  tracker's own notifications treat it as obeyed, and the model follows them.
- Teaching and service telegrams (`OTHER`) do not move a shutter.
- SHADE drives to a point only the motor knows. The model lets the motor be
  under way with "SHADE", and the properties about agreement except it.
- A restart keeps the motors running, the configuration and the retained topics.
- A dead radio (`initOK_` false) is not modelled.
- Only one callback of the AsyncTCP task runs at a time, because it is one task;
  the space check and the send of a push are two steps of it.
- In `ShutterPos` and `CmdQueue` an upload changes the configuration between two
  steps of `loop()`; `ConfigStore` has the two tasks meet in the middle of a load
  or a save.
- Receivers accept a counter in a window ahead of the last one they accepted, and
  act once on the repetitions of one burst.
- `RxCapture` does not tell bits apart, only which burst a stored half pulse came
  from; the spinlock makes the interrupt and each copy one step. What is decoded
  from a frame, and the check that drops a frame that makes no sense, are data.
- `RemotePress` keeps times as ages that stop growing beyond the longest gap.
  A frame carries one of two channel masks, the button's and one without its group
  bits; the detector compares them, the filter does not. Channels of a remote are looked
  up by a pure function (`remoteMatch.cpp`), so in `ShutterPos` a press is of any set of
  channels, and a frame is what the detector and the filter let through.
- In `ShutterPos` two frames fit the two places. Passes of `loop()` are in two parts, up
  to the sweep and from there on, because only there a frame is taken; a remote may be
  pressed, and time may pass, between the parts.
- `MqttConn` lets no time pass within a pass of `mqttCyclic`. An attempt is
  answered in time if network and broker were there when it began and still are;
  any other comes late or never. A connection lost on one side is noticed on the
  other some time later.
- `ConfigStore` has two fields, the timers an older file does not have and
  everything else. The hash is taken to be the configuration itself. Removing and
  writing the file are two steps; a write is whole or leaves nothing readable.
- `LogRing` writes, reads and clears one line at a time; a line is the number of
  its message. Which levels are logged, and cutting a line short, are left out.
- In `MqttTopics` a topic is its part after the base topic. A payload is one the
  handler knows or not, which covers words, numbers in and out of range and masks.
- `Network` gives the driver an answer within `Answers` when the access point is
  there, and handles events within a unit of time; a `WiFi.begin` on a link that is on
  its way may start it over or leave it. Addresses are left out.
- `WebPage` follows one tab, because tabs do not know of one another; the others
  only ask. Of the elements the language, the device counter (which comes only
  when it changed) and all others together are told apart. The refresh timers come
  due now and then, the latch's `cycleTrigger` is modelled with its backlog.
- `HaDiscovery` keeps of a configuration the base topic in it. A session that is
  lost is "dying" first: what is published from then on does not arrive. The
  publications a broker accepts, one by one, keep their order.
- A release in `FirmwareUpdate` is the memory it was given. An update that succeeds
  restarts the controller; the model lets it go on, which is more.
- `TimerSched` gives the clock two looks per minute, days of six minutes and weeks
  of two days.

## 3. Model checking

Constants are scaled, not the logic: positions run over 0..3 or 0..4 instead of
0..100, a clock of 6 or 8 ticks wraps several times in a behaviour, travel
times of 2 to 5 ticks, calibration accepts 2 to 4 ticks (2 or 3 in `shutter_live`). Every kind of position
is still there (both ends, between, unknown), every comparison has its equal
case, and divisions round. `MaxInputs` bounds the user inputs and faults of one
behaviour, never the passes of the loop or the clock.

| Run | Question | Bounds |
|---|---|---|
| `shutter_core` | what record, motor and queue say about each other, for all travel configurations, restarts, session losses, uploads and calibration, remotes told late or never | one channel, 3 inputs, queue of 2 |
| `shutter_live` | deadlines lie within one travel; the estimate does not run backwards; movements end, targets are taken up | one channel, 3 inputs, a clock of 6, fairness |
| `world_calm` | the estimate against the real curtain | 4 inputs, restart, a clock of 6, users who wait until nothing is queued or heard |
| `queue` | reserve, report and budget under every interleaving; `CmdQueue` implements `CommandChannel`; reports arrive | 3 slots, 1 reserved, 5 inputs, fairness |
| `radio` | frames are whole, single, in order and accounted for; one report per press, none swallowed, SHADE for a long STOP; the price of a crash and of refused writes | see below |
| `config_store` | nothing unsaved is taken for saved; a restart finds what was kept; changes get saved | 3 bodies, 2 edits, 1 upload, 1 failure of power or of a write, any number of resets and restarts; the first boot, without a file |
| `services` | timers run once a day and within their limits; dumps of the log; watchdog and release; routing of messages | see below |
| `outside` | the broker, the links, the tabs and Home Assistant: what the controller says of them is true, and it gets back to them | see below |
| `claim_endstop`, `claim_position`, `claim_remote`, `claim_resubscribe` | statements the code does not keep | expected to fail, see below |

`radio`, `services` and `outside` are sums. Their parts share no variable and call none of
each other's operations, so a behaviour follows one part, from any of its initial
states, while the others rest; within a part every interleaving of its tasks
is there. The parts and their bounds:

| Part | Bounds |
|---|---|
| capture (`RxCapture`) | frames of 2 to 5 pulses, buffer of 7, 3 bursts, 1 half pulse missing |
| press (`RemotePress`) | 2 interchangeable remotes, 3 presses, STOP and UP, 2 masks; a repeat within 1, a run of STOPs with gaps to 2, a SHADE after 4 |
| counter (`DeviceCounter`) | counter modulo 6, bursts of 1 and 3, 4 commands, 3 crashes, 2 faults: reads, writes, a migration, manual changes |
| timer (`TimerSched`) | three days and the start of a fourth, one timer of 37 settings, 2 disturbances |
| log (`LogRing`) | 3 lines, 6 messages, two tasks; 1, 2 or 3 lines fit a page |
| firmware (`FirmwareUpdate`) | 2 releases; no bound on updates |
| topics (`MqttTopics`) | 2 shutters, 1 group; no bound on messages or sessions |
| mqtt (`MqttConn`) | delays 1, 2, 4, 5; stall after 2; no bound on attempts or faults |
| network (`Network`) | delays 2, 3; an answer takes at most 1; 2 events under way |
| web (`WebPage`) | a counter of 0 or 1; the latch's timer at most 2 s behind |
| discovery (`HaDiscovery`) | 2 entities, 1 of them optional; 2 base topics, the longer one too long for one entity |

One channel is enough because only the queue and group commands couple
channels. The queue takes 2 telegrams of one channel, so it fills and refuses; a
group command is the same telegram for each of its channels, and each handles it
alone. What the queue means for any number of channels is proved
(`PendingHasTelegram`), as are the invariants of a channel. Three inputs are the
shortest sequences that interrupt a movement, retarget it and interfere; the
fourth, where there is one, lets a consequence be observed after them. A wrap at 6
lets a counter cross 0 in every behaviour of four commands. A frame buffer that holds seven
pulses overflows by one long burst, and three bursts fill both places and lose
one. Two remotes are the fewest that interrupt one another, a second press the
one that may be taken for the first. Six minutes a day put every offset and
limit on either side of midnight. In `MqttConn` the stall limit lies between the
first delays and the cap, as 30 s lie between 10 s and 300 s. Six messages take a
ring of three lines round twice, so that it is mixed up, repaired and dumped
again. Two releases are the one held and the one fetched next. A sweep of two
entities can be lost or edited before, between and after its publications.

Deadlock is checked for the command queue and the configuration store. The
shutter and outside runs always have a pass of the loop, and the others end when a
bound is used up (commands, bursts, messages, the end of the clock), so there it is
switched off.

Fairness (`FairSpec`) is what the scheduler of the controller gives: `loop()` is
called again and again and time passes (`Tick`, `CyclicPass`), the send timer
is due infinitely often (`SendPass`, strong fairness, because a pass is begun either
way), a pass goes on to its end (`RadioLoop`), the drain and the rest of the loop go on
(`Loop`, `Setup`), and a callback that has begun ends (`Send`). In `MqttConn`
`mqttCyclic` goes on, time passes between its passes, and each end of a
connection gets round to what it knows; `EventuallyOnline` adds that network and
broker stay up and nobody restarts the controller any more. In `ConfigStore` both
tasks go on with what they have begun. In `Network` `checkWiFi` and the event task
go on, the driver associates with an access point that is there, and time passes;
`EventuallyReachable` adds that the access point stays and the cable is left alone.
In `WebPage` `webUICyclic` goes on, seconds pass, and the two refreshes come due
again and again (strong fairness, because they are asked for in every pass and due
in some). In `HaDiscovery` only a sweep that has begun goes on. Nothing is assumed
of users, brokers and faults.

Deep results worth reading:

- `EstimateWithinLatency`: banking, retargeting, late telegrams and wrapping
  clocks cost no accuracy at all; each timed stop costs at most the loop's
  latency, each tick out of step (a press of a remote not told yet, not heard, or
  overtaken) two positions, and an end-stop run repairs it. It needs users who wait
  until nothing is queued or heard (`Calm`); without that it fails, see below.
- `Consistent`: a channel that got out of step gets back into it by the next telegram
  that is told, whatever its record says in the meantime; nothing of the wrong
  picture outlives it.
- `CrashCostsOneBurst`: a crash costs at most one ignored burst, wherever it hits,
  also in the middle of an eight-burst service command and where the counter
  skips 0.
- `WebUIKeepsItsSlots`: the check-then-send of the MQTT producer is safe only
  because `loop()` can only make space in between, and the producers share one
  task.
- `DropsAreReported`: a refused command between the test of the counter and its
  critical section is counted in the same report.
- `NothingVanishes`: a complete frame is taken, waits, is counted, or was wiped by a
  transmission, which the code does not count (`wiped`).
- `NoHalfComesLate` and `FrameIsOneBurst`: a frame may be taken one pulse short of
  the longest, because the half that is still to come is none `decode` reads; and a
  burst that overruns the buffer never leaves a sync pulse with foreign halves.
- `OneReportPerPress` and `EveryPressReported`: the detector ends a run after a
  pause longer than 1 s, the filter a press after a shorter one; both can be wrong
  about where a press begins, and together they are not, except that two presses
  of the same button in quick succession are one.
- `ShadeIsLongStop`: the detector's run is of one remote and one channel mask, so a held
  STOP whose mask changes between two frames is no SHADE until it has been held
  with one mask long enough.
- `PromptAttemptIsLeft`: the stall check uses the time of the latest retry, not of
  the attempt that is open. It still never tears down an attempt the network would
  have answered.
- `EventuallyOnline`: also when the network came up between the test for
  `mqttSetup` and the test for an attempt, so that the first attempt went to no
  broker at all and is never answered.
- `CalmDumpIsTheLog`: two writers may leave the ring with a gap or a line twice, a
  clear may leave lines behind; a full round of undisturbed messages, or a clear,
  mends everything, because the place a dump starts from is found by looking. What a
  dump of a sound ring ought to show is `Shown`, all messages or those that fit and a
  note; three exceptions are named in the property, see below.
- `NewestFirstHasNoGap`: the page's order newest first is safe while others write;
  the other order is not.
- `WatchdogFollowsUpdates`: overlapping updates can end in any order, each writes
  the flag and the watchdog in an order of its own, and what remains is right.
- `ReleaseHasOneOwner`: two writers and three readers of one pointer, with buttons of
  stale tabs: no release is lost, none is used after it was freed.
- `CommandsAreRouted`: the shared topic buffer can make a message unknown, never
  someone else's; in particular a prefix of a foreign topic never matches.
- `EventuallyReachable`: also if the reset of the delay by a connection falls between
  reading and writing it, and if `WiFi.begin` interrupts a link on its way: the first
  delay is longer than the driver needs.
- `TabIsFilled`: the latch is cleared after the answer, so a request can be lost; the
  tab still gets all values, because those come later, with the fast refresh.
- `EntitiesFollowConfig`: a sweep that a dying session swallowed is made up for by the
  next time Home Assistant comes up.
- `RestartFindsKept`: everything is found again, wherever power fails, except
  between removing the file and having written it.

### Sensitivity

An operator whose comment starts with "Slip" is a plausible bug in the
definition below it: a missing bank, a deadline kept over a reversal, a counter
that is not cleared. No specification uses one. Putting it in the place of the
definition makes TLC violate the property named in `PROJECT.json` under
`mutants`; every property of every passing run has one.

### What the code does not keep

Four runs are expected to fail. `claim_endstop` checks "An end-stop request is still
worth sending even when the estimate already says we are there"
(`shutterPos.cpp:319`): a closed shutter asked to close is sent UP, because
0 < 0 is false (`shutterPos.cpp:346`), and so is a closing one whose estimate has
just reached 0.

`claim_position` checks "Drive to an absolute position" (`shutterPos.h:41`): a shutter
that was given nothing but position requests comes to rest where the latest one sent
it. Two requests within one send cycle, as a slider gives, queue two telegrams; the
first arms the timed stop, the second finds the target consumed and gives the stop up
(`shutterPos.cpp:178-185`, 382-384), and the shutter runs to its end.
`test_shutterpos.cpp:211` expects the deadline to move and no second command.

`claim_remote` checks "A physical remote moves the shutter just as much as this controller
does, so the estimate has to follow it" (`jarolift.cpp:170`): a frame that is taken leaves
the tracker with the direction its channels move in, be it taken late. It is checked
for remotes that are pressed only while no other press waits, and always heard. A pass
transmits the queued command before it takes a frame (`jarolift.cpp:668-680`), so an UP
that goes out while a remote's DOWN waits is told first, and the DOWN, which the motor
obeyed before, is told last: the shutter opens and the tracker has it closing, until the
next telegram to the channel.

`claim_resubscribe` checks "... and resubscribe" (`mqtt.cpp:110`; also
`jarolift.cpp:69-70`). `onMqttConnect` puts the topic of each subscription together in
the buffer of `addTopic()` (`mqtt.cpp:39-43`), which `loop()` uses for whatever it
publishes or compares. If `loop()` does so between the two steps, the session
subscribes to that topic instead and hears no commands until it ends.

More divergences are known from the models and have no run of their own:

- A deadline of exactly 0, when `millis()` wraps, means none
  (`shutterPos.cpp:202`, 258), so the shutter runs to its end.
- With a full radio queue a position request is accepted and dropped
  (`shutterPos.cpp:384`, `jarolift.cpp:248`).
- A queued telegram of the other direction consumes a newer target
  (`shutterPos.cpp:190`): the shutter is settled where it never was.
- The 0 of a failed NVS read is incremented, cached and stored
  (`JaroliftController.cpp:225-228`), although the comment at 176 says a value not
  read must not be cached.
- SHADE publishes a position the tracker does not hold (`jarolift.cpp:566`, 596).
- Any UP or DOWN telegram restarts the stopwatch of the calibration run that
  "owns the channel" (`shutterPos.cpp:140`, 145-158).
- A complete frame that is in the live buffer when a transmission begins is wiped
  (`JaroliftController.cpp:357-362`) without `noteDiscardedFrame`, so no diagnostic
  counter knows of it. `NothingVanishes` excepts it (`wiped`).
- The repeat filter compares remote and button but not the mask
  (`remoteMatch.cpp:68-70`), so a STOP with another mask right after one is a repeat to
  it, while the detector begins a new run.
- The counter is committed after the transmission, so a crash in between makes the
  receivers ignore the next burst (`JaroliftController.cpp:159`, 750-752), which is
  the one burst of `CrashCostsOneBurst`.
- A backup with fewer timers, uploaded to a running controller, leaves the others
  as they are in RAM; "the remaining slots keep their zero-initialised defaults"
  (`config.cpp:613`) is true at boot only.
- `config reset` saves without taking the hash (`telnet.cpp:348-349`). Where the
  configuration in RAM has no version yet, because the controller booted without a
  file, an edit that restores the values configCyclic saw last within its second is
  taken for no change: the file keeps the defaults. `NothingUnsaved` excepts it
  (`unseen`).
- A save under way while an upload is loaded writes the old configuration over
  the uploaded file; the upload is in force until the next restart.
- The reset of the backoff by a connection is lost if it falls between reading and
  writing the delay (`mqtt.cpp:238-239`).
- A reload that is requested during `updateAllElements` is cleared
  (`webUI.cpp:109-113`): its tab gets the values of the answer under way, but not
  the language. `TabIsFilled` excepts it (`overtaken`).
- Reloads may be answered faster than once a second: `cycleTrigger` moves its start by
  one period per trigger, and it is asked only while a request waits
  (the comment at `webUI.cpp:108` says not).
- A counter that changes and is set back between two slow refreshes stays as the
  fast refresh sent it (`webUIupdates.cpp:226-231`, 259); `CounterReachesTab` excepts
  it (`returned`).
- A dump oldest first looks at `lastLine` anew for each line, so it skips lines while
  others write (`webUIupdates.cpp:336-345`).
- A full ring whose next line is the first is taken for empty, on the page and on telnet
  (`webUIupdates.cpp:331-332`, `telnet.cpp:495-496`; `FullTakenForEmpty`). The page leaves
  the last line of a full ring out and does not say so (353-357; `LastLineMissing`), the
  oldest message or, oldest first, the newest, though "silently showing part of a log
  reads as "nothing else happened"" (363). Telnet prints an empty line for the one free
  slot of an almost full ring (`telnet.cpp:511-513`; `FreeLineShown`). `CalmDumpIsTheLog`
  excepts these three and nothing else.
- The note that ends a page that is too long says "older entries not shown" (365) also
  oldest first, where newer ones are missing.
- `log mode` of telnet stores the level without `setLogLevel` (`telnet.cpp:211`).
- In setup mode an upload or a GitHub update switches the watchdog on at its end,
  ArduinoOTA does not; an update that ends switches it on under one that still runs; an
  upload that is never finished leaves it off and the pages unrefreshed.
- "Update" and "check" pressed in one pass flash the release the check just found, not
  the one the tab showed.
- `checkWiFi` starts WiFi also where it is not enabled, when Ethernet is down
  (`basics.cpp:91-122`).
- "homeassistant/status" is fixed (`mqtt.cpp:113`, 445) while the prefix of the
  configurations is a setting (`mqttDiscovery.cpp:295`); `reconfigure` announces all
  entities also with Home Assistant switched off; a changed prefix or device name
  leaves the old configurations retained; a payload that is too long is neither
  published nor cleared (`mqttDiscovery.cpp:246-250`).
- After the base topic was edited the session keeps its old subscriptions until it
  ends.
- A reply of `loop()` goes to another topic if the buffer is filled between its two
  steps; `CommandsAreRouted` says so.
- A mask too large for its type parses to all channels, one that is no number to none.

## 4. Proofs

Every invariant and every action property of a passing run is a theorem. The theorems
hold for every number of channels, remotes, tasks and timers, every length of a queue,
a ring or a frame, every clock width, travel time, counter width, acceptance window and
retry delay, and any number of inputs and faults. They assume what the modules assume
of their constants, all of it evaluated by TLC for the instances. Three theorems about
time and estimate ask for more, see "Estimate" below.

**Shutters.** `IInv == TypeOK /\ Consistent`. `Consistent` says of every channel that its
record agrees with the telegram the tracker goes by (`Followed`): the motor's, if the
tracker was told of that one last (`told`), and any, if a remote's frame still waits, was
not heard or was overtaken. It also says that a frame no telegram has overtaken is what
its channels' motors obey (`FramesCurrent`), so that taking it brings them into step.
None of the four statements about
a channel is inductive alone: that the motor goes the tracker's way
(`TrackerFollowsMotor`) needs that an armed stop belongs to a moving channel with
a target, because the sweep stops the motor of such a channel and settles the
record; that needs a known position, which needs the calibration facts, because
a measuring channel has none. `ChannelConsistent` states them together.
`ShutterPosProofs` types every function of the tracker, shows that each keeps
`ChannelConsistent` (one lemma per function) and that each handler keeps `IInv`, and
reads off the invariants. It then uses `IInv` for two action properties and for
`PendingHasTelegram`, whose own induction is over the queue: what is pending
stays in the tail until it is the head.

`StopsInTime` rests on what any handler may make of a channel (`Course`): it comes to
rest, loses its position, goes on with its start and its deadline or without one, or
begins anew now with a deadline within a travel. The sweep is the same for every handler
(`CyclicCourse`). It asks that an upload finds the channel it changes at rest
(`UploadsAtRest`). That is not so in general: an upload in the middle of a movement can
shorten the travel time below a deadline that is already set, or remove it. So the
theorem speaks of controllers that are not reconfigured while a shutter runs, and so
does the run (`shutter_live`, no uploads).

**Estimate.** `RunInv` adds time to `IInv`: a movement is no older than it lasts plus the
lag of the loop (`Punctual`), so the clock does not go around within it, and the time
since its start grows by one per tick. Hence the estimate, a quotient that never
decreases, goes one way only (`EstimateFollows`). Besides `UploadsAtRest` this takes a
clock that outlasts a travel (`ClockOutlastsTravel`), which 32 bits of milliseconds do,
and which the instance of `shutter_live` satisfies. `WithinLatency` puts the real curtain
beside the record. `WorldInv` says of each channel that what it still has to run is what
the curtain still has to run (`Found` for an unknown start, `Aimed` for a deadline,
`EndInSight` for a motor left running at an end-stop), and that estimate and curtain are
no further apart than `slack` allows (`Near`). Of a channel in step only the pass that
settles a timed stop changes the distance, by what the loop is late; a tick moves both
alike. Of one out of step nothing is claimed but `Near`: a tick moves the estimate by at
most one position and the curtain by at most one, which is what `slack` grows by, and
being told leaves the estimate where it is. The
hypothesis `RealTravel` is the question itself: configured travel times that are the
real ones and are not changed, no SHADE, users who wait for the queue. TLC evaluates
it for `world_calm` (`RealTravelAssumption`).

**Counter.** `TypeOK` and `CacheIsStored` are inductive. `CrashCostsOneBurst` is
not: `CrashInv` adds where the stored counter stands relative to what the
receivers heard (the same, the next, or one further when 0 was skipped) and that
"the same" outside the update is a debt some crash has left, not yet paid
with an ignored burst. `CrashInv` holds until an access to NVS fails or somebody
sets the counter by hand, the two things `CrashCostsOneBurst` excepts;
`CacheIsStored` excepts refused writes only. With refused writes the three counters
drift further apart than a wrap can tell, so `DriftInv` is about counters that do not
wrap (`Unwrapped`): there are numbers for flash, RAM and air that are the counters modulo
their width, and of which RAM and air are ahead of the flash by no more than the refused
writes; what the receivers will yet ignore before they hear again is paid for
(`RefusedWrites`).

**Command queue.** `QueueInv` adds to the four invariants that a producer is
armed only once the queue exists, that loop() holds a command exactly while it
dispatches one, and took it with budget left. `ImplementsSafely` shows that
`CmdQueue` implements the safety part of `CommandChannel` under the mapping
"waiting = the command in loop()'s hands followed by the queue".

**Receive path.** A frame can be in three places: the live buffer, the pending
slot and the copy that is decoded. `CaptureInv` says of each that what is in it is
one burst from its sync pulse on (`OneBurst`), and puts the three in the order of
the air, the live one newest: that is why taking either of the first two gives a
newer frame than the third. `CountInv` says that a burst heard from its sync pulse
on is in the live buffer as far as it has been sent, unless it was taken, wiped by a
transmission or has become too long, so that what ends is parked or counted. `NoLateHalf` follows from
one more fact: a frame taken one pulse short of the longest was parked, and so is
over.

**Presses.** Detector and filter keep one remote each, the history keeps all of them.
`PressInv` ties the three together: the filter holds the remote heard last, with what
was reported of it last (`FilterKnows`); the detector is in a run of that remote exactly
if it is in one, with the mask of its latest frame, and has counted it as long as it
really is, up to the hold time (`ShadeKnows`); and a filter that holds SHADE has a detector that has reported it, which
is why nothing follows a SHADE.

**Services.** `SomeoneResets` names, for a flag that is set and for a watchdog that is
off, the updates that have yet to put it right, whatever order they run in;
`AloneAsWritten` is what an update finds that meets no other (`WatchdogFollows`).
`ReleaseHasOneOwner` is inductive, because every writer frees what it replaces.
`RoutingInv` says at which of its twenty steps the handler is (`UnderwayAt`), what the
steps before it have found of the message, as long as the buffer was the loop's own
(`PassedBy`), and that whatever the other task puts into the buffer is the topic of no
command: so a foreign topic makes a message unknown and nothing else
(`CommandsRouted`). `DayInv` counts a timer's commands on a calm day: one if the minute
it is due at is among those the loop has looked at, none before. A day is done when its
last minute has been, which with each due minute being in its day gives `OnceADay`.

`LogInv` describes the ring from the newest message backwards: while nothing has mixed it
up, slot by slot the message of its age or, past what is held, an empty line; while it
recovers (`upset`), the newest messages that came in since, until a round has been
written. Writers that are alone and writers that are not are kept apart (`Writers`). A
dump from the newest on shows in each line a message no newer than the one its slot
holds by now, which bounds the next line from below (`NoGap`); a dump nobody disturbs has
shown exactly the first lines of the log, and how it ends tells which of the four ways of
`CalmDumpIsTheLog` it is (`CalmDump`): at a line that is empty, at the page's end, after
the last line but one of a full ring, or before the first.

**MQTT.** `AvailabilityTrue` rests on every session having its last will, though an
attempt can begin before `mqttSetup` registered it (such an attempt goes to no
broker and is never answered). `Apart` and `PromptLeft` rest on the order of three
ages: the reconnect timer is never older than the latest retry, nor that one than
the attempt that is open; so the retry that finds the stall limit passed finds an
attempt past the limit too, and the limit is longer than an answer takes.

**Links and discovery.** `LinkInv` says that the last event under way about a link tells
the truth, or, where none is under way, the flag does. `SweepComplete` needs `HaInv`: as
long as nothing was lost or edited, the session is up and the entities the sweep has
passed are as they are wanted.

**Configuration store.** `SoundInv` says that while nothing is spoilt at most one
task is at work, and gives each step of a load and of a save its assertion about
RAM, the document and the file; with both idle the file is the configuration the
hash was made of (`Rested`), which is more than `NothingUnsaved` says. `BootInv`
is needed for the timers: an older file leaves them as they are in RAM, which is
right only because the boot loads into a cleared configuration. The proof is also
what showed that a reset had to be excepted, see above.

Proved and not part of a run, because the proof says more than the small instance
would: the type invariants of the modules with proofs, `RestsOnlyWhenStopped`, `ArmedStopHasTarget`,
`CalibrationClaimsNothing`, `KnownOnlyAtEndStop`, `CacheIsStored`, `DrainIsBounded`,
`AttemptsApart`, `BufferHolds` and `SetupModeHasCause`.

Only model-checked: liveness (`MovementEnds`, `TargetTakenUp`, `DropsGetReported`,
`EventuallyOnline`, `EventuallyReachable`, `TabIsFilled`, `CounterReachesTab`,
`EntitiesFollowConfig`, `ChangeIsSaved`, and the fairness part of `ImplementsChannel`),
because it rests on fairness, that is on ENABLED, which TLAPS does not reason about; and
the four claims, of which there is nothing to prove. All of `WebPage` is liveness, so
it has no theorem.

## 5. Plan

Done: every component above that is modelled is checked, and every safety property of
a run is proved.

1. Safety under the liveness: what can be shown without fairness of "the deadline is
   reached", "the queue gets shorter", "the tab's latch is answered", as invariants or
   as steps that may only decrease a measure.
2. Refinements beside `CommandChannel`: an abstract statement of one press of a remote,
   implemented by `RxCapture` and `RemotePress` together, and of the configuration
   file, implemented by `ConfigStore`.
3. A radio that does not come up (`JaroliftController.cpp:737`), a travel time taken
   away during a movement (`shutterPos.cpp:89`), and SHADE positions
   (`jarolift.cpp:596`), the hazards without a property.

### Not modelled

The registers of the CC1101 and the KeeLoq cipher: hardware and a pure function of
32 bits, about which no property of the control says anything. The astronomy behind
sunrise and sunset, the text of pages, the JSON of status messages, and the tables
that name elements, fields and topics: data. The multi-reset detector, the LED and
the heap monitor: they read state of the system or write only to the log.

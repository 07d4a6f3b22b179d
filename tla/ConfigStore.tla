----------------------------- MODULE ConfigStore ------------------------------
(***************************************************************************)
(* The configuration and its file (src/config.cpp).  loop() edits the      *)
(* configuration in RAM, notices the change by a hash within a second, and *)
(* writes the file anew: remove, open, write.  A file uploaded to the web  *)
(* page is loaded by the AsyncTCP task at any time, with the same          *)
(* functions and no lock; a power failure may hit between any two steps.   *)
(*                                                                         *)
(* The hash is taken for the configuration it is made of.  An operator     *)
(* marked "Slip" is a plausible bug in the definition below it.            *)
(***************************************************************************)
EXTENDS Integers, Sequences

CONSTANTS
  Body,          \* what may be configured, but for the timers
  Default,       \* configInitValue: no WiFi network is named
  Bare, Filled,  \* a body with a network and no GPIOs, and what checkGPIO makes of it
  MaxEdits, MaxUploads, MaxFailures   \* bounds

ASSUME BodyAssumption == {Default, Bare, Filled} \subseteq Body /\ Filled \notin {Default, Bare}
ASSUME BoundAssumption == MaxEdits \in Nat /\ MaxUploads \in Nat /\ MaxFailures \in Nat

Current == 5                         \* CFG_VERSION
Older   == 4                         \* had fewer timers
Unset   == 0
Task    == {"loop", "upload"}

\* The timers stand for those an older file does not have.
Config == [version : {Current, Older, Unset}, body : Body, timers : BOOLEAN]
File   == [version : {Current, Older}, body : Body, timers : BOOLEAN]

InitValue == [version |-> Unset, body |-> Default, timers |-> FALSE]

VARIABLES
  config,        \* the configuration in RAM
  hashOld,       \* the one that configCyclic has seen
  file,          \* config.json, empty where it is missing or cannot be read
  at,            \* per task: where it is
  doc,           \* per task: the JsonDocument it fills or reads
  booted,        \* setup() is over
  restart,       \* the save is the one before a restart
  setupMode,
  unseen,        \* a reset was saved that configCyclic has not seen
  kept,          \* the latest configuration saved or uploaded
  spoilt,        \* that was disturbed: by the other task or a failure
  edits, uploads, failures

vars == <<config, hashOld, file, at, doc, booted, restart, setupMode, unseen, kept, spoilt,
          edits, uploads, failures>>
counts == <<edits, uploads, failures>>

TypeOK ==
  /\ config \in Config /\ hashOld \in Config
  /\ file \in {<<>>} \cup {<<f>> : f \in File}
  /\ at \in [Task -> {"idle", "read", "body", "timers", "hash", "save", "remove", "write",
                      "check", "restart"}]
  /\ doc \in [Task -> Config] /\ kept \in Config
  /\ booted \in BOOLEAN /\ restart \in BOOLEAN /\ setupMode \in BOOLEAN
  /\ unseen \in BOOLEAN /\ spoilt \in BOOLEAN
  /\ edits \in 0 .. MaxEdits /\ uploads \in 0 .. MaxUploads /\ failures \in 0 .. MaxFailures

Zero == [version |-> Unset, body |-> Default, timers |-> FALSE]   \* before the first load

\* The first boot finds no file.
Init ==
  /\ \/ \E f \in File : (f.version = Older => ~f.timers) /\ file = <<f>> /\ kept = f /\ spoilt = FALSE
     \/ file = <<>> /\ kept = InitValue /\ spoilt = TRUE
  /\ config = Zero /\ hashOld = Zero /\ doc = [t \in Task |-> Zero]
  /\ at = [t \in Task |-> IF t = "loop" THEN "read" ELSE "idle"]
  /\ booted = FALSE /\ restart = FALSE /\ setupMode = FALSE /\ unseen = FALSE
  /\ edits = 0 /\ uploads = 0 /\ failures = 0

Alone(t) == \A other \in Task \ {t} : at[other] = "idle"
Goto(t, label) == at' = [at EXCEPT ![t] = label]

\* Whoever acts while the other task is at work disturbs it.
Disturbs(t) == spoilt' = (spoilt \/ ~Alone(t))

-----------------------------------------------------------------------------
(* configSaveToFile.                                                       *)

Image(c) == [c EXCEPT !.version = Current]

\* The document is a local variable.
Forget(t) == doc' = [doc EXCEPT ![t] = Zero]

\* Where a task goes on after a load or a save.
After(t) ==
  IF t = "loop" /\ ~booted THEN "check" ELSE IF t = "loop" /\ restart THEN "restart" ELSE "idle"

Serialise(t) ==
  /\ at[t] = "save" /\ Goto(t, "remove")
  /\ doc' = [doc EXCEPT ![t] = config]
  /\ spoilt' = (~Alone(t) \/ (spoilt /\ config # hashOld))
  /\ UNCHANGED <<config, hashOld, file, booted, restart, setupMode, unseen, kept, counts>>

Remove(t) ==
  /\ at[t] = "remove" /\ Goto(t, "write")
  /\ file' = <<>>
  /\ Disturbs(t)
  /\ UNCHANGED <<config, hashOld, doc, booted, restart, setupMode, unseen, kept, counts>>

Write(t) ==
  /\ at[t] = "write" /\ Goto(t, After(t))
  /\ file' = <<Image(doc[t])>> /\ kept' = doc[t] /\ Forget(t)
  /\ Disturbs(t)
  /\ UNCHANGED <<config, hashOld, booted, restart, setupMode, unseen, counts>>

\* The file cannot be opened, or not be written in full: a line in the log.
WriteFails(t) ==
  /\ at[t] = "write" /\ Goto(t, After(t))
  /\ failures < MaxFailures /\ failures' = failures + 1
  /\ file' = <<>> /\ spoilt' = TRUE /\ Forget(t)
  /\ UNCHANGED <<config, hashOld, booted, restart, setupMode, unseen, kept, edits, uploads>>

-----------------------------------------------------------------------------
(* configLoadFromFile.                                                     *)

\* Slip: a file of an older version counts as broken.
ReadableCurrent == file # <<>> /\ Head(file).version = Current

Readable == file # <<>>

Read(t) ==
  /\ at[t] = "read"
  /\ IF Readable
     THEN /\ doc' = [doc EXCEPT ![t] = Head(file)] /\ Goto(t, "body")
          /\ UNCHANGED <<config, setupMode>>
     ELSE /\ config' = InitValue /\ setupMode' = TRUE /\ Goto(t, "hash")
          /\ UNCHANGED doc
  /\ Disturbs(t)
  /\ UNCHANGED <<hashOld, file, booted, restart, unseen, kept, counts>>

FillBody(t) ==
  /\ at[t] = "body" /\ Goto(t, "timers")
  /\ config' = [config EXCEPT !.version = doc[t].version, !.body = doc[t].body]
  /\ Disturbs(t)
  /\ UNCHANGED <<hashOld, file, doc, booted, restart, setupMode, unseen, kept, counts>>

\* Slip: the loop still ends at the six timers there used to be.
TimersOfOld(t) == config.timers

\* Timers the file does not have keep the values they have in RAM.
Timers(t) == IF doc[t].version = Older THEN config.timers ELSE doc[t].timers

FillTimers(t) ==
  /\ at[t] = "timers" /\ Goto(t, "hash")
  /\ config' = [config EXCEPT !.timers = Timers(t)]
  /\ Disturbs(t)
  /\ UNCHANGED <<hashOld, file, doc, booted, restart, setupMode, unseen, kept, counts>>

\* configHashInit, and a save where the file is of another version.
HashInit(t) ==
  /\ at[t] = "hash" /\ Goto(t, IF config.version # Current THEN "save" ELSE After(t))
  /\ hashOld' = config /\ unseen' = FALSE /\ Forget(t)
  /\ Disturbs(t)
  /\ UNCHANGED <<config, file, booted, restart, setupMode, kept, counts>>

-----------------------------------------------------------------------------
(* setup() and loop().                                                     *)

CheckedGpio == IF config.body = Bare THEN Filled ELSE config.body

\* Slip: the hash is taken over once more when the settings are checked.
SeenAtCheck(c) == c

Seen(c) == hashOld

\* checkGPIO and configFinalCheck end the setup.
FinalCheck ==
  /\ at["loop"] = "check" /\ Goto("loop", "idle")
  /\ config' = [config EXCEPT !.body = CheckedGpio]
  /\ hashOld' = Seen([config EXCEPT !.body = CheckedGpio])
  /\ setupMode' = (setupMode \/ CheckedGpio = Default)
  /\ booted' = TRUE
  /\ UNCHANGED <<file, doc, restart, unseen, kept, spoilt, counts>>

Looping == at["loop"] = "idle"

\* webCallback: a field of the settings page, dispatched by loop().
Edit ==
  /\ Looping /\ edits < MaxEdits /\ edits' = edits + 1
  /\ \/ \E body \in Body : config' = [config EXCEPT !.body = body]
     \/ config' = [config EXCEPT !.timers = ~config.timers]
  /\ Disturbs("loop")
  /\ UNCHANGED <<hashOld, file, at, doc, booted, restart, setupMode, unseen, kept, uploads, failures>>

\* Slip: the hash leaves the last timers out.
ChangedBody == config.body # hashOld.body

Changed == config # hashOld

ConfigCyclic ==
  /\ Looping /\ Changed
  /\ hashOld' = config /\ unseen' = FALSE /\ Goto("loop", "save")
  /\ Disturbs("loop")
  /\ UNCHANGED <<config, file, doc, booted, restart, setupMode, kept, counts>>

\* The button that saves and restarts, and "config reset" on the telnet console.
RestartAction ==
  /\ Looping /\ restart' = TRUE /\ Goto("loop", "save")
  /\ Disturbs("loop")
  /\ UNCHANGED <<config, hashOld, file, doc, booted, setupMode, unseen, kept, counts>>

CmdConfig ==
  /\ Looping
  /\ config' = InitValue /\ unseen' = TRUE /\ Goto("loop", "save")
  /\ Disturbs("loop")
  /\ UNCHANGED <<hashOld, file, doc, booted, restart, setupMode, kept, counts>>

Reboot ==
  /\ config' = Zero /\ hashOld' = Zero /\ doc' = [t \in Task |-> Zero]
  /\ at' = [t \in Task |-> IF t = "loop" THEN "read" ELSE "idle"]
  /\ booted' = FALSE /\ restart' = FALSE /\ setupMode' = FALSE /\ unseen' = FALSE
  /\ spoilt' = (spoilt \/ file = <<>>)

Restart ==
  /\ at["loop"] = "restart" /\ Reboot
  /\ UNCHANGED <<file, kept, counts>>

-----------------------------------------------------------------------------
(* The rest of the world.                                                  *)

\* The web server has stored an uploaded file and reports it.
Upload ==
  /\ booted /\ at["upload"] = "idle" /\ uploads < MaxUploads /\ uploads' = uploads + 1
  /\ \E f \in File :
       /\ f.version = Older => ~f.timers
       /\ file' = <<f>> /\ kept' = f
  /\ Goto("upload", "read")
  /\ spoilt' = ~Alone("upload")
  /\ UNCHANGED <<config, hashOld, doc, booted, restart, setupMode, unseen, edits, failures>>

\* Power fails: what was removed or half written is gone.
Crash ==
  /\ failures < MaxFailures /\ failures' = failures + 1
  /\ Reboot
  /\ UNCHANGED <<file, kept, edits, uploads>>

Save(t) == Serialise(t) \/ Remove(t) \/ Write(t) \/ WriteFails(t)
Load(t) == Read(t) \/ FillBody(t) \/ FillTimers(t) \/ HashInit(t)
Cyclic  == FinalCheck \/ ConfigCyclic \/ Restart

Next ==
  \/ \E t \in Task : Save(t) \/ Load(t)
  \/ Cyclic \/ Edit \/ RestartAction \/ CmdConfig \/ Upload \/ Crash

\* Both tasks go on with what they have begun.
Fairness == WF_vars(Cyclic) /\ \A t \in Task : WF_vars(Save(t) \/ Load(t))

Spec == Init /\ [][Next]_vars /\ Fairness

-----------------------------------------------------------------------------
(* What may be relied upon.                                                *)

\* With both tasks idle, what is in RAM is in the file or still to be noticed,
\* unless the two tasks met, a write failed, or a reset has just been saved without
\* the hash: no change is taken for saved that is not, neither an edit nor what
\* checkGPIO put right (lines 41-56, 191-211).
NothingUnsaved ==
  Looping /\ at["upload"] = "idle" /\ ~spoilt /\ ~unseen
    => config # hashOld \/ file = <<Image(config)>>

\* A restart finds the latest configuration that was saved or uploaded, timers and
\* all, wherever power failed but in a write (lines 272-453, 461-652).
RestartFindsKept ==
  ~booted /\ at["loop"] = "hash" /\ ~spoilt
    => config.body = kept.body /\ config.timers = kept.timers

\* The controller goes to setup mode by itself only where no network is configured,
\* or a write was disturbed (lines 468-475, 654-662).
SetupModeHasCause ==
  [][setupMode' /\ ~setupMode => spoilt' \/ kept.body = Default]_vars

\* A change reaches the file, if power stays and nothing disturbs the save
\* (lines 202-211).
ChangeIsSaved ==
  booted /\ ~spoilt /\ ~unseen /\ config # hashOld
    ~> file = <<Image(config)>> \/ spoilt \/ ~booted
=============================================================================

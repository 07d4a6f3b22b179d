-------------------------------- MODULE LogRing --------------------------------
(***************************************************************************)
(* The log of the controller: a ring of lines that every task writes to    *)
(* through esp_log (src/message.cpp) and that loop() shows on the log page *)
(* (src/webUIupdates.cpp) and over telnet (src/telnet.cpp).  Nothing locks *)
(* it: a message is a write, a read and a write of shared memory, a clear  *)
(* and a dump go line by line, and the tasks interleave between them.      *)
(*                                                                         *)
(* A message is its number, a line holds one whole or none (0).  Which     *)
(* levels pass is left out; the length of lines is how many fit one page.  *)
(* An operator marked "Slip" is a plausible bug in the one below it.       *)
(***************************************************************************)
EXTENDS Integers, Sequences, FiniteSets

LOCAL INSTANCE SequencesExt

CONSTANTS
  Lines,        \* MAX_LOG_LINES
  LoopTask,     \* the task of loop()
  OtherTasks,   \* the tasks beside it that log
  FewestFit,    \* so many of the longest lines fit LOG_DUMP_MAX_BYTES
  MaxMessages   \* bound

ASSUME LinesAssumption ==
  /\ Lines \in Nat \ {0, 1} /\ FewestFit \in Nat \ {0} /\ MaxMessages \in Nat
  /\ LoopTask \notin OtherTasks /\ IsFiniteSet(OtherTasks)

Task == OtherTasks \cup {LoopTask}
Slot == 0 .. Lines - 1
Empty == 0
NotShown == -1   \* "older entries not shown, the log is longer than one page"

VARIABLES
  buffer,         \* logData.buffer
  lastLine,       \* logData.lastLine: the slot the next message goes to
  newest,         \* config.log.order = 1: newest message first
  logReadActive,  \* the log page asked for the log
  at,             \* what each task is doing
  slot,           \* the slot it computed or clears next
  alone,          \* no other task was writing since it began
  dump,           \* the latest dump
  messages,       \* messages so far
  cleared,        \* messages there were when the log was cleared
  upset           \* messages until a mixed up ring is sound again

logVars == <<buffer, lastLine, newest, logReadActive, at, slot, alone, dump, messages, cleared, upset>>
page == <<newest, logReadActive>>

NoDump == [reader |-> "none", newest |-> FALSE, line |-> 0, fits |-> 0, shown |-> <<>>,
           calm |-> TRUE, sound |-> TRUE, from |-> 0]

LogInit ==
  /\ buffer = [s \in Slot |-> Empty] /\ lastLine = 0
  /\ newest \in BOOLEAN /\ logReadActive = FALSE
  /\ at = [t \in Task |-> "idle"] /\ slot = [t \in Task |-> 0] /\ alone = [t \in Task |-> TRUE]
  /\ dump = NoDump
  /\ messages = 0 /\ cleared = 0 /\ upset = 0

-----------------------------------------------------------------------------
(* The history: who wrote at the same time as another.                     *)

Writing == {t \in Task : at[t] \in {"wrote", "fetched", "clearing"}}

\* Task t begins to write; with another at it both may spoil what the other does,
\* until every slot has been written anew.
Begins(t) ==
  IF Writing = {} THEN UNCHANGED <<alone, upset>>
  ELSE alone' = [u \in Task |-> alone[u] /\ u \notin Writing \cup {t}] /\ upset' = Lines

\* Task t is through with it.
Finishes(t) ==
  at' = [at EXCEPT ![t] = "idle"] /\ slot' = [slot EXCEPT ![t] = 0] /\ alone' = [alone EXCEPT ![t] = TRUE]

\* A dump goes on while another task begins to write.
Disturbed == IF dump = NoDump THEN dump ELSE [dump EXCEPT !.calm = FALSE, !.sound = @ /\ Writing = {}]

-----------------------------------------------------------------------------
(* addLogBuffer, in any task.                                              *)

\* The line is written ...
Write(t) ==
  /\ at[t] = "idle" /\ messages < MaxMessages
  /\ buffer' = [buffer EXCEPT ![lastLine] = messages + 1]
  /\ at' = [at EXCEPT ![t] = "wrote"] /\ messages' = messages + 1
  /\ Begins(t)
  /\ dump' = Disturbed
  /\ UNCHANGED <<lastLine, page, slot, cleared>>

\* Slip: the ring is one slot shorter than the dumps take it to be.
AfterShort(s) == (s + 1) % (Lines - 1)

After(s) == (s + 1) % Lines

\* ... the next slot is computed ...
Fetch(t) ==
  /\ at[t] = "wrote"
  /\ slot' = [slot EXCEPT ![t] = After(lastLine)]
  /\ at' = [at EXCEPT ![t] = "fetched"]
  /\ UNCHANGED <<buffer, lastLine, page, alone, dump, messages, cleared, upset>>

\* ... and stored.
StoreNext(t) ==
  /\ at[t] = "fetched"
  /\ lastLine' = slot[t] /\ Finishes(t)
  /\ upset' = IF alone[t] /\ upset > 0 THEN upset - 1 ELSE upset
  /\ UNCHANGED <<buffer, page, dump, messages, cleared>>

-----------------------------------------------------------------------------
(* clearLogBuffer: a button, a change of the level or a telnet command,    *)
(* always in loop().                                                       *)

BeginClear ==
  /\ at[LoopTask] = "idle"
  /\ lastLine' = 0
  /\ at' = [at EXCEPT ![LoopTask] = "clearing"] /\ slot' = [slot EXCEPT ![LoopTask] = 0]
  /\ cleared' = messages
  /\ Begins(LoopTask)
  /\ UNCHANGED <<buffer, page, dump, messages>>

ClearLine ==
  /\ at[LoopTask] = "clearing" /\ slot[LoopTask] < Lines
  /\ buffer' = [buffer EXCEPT ![slot[LoopTask]] = Empty]
  /\ slot' = [slot EXCEPT ![LoopTask] = @ + 1]
  /\ UNCHANGED <<lastLine, page, at, alone, dump, messages, cleared, upset>>

EndClear ==
  /\ at[LoopTask] = "clearing" /\ slot[LoopTask] = Lines
  /\ Finishes(LoopTask)
  /\ upset' = IF alone[LoopTask] THEN 0 ELSE upset
  /\ UNCHANGED <<buffer, lastLine, page, dump, messages, cleared>>

-----------------------------------------------------------------------------
(* A dump, in loop(): every line looks at the ring anew.                   *)

\* The refresh button, or the order was changed: webReadLogBuffer.
AskForLog ==
  /\ at[LoopTask] = "idle"
  /\ newest' \in BOOLEAN /\ logReadActive' = TRUE
  /\ UNCHANGED <<buffer, lastLine, at, slot, alone, dump, messages, cleared, upset>>

\* The pass of loop() that finds the request, or the command "log read".
BeginDump(reader) ==
  /\ at[LoopTask] = "idle" /\ (reader = "web" => logReadActive)
  /\ at' = [at EXCEPT ![LoopTask] = "dumping"]
  /\ \E fits \in IF reader = "web" THEN FewestFit .. Lines ELSE {Lines} :
       dump' = [reader |-> reader, newest |-> newest, line |-> 0, fits |-> fits, shown |-> <<>>,
                calm |-> Writing = {}, sound |-> upset = 0, from |-> messages - Cardinality(Writing)]
  /\ UNCHANGED <<buffer, lastLine, page, slot, alone, messages, cleared, upset>>

DumpEnds ==
  /\ dump' = NoDump
  /\ at' = [at EXCEPT ![LoopTask] = "idle"]
  /\ logReadActive' = (logReadActive /\ dump.reader # "web")

Shows(entry) ==
  /\ dump' = [dump EXCEPT !.line = @ + 1, !.shown = Append(@, entry)]
  /\ UNCHANGED <<at, logReadActive>>

\* Slip: the newest line is looked for where the next one goes.
FromNewestLate(line) == (lastLine - line) % Lines

FromNewest(line) == (lastLine - line - 1) % Lines

\* The next line is free while the ring has never been full.
FromOldest(line) == IF buffer[lastLine] = Empty THEN line ELSE (lastLine + line) % Lines

\* A full ring about to start over looks the same as an empty one.
LooksEmpty == dump.line = 0 /\ lastLine = 0

\* webReadLogBufferCyclic: it ends one line before the ring does.
WebLine ==
  /\ at[LoopTask] = "dumping" /\ dump.reader = "web"
  /\ LET s == IF dump.newest THEN FromNewest(dump.line) ELSE FromOldest(dump.line)
     IN  IF LooksEmpty \/ dump.line = Lines - 1 \/ buffer[s] = Empty \/ dump.line > dump.fits
         THEN DumpEnds
         ELSE Shows(IF dump.line = dump.fits THEN NotShown ELSE buffer[s])
  /\ UNCHANGED <<buffer, lastLine, newest, slot, alone, messages, cleared, upset>>

\* readLogger: oldest first, all of the ring.
TelnetLine ==
  /\ at[LoopTask] = "dumping" /\ dump.reader = "telnet"
  /\ LET s == FromOldest(dump.line)
     IN  IF LooksEmpty \/ dump.line = Lines \/ (dump.line \in 1 .. Lines - 2 /\ buffer[s] = Empty)
         THEN DumpEnds ELSE Shows(buffer[s])
  /\ UNCHANGED <<buffer, lastLine, newest, slot, alone, messages, cleared, upset>>

-----------------------------------------------------------------------------
LogNext ==
  \/ \E t \in Task : Write(t) \/ Fetch(t) \/ StoreNext(t)
  \/ BeginClear \/ ClearLine \/ EndClear
  \/ AskForLog \/ \E reader \in {"web", "telnet"} : BeginDump(reader)
  \/ WebLine \/ TelnetLine

LogSpec == LogInit /\ [][LogNext]_logVars

-----------------------------------------------------------------------------
(* What may be relied upon.                                                *)

\* The log as it ought to be: the last messages since it was cleared.
Oldest == IF messages - cleared > Lines THEN messages - Lines ELSE cleared
Log == [i \in 1 .. messages - Oldest |-> Oldest + i]

\* What a dump ought to show of it: all, in its order, or what fits and a note.
InOrder(d) == IF d.reader = "web" /\ d.newest THEN Reverse(Log) ELSE Log
Shown(d) ==
  IF Len(InOrder(d)) <= d.fits THEN InOrder(d) ELSE Append(SubSeq(InOrder(d), 1, d.fits), NotShown)

\* The code falls short of that in three cases, all of an almost full or full ring.
\* "log empty", of a full ring whose next line is the first (webUIupdates.cpp:331-332,
\* telnet.cpp:495-496):
FullTakenForEmpty(d) == Len(Log) = Lines /\ lastLine = 0 /\ d.shown = <<>>

\* the page leaves the last line of a full ring out and does not say so, against what
\* the code means to avoid (webUIupdates.cpp:353-357 and 362-364):
LastLineMissing(d) ==
  /\ d.reader = "web" /\ Len(Log) = Lines /\ d.fits >= Lines - 1
  /\ d.shown = SubSeq(InOrder(d), 1, Lines - 1)

\* telnet shows the one free line of the ring (telnet.cpp:511-513):
FreeLineShown(d) == d.reader = "telnet" /\ Len(Log) = Lines - 1 /\ d.shown = Append(Log, Empty)

\* A dump that no other task disturbs shows the log, in its order and up to what
\* fits, with a note of what does not; and it does again after every mix-up of two
\* writers or of a writer and a clear, once the ring has gone round or been cleared.
\* It may fall short of that in the three cases above and in no other (message.cpp:
\* 170-188 with webUIupdates.cpp:320-381 and telnet.cpp:491-525).
CalmDumpIsTheLog ==
  [][dump # NoDump /\ dump' = NoDump /\ dump.calm /\ dump.sound =>
       \/ dump.shown = Shown(dump)
       \/ FullTakenForEmpty(dump) \/ LastLineMissing(dump) \/ FreeLineShown(dump)]_logVars

\* A dump that starts with the newest message leaves none out, though messages are
\* added while it runs: every next line is the message before, or a newer one.  The
\* oldest first it may well leave some out (webUIupdates.cpp:336-345).
NewestFirstHasNoGap ==
  dump.reader = "web" /\ dump.newest /\ dump.sound /\ dump.shown # <<>> =>
    /\ dump.shown[1] >= dump.from
    /\ \A i \in 1 .. Len(dump.shown) - 1 : dump.shown[i + 1] \in {NotShown} \cup (dump.shown[i] - 1 .. messages)
=============================================================================

----------------------------- MODULE ServicesProofs -----------------------------
(***************************************************************************)
(* The safety of what loop() and the AsyncTCP task do beside the commands, *)
(* for every value of the constants.                                       *)
(*                                                                         *)
(* FirmwareUpdate: whatever order the updates begin and end in, a flag     *)
(* that is set and a watchdog that is off have an update that is yet to    *)
(* put it right; and an update that meets no other finds what it wrote.    *)
(*                                                                         *)
(* MqttTopics: loop() is at some step of the handler, what it passed by    *)
(* then did not fit the message as long as the buffer was its own, and     *)
(* what the other task writes into the buffer is no topic of a command.    *)
(*                                                                         *)
(* TimerSched: while nothing disturbs a day, the timers that had their     *)
(* command are those due at a minute the loop has looked at.               *)
(*                                                                         *)
(* LogRing: what the ring holds as long as no two tasks mix it up, counted *)
(* from the newest message back, and while it recovers from a mix-up; and  *)
(* what each line of a dump showed of it.                                  *)
(***************************************************************************)
EXTENDS TimerSched, LogRing, FirmwareUpdate, MqttTopics, FiniteSetTheorems, SequenceTheorems, TLAPS
LOCAL INSTANCE SequencesExt

-----------------------------------------------------------------------------
(* Firmware updates.                                                       *)

FwTypeOK ==
  /\ setupMode \in BOOLEAN
  /\ fwPc \in {"pass", "version", "update", "commands", "arduino begun", "arduino runs",
               "arduino ended", "flash begun", "flash runs", "flash ended"}
  /\ upload \in {"none", "begun", "running", "ended"}
  /\ active \in BOOLEAN /\ watchdog \in BOOLEAN /\ met \in BOOLEAN

\* Who will reset the flag, and who will switch the watchdog on again.
SomeoneResets ==
  /\ active => \/ upload \in {"begun", "running"}
               \/ fwPc \in {"arduino runs", "arduino ended", "flash begun", "flash runs"}
  /\ ~watchdog /\ ~setupMode =>
       \/ upload \in {"running", "ended"}
       \/ fwPc \in {"arduino begun", "arduino runs", "flash runs", "flash ended"}

\* What an update finds as long as it is the only one.
AloneAsWritten ==
  ~met =>
    /\ ~(InLoop /\ upload # "none")
    /\ fwPc \in {"flash begun", "flash runs", "arduino runs"} \/ upload \in {"begun", "running"} => active
    /\ fwPc \in {"arduino begun", "arduino runs", "flash runs"} \/ upload = "running" => ~watchdog

FwInv == FwTypeOK /\ SomeoneResets /\ AloneAsWritten

\* Every step of an update keeps who is to put right what.
LEMMA FwInductive == FwInv /\ [FwNext]_fwVars => FwInv'
<1> SUFFICES ASSUME FwInv, [FwNext]_fwVars PROVE FwInv'
  OBVIOUS
<1> USE DEF FwInv, FwTypeOK, SomeoneResets, AloneAsWritten, InLoop, Meets
<1>1. CASE UploadBegins
  BY <1>1 DEF UploadBegins
<1>2. CASE UploadUnwatched
  BY <1>2 DEF UploadUnwatched
<1>3. CASE UploadEnds
  BY <1>3 DEF UploadEnds
<1>4. CASE UploadWatched
  BY <1>4 DEF UploadWatched, Rewatched
<1>5. CASE NothingFromArduino
  BY <1>5 DEF NothingFromArduino
<1>6. CASE ArduinoBegins
  BY <1>6 DEF ArduinoBegins
<1>7. CASE ArduinoRuns
  BY <1>7 DEF ArduinoRuns
<1>8. CASE ArduinoWatched
  BY <1>8 DEF ArduinoWatched
<1>9. CASE ArduinoEnds
  BY <1>9 DEF ArduinoEnds
<1>10. CASE CheckVersion
  BY <1>10 DEF CheckVersion
<1>11. CASE NothingToFlash
  BY <1>11 DEF NothingToFlash
<1>12. CASE FlashBegins
  BY <1>12 DEF FlashBegins
<1>13. CASE FlashRuns
  BY <1>13 DEF FlashRuns
<1>14. CASE FlashEnds
  BY <1>14 DEF FlashEnds
<1>15. CASE FlashWatched
  BY <1>15 DEF FlashWatched
<1>16. CASE Buttons
  BY <1>16 DEF Buttons
<1>17. CASE UNCHANGED fwVars
  BY <1>17 DEF fwVars
<1> QED
  BY <1>1, <1>2, <1>3, <1>4, <1>5, <1>6, <1>7, <1>8, <1>9, <1>10, <1>11, <1>12, <1>13,
     <1>14, <1>15, <1>16, <1>17 DEF FwNext

\* When no update runs the watchdog watches again and the pages are refreshed, and
\* while one alone runs the watchdog is off, however updates from the web page, from
\* ArduinoOTA and from GitHub overlap and end (webUI.cpp:41-63, main.cpp:60-78).
THEOREM WatchdogFollows == FwSpec => []WatchdogFollowsUpdates
<1>1. FwInit => FwInv
  BY DEF FwInit, FwInv, FwTypeOK, SomeoneResets, AloneAsWritten, InLoop
<1>2. FwInv => WatchdogFollowsUpdates
  BY DEF FwInv, FwTypeOK, SomeoneResets, AloneAsWritten, InLoop, WatchdogFollowsUpdates
<1> QED
  BY <1>1, <1>2, FwInductive, PTL DEF FwSpec

\* However releases are checked for and flashed, the memory held is that of the release
\* the controller knows, and a release that is offered holds its memory, for every
\* memory the heap may hand out (webUIupdates.cpp:407-424, 430-434 and 530-535).
THEOREM OneOwner == FwSpec => []ReleaseHasOneOwner
<1> USE DEF ReleaseHasOneOwner
<1>1. FwInit => ReleaseHasOneOwner
  BY DEF FwInit
<1>2. ReleaseHasOneOwner /\ [FwNext]_fwVars => ReleaseHasOneOwner'
  <2> SUFFICES ASSUME ReleaseHasOneOwner, [FwNext]_fwVars PROVE ReleaseHasOneOwner'
    OBVIOUS
  <2>1. KeptAfterClear = {}
    BY DEF KeptAfterClear
  <2>2. CASE CheckVersion /\ startCheckGitHubVersion
    <3>1. PICK r \in Releases, fits \in BOOLEAN :
            /\ release' = IF fits THEN r ELSE None
            /\ assetFound' = fits
            /\ heap' = IF fits THEN {r} ELSE {}
      BY <2>1, <2>2 DEF CheckVersion, UnfitFreed
    <3>2. r # None
      BY ReleasesAssumption
    <3> QED
      BY <3>1, <3>2
  <2>3. CASE FlashWatched
    BY <2>1, <2>3 DEF FlashWatched
  <2>4. CASE UNCHANGED <<heap, release, assetFound>>
    BY <2>4
  <2>5. UNCHANGED <<heap, release, assetFound>> \/ FlashWatched \/ (CheckVersion /\ startCheckGitHubVersion)
    BY DEF FwNext, fwVars, github, UploadBegins, UploadUnwatched, UploadEnds, UploadWatched,
       NothingFromArduino, ArduinoBegins, ArduinoRuns, ArduinoWatched, ArduinoEnds, CheckVersion,
       NothingToFlash, FlashBegins, FlashRuns, FlashEnds, Buttons
  <2> QED
    BY <2>2, <2>3, <2>4, <2>5
<1> QED
  BY <1>1, <1>2, PTL DEF FwSpec

-----------------------------------------------------------------------------
(* The topics of MQTT.                                                     *)

\* What onMqttConnect fills in and does, and what loop() does.
OtherTopics == {"wifi", "cmd/#", "setvalue/#"}
TcpSteps ==
  {Fill(suffix) : suffix \in OtherTopics}
    \cup {Use(purpose) : purpose \in {"publish", "subscribe", "status"}}
LoopSteps ==
  {Fill(suffix) : suffix \in {"shutter", "group", "message"} \cup Words}
    \cup {Use(purpose) : purpose \in {"subtopic", "channel", "group", "word", "found", "unknown", "publish"}}

\* mqttHandleCommand, step by step.
LEMMA HandlingSteps ==
  /\ Handling \in Seq(LoopSteps) /\ Len(Handling) = 20
  /\ Handling[1] = Fill("shutter") /\ Handling[2] = Use("subtopic")
  /\ Handling[3] = Fill("shutter") /\ Handling[4] = Use("channel")
  /\ Handling[5] = Fill("group") /\ Handling[6] = Use("group")
  /\ Handling[7] = Fill("restart") /\ Handling[8] = Use("word")
  /\ Handling[9] = Fill("reconfigure") /\ Handling[10] = Use("word")
  /\ Handling[11] = Use("found")
  /\ Handling[12] = Fill("group/up") /\ Handling[13] = Use("word")
  /\ Handling[14] = Fill("group/down") /\ Handling[15] = Use("word")
  /\ Handling[16] = Fill("group/stop") /\ Handling[17] = Use("word")
  /\ Handling[18] = Fill("group/shade") /\ Handling[19] = Use("word")
  /\ Handling[20] = Use("unknown")
<1> DEFINE a == Compare("shutter", "subtopic")
           b == ShutterThenGroup
           c == Compare("restart", "word")
           d == Compare("reconfigure", "word")
           e == <<Use("found")>>
           f == Compare("group/up", "word")
           g == Compare("group/down", "word")
           h == Compare("group/stop", "word")
           i == Compare("group/shade", "word")
           j == <<Use("unknown")>>
<1>1. ASSUME NEW suffix \in {"shutter", "group"} \cup Words, NEW purpose \in {"subtopic", "channel", "group", "word"}
      PROVE  /\ Compare(suffix, purpose) \in Seq(LoopSteps) /\ Len(Compare(suffix, purpose)) = 2
             /\ Compare(suffix, purpose)[1] = Fill(suffix) /\ Compare(suffix, purpose)[2] = Use(purpose)
  <2>1. Fill(suffix) \in LoopSteps /\ Use(purpose) \in LoopSteps
    BY DEF LoopSteps
  <2> QED BY <2>1 DEF Compare
<1>2. /\ b \in Seq(LoopSteps) /\ Len(b) = 4
      /\ b[1] = Fill("shutter") /\ b[2] = Use("channel") /\ b[3] = Fill("group") /\ b[4] = Use("group")
  <2> DEFINE left == Compare("shutter", "channel")
             right == Compare("group", "group")
  <2>1. /\ left \in Seq(LoopSteps) /\ Len(left) = 2 /\ left[1] = Fill("shutter") /\ left[2] = Use("channel")
        /\ right \in Seq(LoopSteps) /\ Len(right) = 2 /\ right[1] = Fill("group") /\ right[2] = Use("group")
    BY <1>1
  <2>2. b = left \o right
    BY DEF ShutterThenGroup
  <2> HIDE DEF left, right, b
  <2>3. /\ b \in Seq(LoopSteps) /\ Len(b) = Len(left) + Len(right)
        /\ \A k \in 1 .. Len(left) + Len(right) : b[k] = IF k <= Len(left) THEN left[k] ELSE right[k - Len(left)]
    BY <2>1, <2>2, ConcatProperties
  <2>4. \A k \in 1 .. 4 : b[k] = IF k <= 2 THEN left[k] ELSE right[k - 2]
    BY <2>1, <2>3
  <2> QED BY <2>1, <2>3, <2>4
<1>3. /\ e \in Seq(LoopSteps) /\ Len(e) = 1 /\ e[1] = Use("found")
      /\ j \in Seq(LoopSteps) /\ Len(j) = 1 /\ j[1] = Use("unknown")
  BY DEF LoopSteps
<1>w. {"restart", "reconfigure", "group/up", "group/down", "group/stop", "group/shade"} \subseteq Words
  BY DEF Words
<1>4. /\ a \in Seq(LoopSteps) /\ Len(a) = 2 /\ a[1] = Fill("shutter") /\ a[2] = Use("subtopic")
      /\ c \in Seq(LoopSteps) /\ Len(c) = 2 /\ c[1] = Fill("restart") /\ c[2] = Use("word")
      /\ d \in Seq(LoopSteps) /\ Len(d) = 2 /\ d[1] = Fill("reconfigure") /\ d[2] = Use("word")
      /\ f \in Seq(LoopSteps) /\ Len(f) = 2 /\ f[1] = Fill("group/up") /\ f[2] = Use("word")
      /\ g \in Seq(LoopSteps) /\ Len(g) = 2 /\ g[1] = Fill("group/down") /\ g[2] = Use("word")
      /\ h \in Seq(LoopSteps) /\ Len(h) = 2 /\ h[1] = Fill("group/stop") /\ h[2] = Use("word")
      /\ i \in Seq(LoopSteps) /\ Len(i) = 2 /\ i[1] = Fill("group/shade") /\ i[2] = Use("word")
  BY <1>1, <1>w
<1>5. Handling = a \o b \o c \o d \o e \o f \o g \o h \o i \o j
  BY DEF Handling
<1> HIDE DEF a, b, c, d, e, f, g, h, i, j
<1> DEFINE b6 == a \o b
           c8 == b6 \o c
           d10 == c8 \o d
           e11 == d10 \o e
           f13 == e11 \o f
           g15 == f13 \o g
           h17 == g15 \o h
           i19 == h17 \o i
<1>6. /\ b6 \in Seq(LoopSteps) /\ Len(b6) = 6 /\ \A k \in 1 .. 2 : b6[k] = a[k]
      /\ b6[3] = b[1] /\ b6[4] = b[2] /\ b6[5] = b[3] /\ b6[6] = b[4]
  <2>1. a \in Seq(LoopSteps) /\ Len(a) = 2 /\ b \in Seq(LoopSteps) /\ Len(b) = 4
    BY <1>2, <1>4
  <2>2. b6 = a \o b
    OBVIOUS
  <2> HIDE DEF b6
  <2>3. /\ b6 \in Seq(LoopSteps) /\ Len(b6) = Len(a) + Len(b)
        /\ \A k \in 1 .. Len(a) + Len(b) : b6[k] = IF k <= Len(a) THEN a[k] ELSE b[k - Len(a)]
    BY <2>1, <2>2, ConcatProperties
  <2>4. \A k \in 1 .. 6 : b6[k] = IF k <= 2 THEN a[k] ELSE b[k - 2]
    BY <2>1, <2>3
  <2> QED BY <2>1, <2>3, <2>4
<1>7. /\ c8 \in Seq(LoopSteps) /\ Len(c8) = 8 /\ \A k \in 1 .. 6 : c8[k] = b6[k]
      /\ c8[7] = c[1] /\ c8[8] = c[2]
  <2>1. b6 \in Seq(LoopSteps) /\ Len(b6) = 6 /\ c \in Seq(LoopSteps) /\ Len(c) = 2
    BY <1>4, <1>6
  <2>2. c8 = b6 \o c
    OBVIOUS
  <2> HIDE DEF c8, b6
  <2>3. /\ c8 \in Seq(LoopSteps) /\ Len(c8) = Len(b6) + Len(c)
        /\ \A k \in 1 .. Len(b6) + Len(c) : c8[k] = IF k <= Len(b6) THEN b6[k] ELSE c[k - Len(b6)]
    BY <2>1, <2>2, ConcatProperties
  <2>4. \A k \in 1 .. 8 : c8[k] = IF k <= 6 THEN b6[k] ELSE c[k - 6]
    BY <2>1, <2>3
  <2> QED BY <2>1, <2>3, <2>4
<1>8. /\ d10 \in Seq(LoopSteps) /\ Len(d10) = 10 /\ \A k \in 1 .. 8 : d10[k] = c8[k]
      /\ d10[9] = d[1] /\ d10[10] = d[2]
  <2>1. c8 \in Seq(LoopSteps) /\ Len(c8) = 8 /\ d \in Seq(LoopSteps) /\ Len(d) = 2
    BY <1>4, <1>7
  <2>2. d10 = c8 \o d
    OBVIOUS
  <2> HIDE DEF d10, c8
  <2>3. /\ d10 \in Seq(LoopSteps) /\ Len(d10) = Len(c8) + Len(d)
        /\ \A k \in 1 .. Len(c8) + Len(d) : d10[k] = IF k <= Len(c8) THEN c8[k] ELSE d[k - Len(c8)]
    BY <2>1, <2>2, ConcatProperties
  <2>4. \A k \in 1 .. 10 : d10[k] = IF k <= 8 THEN c8[k] ELSE d[k - 8]
    BY <2>1, <2>3
  <2> QED BY <2>1, <2>3, <2>4
<1>9. /\ e11 \in Seq(LoopSteps) /\ Len(e11) = 11 /\ \A k \in 1 .. 10 : e11[k] = d10[k]
      /\ e11[11] = e[1]
  <2>1. d10 \in Seq(LoopSteps) /\ Len(d10) = 10 /\ e \in Seq(LoopSteps) /\ Len(e) = 1
    BY <1>3, <1>8
  <2>2. e11 = d10 \o e
    OBVIOUS
  <2> HIDE DEF e11, d10
  <2>3. /\ e11 \in Seq(LoopSteps) /\ Len(e11) = Len(d10) + Len(e)
        /\ \A k \in 1 .. Len(d10) + Len(e) : e11[k] = IF k <= Len(d10) THEN d10[k] ELSE e[k - Len(d10)]
    BY <2>1, <2>2, ConcatProperties
  <2>4. \A k \in 1 .. 11 : e11[k] = IF k <= 10 THEN d10[k] ELSE e[k - 10]
    BY <2>1, <2>3
  <2> QED BY <2>1, <2>3, <2>4
<1>10. /\ f13 \in Seq(LoopSteps) /\ Len(f13) = 13 /\ \A k \in 1 .. 11 : f13[k] = e11[k]
      /\ f13[12] = f[1] /\ f13[13] = f[2]
  <2>1. e11 \in Seq(LoopSteps) /\ Len(e11) = 11 /\ f \in Seq(LoopSteps) /\ Len(f) = 2
    BY <1>4, <1>9
  <2>2. f13 = e11 \o f
    OBVIOUS
  <2> HIDE DEF f13, e11
  <2>3. /\ f13 \in Seq(LoopSteps) /\ Len(f13) = Len(e11) + Len(f)
        /\ \A k \in 1 .. Len(e11) + Len(f) : f13[k] = IF k <= Len(e11) THEN e11[k] ELSE f[k - Len(e11)]
    BY <2>1, <2>2, ConcatProperties
  <2>4. \A k \in 1 .. 13 : f13[k] = IF k <= 11 THEN e11[k] ELSE f[k - 11]
    BY <2>1, <2>3
  <2> QED BY <2>1, <2>3, <2>4
<1>11. /\ g15 \in Seq(LoopSteps) /\ Len(g15) = 15 /\ \A k \in 1 .. 13 : g15[k] = f13[k]
      /\ g15[14] = g[1] /\ g15[15] = g[2]
  <2>1. f13 \in Seq(LoopSteps) /\ Len(f13) = 13 /\ g \in Seq(LoopSteps) /\ Len(g) = 2
    BY <1>4, <1>10
  <2>2. g15 = f13 \o g
    OBVIOUS
  <2> HIDE DEF g15, f13
  <2>3. /\ g15 \in Seq(LoopSteps) /\ Len(g15) = Len(f13) + Len(g)
        /\ \A k \in 1 .. Len(f13) + Len(g) : g15[k] = IF k <= Len(f13) THEN f13[k] ELSE g[k - Len(f13)]
    BY <2>1, <2>2, ConcatProperties
  <2>4. \A k \in 1 .. 15 : g15[k] = IF k <= 13 THEN f13[k] ELSE g[k - 13]
    BY <2>1, <2>3
  <2> QED BY <2>1, <2>3, <2>4
<1>12. /\ h17 \in Seq(LoopSteps) /\ Len(h17) = 17 /\ \A k \in 1 .. 15 : h17[k] = g15[k]
      /\ h17[16] = h[1] /\ h17[17] = h[2]
  <2>1. g15 \in Seq(LoopSteps) /\ Len(g15) = 15 /\ h \in Seq(LoopSteps) /\ Len(h) = 2
    BY <1>4, <1>11
  <2>2. h17 = g15 \o h
    OBVIOUS
  <2> HIDE DEF h17, g15
  <2>3. /\ h17 \in Seq(LoopSteps) /\ Len(h17) = Len(g15) + Len(h)
        /\ \A k \in 1 .. Len(g15) + Len(h) : h17[k] = IF k <= Len(g15) THEN g15[k] ELSE h[k - Len(g15)]
    BY <2>1, <2>2, ConcatProperties
  <2>4. \A k \in 1 .. 17 : h17[k] = IF k <= 15 THEN g15[k] ELSE h[k - 15]
    BY <2>1, <2>3
  <2> QED BY <2>1, <2>3, <2>4
<1>13. /\ i19 \in Seq(LoopSteps) /\ Len(i19) = 19 /\ \A k \in 1 .. 17 : i19[k] = h17[k]
      /\ i19[18] = i[1] /\ i19[19] = i[2]
  <2>1. h17 \in Seq(LoopSteps) /\ Len(h17) = 17 /\ i \in Seq(LoopSteps) /\ Len(i) = 2
    BY <1>4, <1>12
  <2>2. i19 = h17 \o i
    OBVIOUS
  <2> HIDE DEF i19, h17
  <2>3. /\ i19 \in Seq(LoopSteps) /\ Len(i19) = Len(h17) + Len(i)
        /\ \A k \in 1 .. Len(h17) + Len(i) : i19[k] = IF k <= Len(h17) THEN h17[k] ELSE i[k - Len(h17)]
    BY <2>1, <2>2, ConcatProperties
  <2>4. \A k \in 1 .. 19 : i19[k] = IF k <= 17 THEN h17[k] ELSE i[k - 17]
    BY <2>1, <2>3
  <2> QED BY <2>1, <2>3, <2>4
<1>14. /\ Handling \in Seq(LoopSteps) /\ Len(Handling) = 20 /\ \A k \in 1 .. 19 : Handling[k] = i19[k]
      /\ Handling[20] = j[1]
  <2>1. i19 \in Seq(LoopSteps) /\ Len(i19) = 19 /\ j \in Seq(LoopSteps) /\ Len(j) = 1
    BY <1>3, <1>13
  <2>2. Handling = i19 \o j
    BY <1>5
  <2> HIDE DEF i19
  <2>3. /\ Handling \in Seq(LoopSteps) /\ Len(Handling) = Len(i19) + Len(j)
        /\ \A k \in 1 .. Len(i19) + Len(j) : Handling[k] = IF k <= Len(i19) THEN i19[k] ELSE j[k - Len(i19)]
    BY <2>1, <2>2, ConcatProperties
  <2>4. \A k \in 1 .. 20 : Handling[k] = IF k <= 19 THEN i19[k] ELSE j[k - 19]
    BY <2>1, <2>3, SMTT(30)
  <2> QED BY <2>1, <2>3, <2>4
<1> HIDE DEF b6, c8, d10, e11, f13, g15, h17, i19
<1>15. /\ \A k \in 1 .. 6 : Handling[k] = b6[k]
       /\ Handling[7] = c[1] /\ Handling[8] = c[2] /\ Handling[9] = d[1] /\ Handling[10] = d[2]
       /\ Handling[11] = e[1] /\ Handling[12] = f[1] /\ Handling[13] = f[2]
       /\ Handling[14] = g[1] /\ Handling[15] = g[2] /\ Handling[16] = h[1] /\ Handling[17] = h[2]
       /\ Handling[18] = i[1] /\ Handling[19] = i[2] /\ Handling[20] = j[1]
  BY <1>7, <1>8, <1>9, <1>10, <1>11, <1>12, <1>13, <1>14
<1> QED
  BY <1>2, <1>3, <1>4, <1>6, <1>14, <1>15

\* What is left of the handling, from a step on.
Rest(n) == SubSeq(Handling, n, 20)

\* It begins with that step, and goes on with the next; only the last one has none.
LEMMA RestSteps ==
  ASSUME NEW n \in 1 .. 20
  PROVE  /\ Rest(n) # <<>> /\ Head(Rest(n)) = Handling[n]
         /\ Tail(Rest(n)) = Rest(n + 1)
         /\ n < 20 => Rest(n + 1) # <<>>
<1>1. Handling \in Seq(LoopSteps) /\ Len(Handling) = 20
  BY HandlingSteps
<1>2. Head(SubSeq(Handling, n, 20)) = Handling[n] /\ Tail(SubSeq(Handling, n, 20)) = SubSeq(Handling, n + 1, 20)
  BY <1>1, HeadTailOfSubSeq
<1>3. ASSUME NEW k \in 1 .. 20
      PROVE  SubSeq(Handling, k, 20) # <<>>
  <2> DEFINE rest == SubSeq(Handling, k, 20)
  <2>1. ASSUME NEW i \in k .. 20
        PROVE  Handling[i] \in LoopSteps
    <3>1. i \in 1 .. Len(Handling)
      BY <1>1
    <3> QED BY <1>1, <3>1, ElementOfSeq
  <2>2. rest \in Seq(LoopSteps) /\ Len(rest) = IF k <= 20 THEN 20 - k + 1 ELSE 0
    BY <2>1, SubSeqProperties
  <2> HIDE DEF rest
  <2>3. Len(rest) > 0
    BY <2>2
  <2>4. rest # <<>>
    BY <2>2, <2>3, EmptySeq
  <2> QED BY <2>4 DEF rest
<1> QED BY <1>2, <1>3 DEF Rest

\* The whole of it is all that is left of it from the first step on.
LEMMA RestBegins == Rest(1) = Handling
  BY HandlingSteps, SubSeqFull DEF Rest

\* A step that fills the buffer, and one that uses what is in it.
LEMMA StepKinds ==
  ASSUME NEW suffix, NEW purpose
  PROVE  /\ Fill(suffix)[1] = "fill" /\ Fill(suffix)[2] = suffix
         /\ Use(purpose)[1] = "use" /\ Use(purpose)[2] = purpose
         /\ Fill(suffix) # Use(purpose)
  BY DEF Fill, Use

\* The answer.
LEMMA ReplySteps ==
  /\ Reply # <<>> /\ Head(Reply) = Fill("message") /\ Tail(Reply) = <<Use("publish")>>
  /\ Tail(Reply) # <<>> /\ Head(Tail(Reply)) = Use("publish") /\ Tail(Tail(Reply)) = <<>>
<1> DEFINE f == Fill("message")
           u == Use("publish")
<1>1. Reply = <<f, u>>
  BY DEF Reply, Compare
<1> HIDE DEF f, u
<1>2. /\ Reply # <<>> /\ Head(Reply) = f /\ Tail(Reply) = <<u>>
      /\ <<u>> # <<>> /\ Head(<<u>>) = u /\ Tail(<<u>>) = <<>>
  BY <1>1
<1> QED BY <1>2 DEF f, u

\* onMqttConnect, step by step.
LEMMA ConnectingSteps == Connecting \in Seq(TcpSteps)
<1>1. ASSUME NEW suffix \in OtherTopics, NEW purpose \in {"publish", "subscribe"}
      PROVE  Compare(suffix, purpose) \in Seq(TcpSteps)
  <2>1. Fill(suffix) \in TcpSteps /\ Use(purpose) \in TcpSteps
    BY DEF TcpSteps
  <2> QED BY <2>1 DEF Compare
<1>2. <<Use("status")>> \in Seq(TcpSteps)
  BY DEF TcpSteps
<1> DEFINE a == Compare("wifi", "publish")
           b == Compare("cmd/#", "subscribe")
           c == Compare("setvalue/#", "subscribe")
           d == <<Use("status")>>
<1>3. a \in Seq(TcpSteps) /\ b \in Seq(TcpSteps) /\ c \in Seq(TcpSteps) /\ d \in Seq(TcpSteps)
  BY <1>1, <1>2 DEF OtherTopics
<1>4. Connecting = a \o b \o c \o d
  BY DEF Connecting
<1> HIDE DEF a, b, c, d
<1>5. a \o b \in Seq(TcpSteps)
  BY <1>3, ConcatProperties
<1>6. a \o b \o c \in Seq(TcpSteps)
  BY <1>3, <1>5, ConcatProperties
<1>7. a \o b \o c \o d \in Seq(TcpSteps)
  BY <1>3, <1>6, ConcatProperties
<1> QED BY <1>4, <1>7

\* What the other task does next.
LEMMA TcpStepKinds ==
  ASSUME NEW step \in TcpSteps, step[1] = "fill"
  PROVE  step[2] \in OtherTopics
  BY StepKinds DEF TcpSteps

\* What the handler looks for, in a topic that is one word, step by step.
Word(n) ==
  CASE n = 8 -> "restart" [] n = 10 -> "reconfigure" [] n = 13 -> "group/up" [] n = 15 -> "group/down"
    [] n = 17 -> "group/stop" [] n = 19 -> "group/shade"
WordSteps == {8, 10, 13, 15, 17, 19}

\* What of the message is found in an own buffer.
RightOf(family, max) ==
  IF message.topic.family = family /\ message.topic.sub = ""
  THEN IF message.topic.index \in 1 .. max THEN message.topic.index ELSE BadIndex
  ELSE NoMatch
RightChannel == RightOf("shutter", Channels)
RightGroup == RightOf("group", Groups)

\* What the buffer holds after a step that filled it.
Filled(n) ==
  n > 1 /\ Handling[n - 1][1] = "fill" =>
    /\ newTopic \in {Handling[n - 1][2]} \cup OtherTopics
    /\ ownBuffer["loop"] => newTopic = Handling[n - 1][2]

\* What did not fit the message, before a step.
PassedBy(n) ==
  /\ n > 2 => ~(message.topic.family = "shutter" /\ message.topic.sub \in Subtopics)
  /\ n > 4 => channel = RightChannel
  /\ n > 6 => group = RightGroup
  /\ \A k \in WordSteps : n > k => message.topic.family # Word(k)
  /\ n > 11 => message.topic.family # "homeassistant/status" /\ channel = NoMatch /\ group = NoMatch

UnderwayAt(n) ==
  /\ todo["loop"] = Rest(n) /\ Filled(n)
  /\ channel \in {NoMatch, RightChannel} /\ group \in {NoMatch, RightGroup}
  /\ ownBuffer["loop"] => PassedBy(n)
Underway == \E n \in 1 .. 20 : UnderwayAt(n)

\* What became of the message is known, and is being answered.
Answering ==
  /\ todo["loop"] \in {Reply, Tail(Reply)}
  /\ outcome \in {Refused, Unknown} /\ outcome \in {Meant(message), Unknown}
  /\ ownBuffer["loop"] =>
       outcome = Meant(message) /\ (todo["loop"] = Tail(Reply) => newTopic = "message")

Tasks == {"loop", "tcp"}

\* The inductive invariant.
RoutingInv ==
  /\ DOMAIN todo = Tasks /\ todo["tcp"] \in Seq(TcpSteps)
  /\ ownBuffer \in [Tasks -> BOOLEAN]
  /\ message \in Message \cup {NoMessage}
  /\ message # NoMessage /\ Busy("loop") => Underway \/ Answering

\* What a step of loop() on a message must establish.
Routed ==
  (message # NoMessage /\ Busy("loop") /\ todo'["loop"] = <<>>)
    => /\ outcome' \in {Meant(message), Unknown}
       /\ ownBuffer["loop"] =>
            outcome' = Meant(message) /\ (outcome' \in {Refused, Unknown} => published' = "message")

\* At which step of the handler each thing is done.
LEMMA WhichStep ==
  ASSUME NEW n \in 1 .. 20
  PROVE  /\ Handling[n][1] = "fill" => n \in {1, 3, 5, 7, 9, 12, 14, 16, 18}
         /\ Handling[n] = Use("subtopic") => n = 2
         /\ Handling[n] = Use("channel") => n = 4
         /\ Handling[n] = Use("group") => n = 6
         /\ Handling[n] = Use("word") => n \in WordSteps
         /\ Handling[n] = Use("found") => n = 11
         /\ Handling[n] = Use("unknown") => n = 20
         /\ Handling[n] # Use("publish")
  BY HandlingSteps DEF Fill, Use, WordSteps

\* What the buffer was filled with before it is used.
LEMMA FilledWith ==
  /\ Filled(2) => newTopic \in {"shutter"} \cup OtherTopics /\ (ownBuffer["loop"] => newTopic = "shutter")
  /\ Filled(4) => newTopic \in {"shutter"} \cup OtherTopics /\ (ownBuffer["loop"] => newTopic = "shutter")
  /\ Filled(6) => newTopic \in {"group"} \cup OtherTopics /\ (ownBuffer["loop"] => newTopic = "group")
  /\ \A n \in WordSteps :
       Filled(n) => newTopic \in {Word(n)} \cup OtherTopics /\ (ownBuffer["loop"] => newTopic = Word(n))
<1>1. /\ Handling[1] = Fill("shutter") /\ Handling[3] = Fill("shutter") /\ Handling[5] = Fill("group")
      /\ Handling[7] = Fill("restart") /\ Handling[9] = Fill("reconfigure") /\ Handling[12] = Fill("group/up")
      /\ Handling[14] = Fill("group/down") /\ Handling[16] = Fill("group/stop") /\ Handling[18] = Fill("group/shade")
  BY HandlingSteps
<1>2. ASSUME NEW n \in {2, 4, 6} \cup WordSteps, NEW suffix, Handling[n - 1] = Fill(suffix), Filled(n)
      PROVE  newTopic \in {suffix} \cup OtherTopics /\ (ownBuffer["loop"] => newTopic = suffix)
  <2>1. n > 1
    BY DEF WordSteps
  <2>2. Handling[n - 1][1] = "fill" /\ Handling[n - 1][2] = suffix
    BY <1>2, StepKinds
  <2> QED BY <1>2, <2>1, <2>2 DEF Filled
<1>3. /\ Handling[2 - 1] = Fill("shutter") /\ Handling[4 - 1] = Fill("shutter")
      /\ Handling[6 - 1] = Fill("group")
      /\ \A n \in WordSteps : Handling[n - 1] = Fill(Word(n))
  BY <1>1 DEF WordSteps, Word
<1>4. Filled(2) => newTopic \in {"shutter"} \cup OtherTopics /\ (ownBuffer["loop"] => newTopic = "shutter")
  BY <1>2, <1>3, Zenon
<1>5. Filled(4) => newTopic \in {"shutter"} \cup OtherTopics /\ (ownBuffer["loop"] => newTopic = "shutter")
  BY <1>2, <1>3, Zenon
<1>6. Filled(6) => newTopic \in {"group"} \cup OtherTopics /\ (ownBuffer["loop"] => newTopic = "group")
  BY <1>2, <1>3, Zenon
<1>7. ASSUME NEW n \in WordSteps, Filled(n)
      PROVE  newTopic \in {Word(n)} \cup OtherTopics /\ (ownBuffer["loop"] => newTopic = Word(n))
  BY <1>2, <1>3, <1>7, Zenon
<1> QED
  BY <1>4, <1>5, <1>6, <1>7

\* A message has a topic for commands.
LEMMA MessageTopic ==
  ASSUME message \in Message
  PROVE  /\ message.topic.family \notin OtherTopics /\ message.topic.index \in 0 .. Channels + 1
         /\ message.known \in BOOLEAN
         /\ message.topic.family \in {"shutter", "group", "homeassistant/status", "other"} \cup Words
         /\ message.topic.family \notin {"shutter", "group"} => message.topic.sub = ""
         /\ message.topic.sub \in Subtopics \cup {"", "other"}
<1>1. message.topic \in Topic /\ message.known \in BOOLEAN
  BY DEF Message
<1> DEFINE topic == message.topic
<1>2. topic \in Topic
  BY <1>1
<1> HIDE DEF topic
<1>3. CASE topic \in [family : {"shutter", "group"}, index : 0 .. Channels + 1, sub : Subtopics \cup {"", "other"}]
  <2>1. topic.family \in {"shutter", "group"} /\ topic.index \in 0 .. Channels + 1 /\ topic.sub \in Subtopics \cup {"", "other"}
    BY <1>3
  <2>2. topic.family \notin OtherTopics
    BY <2>1 DEF OtherTopics
  <2> QED BY <1>1, <2>1, <2>2 DEF topic
<1>4. CASE topic \in [family : Words \cup {"homeassistant/status", "other"}, index : {0}, sub : {""}]
  <2>1. topic.family \in Words \cup {"homeassistant/status", "other"} /\ topic.index = 0 /\ topic.sub = ""
    BY <1>4
  <2>2. topic.family \notin OtherTopics
    BY <2>1 DEF OtherTopics, Words
  <2>3. 0 \in 0 .. Channels + 1
    BY TopicsAssumption
  <2>4. topic.index \in 0 .. Channels + 1
    BY <2>1, <2>3, Zenon
  <2> QED BY <1>1, <2>1, <2>2, <2>4 DEF topic
<1> QED BY <1>2, <1>3, <1>4 DEF Topic

\* What each message should come to, in the words of the handler.
LEMMA MeantCases ==
  ASSUME message \in Message
  PROVE  LET topic == message.topic
             To(family, max) == Addressed(family, IF topic.index \in 1 .. max THEN topic.index ELSE BadIndex)
         IN  /\ topic.family = "shutter" /\ topic.sub \in Subtopics => Meant(message) = To(topic.sub, Channels)
             /\ topic.family = "shutter" /\ topic.sub = "" => Meant(message) = To("shutter", Channels)
             /\ topic.family = "group" /\ topic.sub = "" => Meant(message) = To("group", Groups)
             /\ topic.family \in Words => Meant(message) = Outcome(topic.family, 0)
             /\ topic.family = "homeassistant/status" =>
                  Meant(message) = Outcome(IF message.known THEN "discovery" ELSE "ignored", 0)
             /\ ~ \/ topic.family = "shutter" /\ topic.sub \in Subtopics \cup {""}
                  \/ topic.family = "group" /\ topic.sub = ""
                  \/ topic.family \in Words \cup {"homeassistant/status"}
                => Meant(message) = Unknown
<1> DEFINE topic == message.topic
<1>a. \A index \in 0 .. Channels + 1 : index \in Int /\ index # BadIndex
  BY TopicsAssumption DEF BadIndex
<1>0. topic.index \in 0 .. Channels + 1
  BY MessageTopic, Zenon
<1>1. topic.index \in Int /\ message.known \in BOOLEAN /\ topic.sub \in Subtopics \cup {"", "other"}
  BY <1>a, <1>0, MessageTopic, Zenon
<1>2. "shutter" \notin Words /\ "group" \notin Words /\ "homeassistant/status" \notin Words
  BY DEF Words
<1>3. "" \notin Subtopics /\ "other" \notin Subtopics
  BY DEF Subtopics
<1>4. ASSUME NEW max \in Nat, topic.index \in 1 .. max
      PROVE  topic.index # BadIndex
  BY <1>a, <1>0
<1>5. Channels \in Nat /\ Groups \in Nat
  BY TopicsAssumption
<1> HIDE DEF topic
<1> QED
  BY <1>1, <1>2, <1>3, <1>4, <1>5 DEF Meant, Addressed, topic

\* What a step of either task must establish of a message.
StaysRouted ==
  /\ message' # NoMessage /\ todo'["loop"] # <<>> => Underway' \/ Answering'
  /\ Routed

\* A step of the other task that leaves the buffer alone.
LEMMA OthersBusiness ==
  ASSUME RoutingInv, todo'["loop"] = todo["loop"], ownBuffer'["loop"] = ownBuffer["loop"],
         UNCHANGED <<newTopic, message, found, outcome>>
  PROVE  StaysRouted
<1>1. /\ newTopic' = newTopic /\ message' = message /\ channel' = channel /\ group' = group
      /\ outcome' = outcome
  BY DEF found
<1>2. ASSUME NEW n \in 1 .. 20, UnderwayAt(n)
      PROVE  UnderwayAt(n)'
  BY <1>1, <1>2 DEF UnderwayAt, Filled, PassedBy, RightChannel, RightGroup, RightOf
<1>3. Meant(message)' = Meant(message)
  BY <1>1 DEF Meant
<1>4. Answering => Answering'
  BY <1>1, <1>3 DEF Answering
<1>5. Routed
  BY DEF Routed, Busy
<1> QED
  BY <1>1, <1>2, <1>4, <1>5 DEF StaysRouted, RoutingInv, Busy, Underway

\* A step of the other task that fills the buffer.
LEMMA FilledByOther ==
  ASSUME RoutingInv, todo'["loop"] = todo["loop"], ownBuffer'["loop"] = (ownBuffer["loop"] /\ ~Busy("loop")),
         newTopic' \in OtherTopics, UNCHANGED <<message, found, outcome>>
  PROVE  StaysRouted
<1>1. /\ message' = message /\ channel' = channel /\ group' = group /\ outcome' = outcome
  BY DEF found
<1>2. Busy("loop") => ownBuffer'["loop"] = FALSE
  OBVIOUS
<1>3. ASSUME NEW n \in 1 .. 20, UnderwayAt(n), Busy("loop")
      PROVE  UnderwayAt(n)'
  BY <1>1, <1>2, <1>3 DEF UnderwayAt, Filled, RightChannel, RightGroup, RightOf
<1>4. Meant(message)' = Meant(message)
  BY <1>1 DEF Meant
<1>5. Busy("loop") /\ Answering => Answering'
  BY <1>1, <1>2, <1>4 DEF Answering
<1>6. Routed
  BY DEF Routed, Busy
<1> QED
  BY <1>1, <1>3, <1>5, <1>6 DEF StaysRouted, RoutingInv, Busy, Underway

\* loop() fills the buffer.
LEMMA FilledByLoop ==
  ASSUME RoutingInv, AddTopic("loop")
  PROVE  StaysRouted
<1>1. /\ message' = message /\ channel' = channel /\ group' = group /\ outcome' = outcome
      /\ newTopic' = Head(todo["loop"])[2] /\ Head(todo["loop"])[1] = "fill" /\ todo["loop"] # <<>>
      /\ todo'["loop"] = Tail(todo["loop"]) /\ ownBuffer'["loop"] = ownBuffer["loop"]
  BY DEF AddTopic, found, Busy, GoesOn, Goes, RoutingInv, Tasks
<1>2. ASSUME NEW n \in 1 .. 20, UnderwayAt(n)
      PROVE  Underway' /\ todo'["loop"] # <<>>
  <2>1. /\ todo["loop"] = Rest(n) /\ Handling[n] = Head(todo["loop"]) /\ todo'["loop"] = Rest(n + 1)
        /\ n < 20 => Rest(n + 1) # <<>>
    BY <1>1, <1>2, RestSteps DEF UnderwayAt
  <2>2. n \in {1, 3, 5, 7, 9, 12, 14, 16, 18}
    BY <1>1, <2>1, WhichStep
  <2>3. n + 1 \in 1 .. 20 /\ n < 20 /\ (n + 1) - 1 = n
    BY <2>2
  <2>4. Filled(n + 1)'
    BY <1>1, <2>1, <2>3 DEF Filled
  <2>5. PassedBy(n) => PassedBy(n + 1)'
    <3>1. /\ n + 1 > 2 => n > 2
          /\ n + 1 > 4 => n > 4
          /\ n + 1 > 6 => n > 6
          /\ n + 1 > 11 => n > 11
          /\ \A k \in WordSteps : n + 1 > k => n > k
      BY <2>2 DEF WordSteps
    <3> QED BY <1>1, <3>1 DEF PassedBy, RightChannel, RightGroup, RightOf
  <2>6. channel' \in {NoMatch, RightChannel'} /\ group' \in {NoMatch, RightGroup'}
    BY <1>1, <1>2 DEF UnderwayAt, RightChannel, RightGroup, RightOf
  <2>7. UnderwayAt(n + 1)'
    BY <1>1, <1>2, <2>1, <2>4, <2>5, <2>6 DEF UnderwayAt
  <2> QED
    BY <2>1, <2>3, <2>7 DEF Underway
<1>3. ASSUME Answering
      PROVE  Answering' /\ todo'["loop"] # <<>>
  <2>1. todo["loop"] = Reply
    BY <1>1, <1>3, ReplySteps, StepKinds DEF Answering
  <2>2. todo'["loop"] = Tail(Reply) /\ newTopic' = "message" /\ Tail(Reply) # <<>>
    BY <1>1, <2>1, ReplySteps, StepKinds
  <2>3. Meant(message)' = Meant(message)
    BY <1>1 DEF Meant
  <2> QED BY <1>1, <1>3, <2>2, <2>3 DEF Answering
<1> QED
  BY <1>1, <1>2, <1>3 DEF StaysRouted, RoutingInv, Busy, Underway, Routed

\* The step of the handler that loop() is at, when it uses the buffer for anything but an answer.
LEMMA AtStep ==
  ASSUME RoutingInv, message # NoMessage,
         NEW purpose \in {"subtopic", "channel", "group", "word", "found", "unknown"},
         Doing("loop", Use(purpose))
  PROVE  message \in Message /\ \E n \in 1 .. 20 : UnderwayAt(n) /\ Handling[n] = Use(purpose)
<1>1. todo["loop"] # <<>> /\ Head(todo["loop"]) = Use(purpose)
  BY DEF Doing
<1>2. ~Answering
  BY <1>1, ReplySteps DEF Answering, Fill, Use
<1>3. message \in Message /\ Underway
  BY <1>1, <1>2 DEF RoutingInv, Busy
<1>4. PICK n \in 1 .. 20 : UnderwayAt(n)
  BY <1>3 DEF Underway
<1>5. Handling[n] = Head(todo["loop"])
  BY <1>4, RestSteps DEF UnderwayAt
<1> QED BY <1>1, <1>3, <1>4, <1>5

\* A message that is dealt with as it should be.
LEMMA DealtWithRight ==
  ASSUME RoutingInv, NEW result, DealtWith(result), result \in {Meant(message), Unknown},
         ownBuffer["loop"] => result = Meant(message), UNCHANGED <<message, ownBuffer>>
  PROVE  StaysRouted
<1>1. outcome' = result /\ todo'["loop"] = IF result \in {Refused, Unknown} THEN Reply ELSE <<>>
  BY DEF DealtWith, Goes, RoutingInv, Tasks
<1>2. Meant(message)' = Meant(message)
  BY DEF Meant
<1>3. Reply # <<>> /\ Reply # Tail(Reply)
  BY ReplySteps, StepKinds
<1>4. CASE result \in {Refused, Unknown}
  <2>1. Answering'
    BY <1>1, <1>2, <1>3, <1>4 DEF Answering
  <2> QED BY <1>1, <1>3, <1>4, <2>1 DEF StaysRouted, Routed
<1>5. CASE result \notin {Refused, Unknown}
  BY <1>1, <1>5 DEF StaysRouted, Routed
<1> QED BY <1>4, <1>5

\* A step of the handler after which it goes on to the next.
LEMMA GoesFurther ==
  ASSUME RoutingInv, NEW n \in 1 .. 19, UnderwayAt(n), GoesOn("loop"), Handling[n][1] = "use",
         UNCHANGED <<message, ownBuffer>>,
         channel' \in {NoMatch, RightChannel}, group' \in {NoMatch, RightGroup},
         ownBuffer["loop"] => PassedBy(n + 1)'
  PROVE  StaysRouted
<1>1. n \in 1 .. 20 /\ n + 1 \in 1 .. 20 /\ n < 20 /\ (n + 1) - 1 = n
  OBVIOUS
<1>2. todo'["loop"] = Rest(n + 1) /\ Rest(n + 1) # <<>>
  BY <1>1, RestSteps DEF UnderwayAt, GoesOn, Goes, RoutingInv, Tasks
<1>3. Filled(n + 1)'
  BY <1>1 DEF Filled
<1>4. UnderwayAt(n + 1)'
  BY <1>2, <1>3 DEF UnderwayAt, RightChannel, RightGroup, RightOf
<1> QED
  BY <1>1, <1>2, <1>4 DEF StaysRouted, Underway, Routed

\* <base>/cmd/shutter/<n>/set_position and .../calibrate.
LEMMA SubtopicRouted ==
  ASSUME RoutingInv, message # NoMessage, UseSubtopic
  PROVE  StaysRouted
<1>1. PICK n \in 1 .. 20 : UnderwayAt(n) /\ Handling[n] = Use("subtopic")
  BY AtStep DEF UseSubtopic
<1>2. message \in Message
  BY AtStep DEF UseSubtopic
<1>3. n = 2 /\ Handling[n][1] = "use"
  BY <1>1, WhichStep, StepKinds
<1>4. newTopic \in {"shutter"} \cup OtherTopics /\ (ownBuffer["loop"] => newTopic = "shutter")
  BY <1>1, <1>3, FilledWith DEF UnderwayAt
<1>5. UNCHANGED <<message, ownBuffer>> /\ channel' = channel /\ group' = group
  BY DEF UseSubtopic, found
<1>6. CASE message.topic.family = newTopic /\ message.topic.sub \in Subtopics
  <2>1. message.topic.family = "shutter"
    BY <1>2, <1>4, <1>6, MessageTopic
  <2>2. DealtWith(Meant(message))
    BY <1>2, <1>6, <2>1, MeantCases DEF UseSubtopic
  <2> QED BY <1>5, <2>2, DealtWithRight
<1>7. CASE ~(message.topic.family = newTopic /\ message.topic.sub \in Subtopics)
  <2>1. GoesOn("loop")
    BY <1>7 DEF UseSubtopic, OnToTheNext
  <2>2. ownBuffer["loop"] => PassedBy(3)'
    BY <1>4, <1>5, <1>7 DEF PassedBy, WordSteps
  <2>3. n \in 1 .. 19 /\ n + 1 = 3
    BY <1>3
  <2> QED
    BY <1>1, <1>3, <1>5, <2>1, <2>2, <2>3, GoesFurther DEF UnderwayAt
<1> QED BY <1>6, <1>7

\* What checkJaroCmd finds in what the buffer may hold.
LEMMA CheckedTopic ==
  ASSUME message \in Message, NEW family \in {"shutter", "group"}, NEW max,
         newTopic \in {family} \cup OtherTopics
  PROVE  /\ CheckJaroCmd(message.topic, max) \in {NoMatch, RightOf(family, max)}
         /\ newTopic = family => CheckJaroCmd(message.topic, max) = RightOf(family, max)
  BY MessageTopic DEF CheckJaroCmd, RightOf

\* No number of a shutter or a group is taken for none.
LEMMA SomeNumbers == BadIndex # NoMatch /\ \A index \in 0 .. Channels + 1 : index # NoMatch
  BY TopicsAssumption DEF BadIndex, NoMatch

\* A topic that fits is not taken for one that does not.
LEMMA RightIsSome ==
  ASSUME message \in Message, NEW family, NEW max, message.topic.family = family, message.topic.sub = ""
  PROVE  RightOf(family, max) # NoMatch
<1>1. message.topic.index \in 0 .. Channels + 1
  BY MessageTopic, Zenon
<1> QED BY <1>1, SomeNumbers DEF RightOf

\* checkJaroCmd for a shutter.
LEMMA ChannelRouted ==
  ASSUME RoutingInv, message # NoMessage, UseChannel
  PROVE  StaysRouted
<1>1. PICK n \in 1 .. 20 : UnderwayAt(n) /\ Handling[n] = Use("channel")
  BY AtStep DEF UseChannel
<1>2. message \in Message
  BY AtStep DEF UseChannel
<1>3. n = 4 /\ Handling[n][1] = "use"
  BY <1>1, WhichStep, StepKinds
<1>4. newTopic \in {"shutter"} \cup OtherTopics /\ (ownBuffer["loop"] => newTopic = "shutter")
  BY <1>1, <1>3, FilledWith DEF UnderwayAt
<1>5. UNCHANGED <<message, ownBuffer, group>> /\ GoesOn("loop") /\ channel' = CheckJaroCmd(message.topic, Channels)
  BY DEF UseChannel
<1>6. channel' \in {NoMatch, RightChannel} /\ (ownBuffer["loop"] => channel' = RightChannel)
  BY <1>2, <1>4, <1>5, CheckedTopic DEF RightChannel
<1>7. ownBuffer["loop"] => PassedBy(5)'
  <2>1. ownBuffer["loop"] => PassedBy(4)
    BY <1>1, <1>3 DEF UnderwayAt
  <2>2. RightChannel' = RightChannel
    BY <1>5 DEF RightChannel, RightOf
  <2>3. \A k \in WordSteps : ~(5 > k)
    BY DEF WordSteps
  <2> QED BY <1>5, <1>6, <2>1, <2>2, <2>3 DEF PassedBy
<1>8. n \in 1 .. 19 /\ n + 1 = 5
  BY <1>3
<1> QED
  BY <1>1, <1>3, <1>5, <1>6, <1>7, <1>8, GoesFurther DEF UnderwayAt

\* checkJaroCmd for a group.
LEMMA GroupRouted ==
  ASSUME RoutingInv, message # NoMessage, UseGroup
  PROVE  StaysRouted
<1>1. PICK n \in 1 .. 20 : UnderwayAt(n) /\ Handling[n] = Use("group")
  BY AtStep DEF UseGroup
<1>2. message \in Message
  BY AtStep DEF UseGroup
<1>3. n = 6 /\ Handling[n][1] = "use"
  BY <1>1, WhichStep, StepKinds
<1>4. newTopic \in {"group"} \cup OtherTopics /\ (ownBuffer["loop"] => newTopic = "group")
  BY <1>1, <1>3, FilledWith DEF UnderwayAt
<1>5. UNCHANGED <<message, ownBuffer, channel>> /\ GoesOn("loop") /\ group' = CheckJaroCmd(message.topic, Groups)
  BY DEF UseGroup
<1>6. group' \in {NoMatch, RightGroup} /\ (ownBuffer["loop"] => group' = RightGroup)
  BY <1>2, <1>4, <1>5, CheckedTopic DEF RightGroup
<1>7. ownBuffer["loop"] => PassedBy(7)'
  <2>1. ownBuffer["loop"] => PassedBy(6)
    BY <1>1, <1>3 DEF UnderwayAt
  <2>2. RightChannel' = RightChannel /\ RightGroup' = RightGroup
    BY <1>5 DEF RightChannel, RightGroup, RightOf
  <2>3. \A k \in WordSteps : ~(7 > k)
    BY DEF WordSteps
  <2> QED BY <1>5, <1>6, <2>1, <2>2, <2>3 DEF PassedBy
<1>8. n \in 1 .. 19 /\ n + 1 = 7
  BY <1>3
<1> QED
  BY <1>1, <1>3, <1>5, <1>6, <1>7, <1>8, GoesFurther DEF UnderwayAt

\* A topic that is one word.
LEMMA WordRouted ==
  ASSUME RoutingInv, message # NoMessage, UseWord
  PROVE  StaysRouted
<1>1. PICK n \in 1 .. 20 : UnderwayAt(n) /\ Handling[n] = Use("word")
  BY AtStep DEF UseWord
<1>2. message \in Message
  BY AtStep DEF UseWord
<1>3. n \in WordSteps /\ Handling[n][1] = "use"
  BY <1>1, WhichStep, StepKinds
<1>4. newTopic \in {Word(n)} \cup OtherTopics /\ (ownBuffer["loop"] => newTopic = Word(n))
  BY <1>1, <1>3, FilledWith DEF UnderwayAt
<1>5. UNCHANGED <<message, ownBuffer>> /\ channel' = channel /\ group' = group
  BY DEF UseWord, found
<1>6. CASE message.topic.family = newTopic
  <2>1. newTopic = Word(n)
    BY <1>2, <1>4, <1>6, MessageTopic
  <2>2. Word(n) \in Words
    BY <1>3 DEF Word, WordSteps, Words
  <2>3. DealtWith(Meant(message))
    BY <1>2, <1>6, <2>1, <2>2, MeantCases DEF UseWord
  <2> QED BY <1>5, <2>3, DealtWithRight
<1>7. CASE message.topic.family # newTopic
  <2>1. GoesOn("loop")
    BY <1>7 DEF UseWord, OnToTheNext
  <2>2. n \in 1 .. 19 /\ (\A k \in WordSteps : n + 1 > k => n > k \/ n = k)
        /\ (n + 1 > 2 => n > 2) /\ (n + 1 > 4 => n > 4) /\ (n + 1 > 6 => n > 6) /\ (n + 1 > 11 => n > 11)
    BY <1>3 DEF WordSteps
  <2>3. ownBuffer["loop"] => PassedBy(n + 1)'
    BY <1>1, <1>4, <1>5, <1>7, <2>2 DEF UnderwayAt, PassedBy, RightChannel, RightGroup, RightOf
  <2> QED
    BY <1>1, <1>3, <1>5, <2>1, <2>2, <2>3, GoesFurther DEF UnderwayAt
<1> QED BY <1>6, <1>7

\* What was found of shutters and groups.
LEMMA FoundRouted ==
  ASSUME RoutingInv, message # NoMessage, UseFound
  PROVE  StaysRouted
<1>1. PICK n \in 1 .. 20 : UnderwayAt(n) /\ Handling[n] = Use("found")
  BY AtStep DEF UseFound
<1>2. message \in Message
  BY AtStep DEF UseFound
<1>3. n = 11 /\ Handling[n][1] = "use"
  BY <1>1, WhichStep, StepKinds
<1>4. UNCHANGED <<message, ownBuffer>> /\ channel' = channel /\ group' = group
  BY DEF UseFound, found
<1>5. channel \in {NoMatch, RightChannel} /\ group \in {NoMatch, RightGroup}
  BY <1>1 DEF UnderwayAt
<1>6. CASE message.topic.family = "homeassistant/status"
  <2>1. DealtWith(Meant(message))
    BY <1>2, <1>6, MeantCases DEF UseFound
  <2> QED BY <1>4, <2>1, DealtWithRight
<1>7. CASE message.topic.family # "homeassistant/status" /\ channel # NoMatch
  <2>1. DealtWith(Addressed("shutter", channel))
    BY <1>7 DEF UseFound
  <2>2. Meant(message) = Addressed("shutter", channel)
    BY <1>2, <1>5, <1>7, MeantCases DEF RightChannel, RightOf
  <2> QED BY <1>4, <2>1, <2>2, DealtWithRight
<1>8. CASE message.topic.family # "homeassistant/status" /\ channel = NoMatch /\ group # NoMatch
  <2>1. DealtWith(Addressed("group", group))
    BY <1>8 DEF UseFound
  <2>2. Meant(message) = Addressed("group", group)
    BY <1>2, <1>5, <1>8, MeantCases DEF RightGroup, RightOf
  <2> QED BY <1>4, <2>1, <2>2, DealtWithRight
<1>9. CASE message.topic.family # "homeassistant/status" /\ channel = NoMatch /\ group = NoMatch
  <2>1. GoesOn("loop")
    BY <1>9 DEF UseFound, OnToTheNext
  <2>2. n \in 1 .. 19 /\ n + 1 = 12
    BY <1>3
  <2>3. ownBuffer["loop"] => PassedBy(12)'
    <3>1. ownBuffer["loop"] => PassedBy(11)
      BY <1>1, <1>3 DEF UnderwayAt
    <3>2. RightChannel' = RightChannel /\ RightGroup' = RightGroup
      BY <1>4 DEF RightChannel, RightGroup, RightOf
    <3>3. \A k \in WordSteps : 12 > k => 11 > k
      BY DEF WordSteps
    <3> QED BY <1>4, <1>9, <3>1, <3>2, <3>3 DEF PassedBy
  <2> QED
    BY <1>1, <1>3, <1>4, <1>5, <2>1, <2>2, <2>3, GoesFurther
<1> QED BY <1>6, <1>7, <1>8, <1>9

\* A topic that nothing was found of.
LEMMA UnknownRouted ==
  ASSUME RoutingInv, message # NoMessage, UseUnknown
  PROVE  StaysRouted
<1>1. PICK n \in 1 .. 20 : UnderwayAt(n) /\ Handling[n] = Use("unknown")
  BY AtStep DEF UseUnknown
<1>2. message \in Message
  BY AtStep DEF UseUnknown
<1>3. n = 20
  BY <1>1, WhichStep
<1>4. UNCHANGED <<message, ownBuffer>> /\ DealtWith(Unknown)
  BY DEF UseUnknown
<1>5. ASSUME ownBuffer["loop"]
      PROVE  Meant(message) = Unknown
  <2>1. PassedBy(20)
    BY <1>1, <1>3, <1>5 DEF UnderwayAt
  <2>2. /\ ~(message.topic.family = "shutter" /\ message.topic.sub \in Subtopics)
        /\ RightChannel = NoMatch /\ RightGroup = NoMatch
        /\ message.topic.family # "homeassistant/status"
    BY <2>1 DEF PassedBy
  <2>3. message.topic.family \notin Words
    BY <2>1 DEF PassedBy, WordSteps, Word, Words
  <2>4. ~(message.topic.family = "shutter" /\ message.topic.sub = "")
    BY <1>2, <2>2, RightIsSome DEF RightChannel
  <2>5. ~(message.topic.family = "group" /\ message.topic.sub = "")
    BY <1>2, <2>2, RightIsSome DEF RightGroup
  <2> QED BY <1>2, <2>2, <2>3, <2>4, <2>5, MeantCases
<1> QED BY <1>4, <1>5, DealtWithRight

\* The answer is published.
LEMMA ReplyRouted ==
  ASSUME RoutingInv, message # NoMessage, UsePublish
  PROVE  StaysRouted
<1>1. todo["loop"] # <<>> /\ Head(todo["loop"]) = Use("publish") /\ todo'["loop"] = Tail(todo["loop"])
      /\ outcome' = outcome /\ published' = newTopic
  BY DEF UsePublish, Doing, GoesOn, Goes, RoutingInv, Tasks
<1>2. ~Underway
  <2> SUFFICES ASSUME NEW n \in 1 .. 20, UnderwayAt(n)
               PROVE  FALSE
    BY DEF Underway
  <2>1. Handling[n] = Use("publish")
    BY <1>1, RestSteps DEF UnderwayAt
  <2> QED BY <2>1, WhichStep
<1>3. Answering
  BY <1>1, <1>2 DEF RoutingInv, Busy
<1>4. todo["loop"] = Tail(Reply)
  BY <1>1, <1>3, ReplySteps, StepKinds DEF Answering
<1>5. todo'["loop"] = <<>>
  BY <1>1, <1>4, ReplySteps
<1> QED
  BY <1>1, <1>3, <1>4, <1>5 DEF StaysRouted, Routed, Answering

\* The invariant but for the message, in each step.
LEMMA RoutingTyping ==
  ASSUME RoutingInv, [TopicsNext]_topicsVars
  PROVE  /\ DOMAIN todo' = Tasks /\ todo'["tcp"] \in Seq(TcpSteps)
         /\ ownBuffer' \in [Tasks -> BOOLEAN]
         /\ message' \in Message \cup {NoMessage}
<1>1. /\ DOMAIN todo = Tasks /\ todo["tcp"] \in Seq(TcpSteps)
      /\ ownBuffer \in [Tasks -> BOOLEAN] /\ message \in Message \cup {NoMessage}
  BY DEF RoutingInv
<1>2. ASSUME NEW t \in Tasks, AddTopic(t)
      PROVE  /\ DOMAIN todo' = Tasks /\ todo'["tcp"] \in Seq(TcpSteps)
             /\ ownBuffer' \in [Tasks -> BOOLEAN]
             /\ message' \in Message \cup {NoMessage}
  <2>1. todo[t] # <<>> /\ todo' = [todo EXCEPT ![t] = Tail(todo[t])] /\ message' = message
    BY <1>2 DEF AddTopic, Busy, GoesOn, Goes
  <2>2. DOMAIN todo' = Tasks /\ todo'["tcp"] \in {todo["tcp"], Tail(todo["tcp"])}
    BY <1>1, <2>1 DEF Tasks
  <2>3. t = "tcp" => todo'["tcp"] \in Seq(TcpSteps)
    BY <1>1, <2>1, <2>2, HeadTailProperties DEF Tasks
  <2>4. t # "tcp" => todo'["tcp"] = todo["tcp"]
    BY <1>1, <2>1 DEF Tasks
  <2>5. ownBuffer' = [u \in Tasks |-> ownBuffer[u] /\ (u = t \/ ~Busy(u))]
    BY <1>1, <1>2 DEF AddTopic
  <2>6. ownBuffer' \in [Tasks -> BOOLEAN]
    BY <1>1, <2>5, Zenon
  <2> QED BY <1>1, <2>1, <2>2, <2>3, <2>4, <2>6
<1>3. CASE TakeMessage
  BY <1>1, <1>3 DEF TakeMessage, Goes, Tasks
<1>4. CASE SendInfo
  BY <1>1, <1>4 DEF SendInfo, Goes, Tasks
<1>5. CASE UseSubtopic \/ UseChannel \/ UseGroup \/ UseWord \/ UseFound \/ UseUnknown \/ UsePublish
  <2>1. \E rest : todo' = [todo EXCEPT !["loop"] = rest]
    BY <1>5 DEF UseSubtopic, UseChannel, UseGroup, UseWord, UseFound, UseUnknown, UsePublish,
       DealtWith, OnToTheNext, GoesOn, Goes
  <2>2. message' = message /\ ownBuffer' = ownBuffer
    BY <1>5 DEF UseSubtopic, UseChannel, UseGroup, UseWord, UseFound, UseUnknown, UsePublish
  <2> QED BY <1>1, <2>1, <2>2 DEF Tasks
<1>6. CASE OnMqttConnect
  BY <1>1, <1>6, ConnectingSteps DEF OnMqttConnect, Goes, Tasks
<1>7. CASE SendWiFiInfo \/ Subscribe \/ SubscribeStatus
  <2>1. todo["tcp"] # <<>> /\ todo' = [todo EXCEPT !["tcp"] = Tail(todo["tcp"])]
        /\ message' = message /\ ownBuffer' = ownBuffer
    BY <1>7 DEF SendWiFiInfo, Subscribe, SubscribeStatus, Doing, GoesOn, Goes
  <2>2. DOMAIN todo' = Tasks /\ todo'["tcp"] = Tail(todo["tcp"])
    BY <1>1, <2>1 DEF Tasks
  <2>3. Tail(todo["tcp"]) \in Seq(TcpSteps)
    BY <1>1, <2>1, HeadTailProperties
  <2> QED BY <1>1, <2>1, <2>2, <2>3
<1>8. CASE UNCHANGED topicsVars
  BY <1>1, <1>8 DEF topicsVars
<1> QED
  BY <1>2, <1>3, <1>4, <1>5, <1>6, <1>7, <1>8 DEF TopicsNext, Tasks

\* What the handling begins with.
LEMMA HandlingBegins ==
  ASSUME RoutingInv, TakeMessage
  PROVE  StaysRouted
<1>1. /\ todo'["loop"] = Handling /\ channel' = NoMatch /\ group' = NoMatch /\ todo["loop"] = <<>>
  BY DEF TakeMessage, Goes, Busy, RoutingInv, Tasks
<1>2. todo'["loop"] = Rest(1)
  BY <1>1, RestBegins
<1>3. Filled(1)' /\ PassedBy(1)'
  BY DEF Filled, PassedBy, WordSteps
<1>4. UnderwayAt(1)'
  BY <1>1, <1>2, <1>3 DEF UnderwayAt
<1>5. 1 \in 1 .. 20
  OBVIOUS
<1> QED BY <1>1, <1>4, <1>5 DEF StaysRouted, Routed, Underway, Busy

\* Every step keeps the invariant, and routes the message it deals with.
LEMMA RoutingStep ==
  ASSUME RoutingInv, [TopicsNext]_topicsVars
  PROVE  RoutingInv' /\ Routed
<1>1. CASE message # NoMessage
  <2> SUFFICES StaysRouted
    BY RoutingTyping DEF StaysRouted, RoutingInv, Busy
  <2>1. CASE AddTopic("loop")
    BY <2>1, FilledByLoop
  <2>2. CASE AddTopic("tcp")
    <3>1. newTopic' = Head(todo["tcp"])[2] /\ Head(todo["tcp"])[1] = "fill" /\ todo["tcp"] # <<>>
          /\ todo'["loop"] = todo["loop"] /\ ownBuffer'["loop"] = (ownBuffer["loop"] /\ ~Busy("loop"))
          /\ UNCHANGED <<message, found, outcome>>
      BY <2>2 DEF AddTopic, Busy, GoesOn, Goes, RoutingInv, Tasks
    <3>2. Head(todo["tcp"]) \in TcpSteps
      BY <3>1, HeadTailProperties DEF RoutingInv
    <3>3. newTopic' \in OtherTopics
      BY <3>1, <3>2, TcpStepKinds
    <3> QED BY <3>1, <3>3, FilledByOther
  <2>3. CASE TakeMessage
    BY <2>3, HandlingBegins
  <2>4. CASE SendInfo
    BY <2>4 DEF SendInfo, StaysRouted, Routed, Busy
  <2>5. CASE OnMqttConnect \/ SendWiFiInfo \/ Subscribe \/ SubscribeStatus
    <3>1. todo'["loop"] = todo["loop"] /\ ownBuffer'["loop"] = ownBuffer["loop"]
          /\ UNCHANGED <<newTopic, message, found, outcome>>
      BY <2>5 DEF OnMqttConnect, SendWiFiInfo, Subscribe, SubscribeStatus, GoesOn, Goes, RoutingInv, Tasks
    <3> QED BY <3>1, OthersBusiness
  <2>6. CASE UNCHANGED topicsVars
    <3>1. todo'["loop"] = todo["loop"] /\ ownBuffer'["loop"] = ownBuffer["loop"]
          /\ UNCHANGED <<newTopic, message, found, outcome>>
      BY <2>6 DEF topicsVars, found
    <3> QED BY <3>1, OthersBusiness
  <2> QED
    BY <1>1, <2>1, <2>2, <2>3, <2>4, <2>5, <2>6, SubtopicRouted, ChannelRouted, GroupRouted, WordRouted,
       FoundRouted, UnknownRouted, ReplyRouted DEF TopicsNext
<1>2. CASE message = NoMessage
  <2>1. CASE TakeMessage
    BY <2>1, HandlingBegins, RoutingTyping DEF StaysRouted, RoutingInv, Busy
  <2>2. CASE ~TakeMessage
    <3>1. message' = NoMessage
      BY <1>2, <2>2 DEF TopicsNext, topicsVars, AddTopic, SendInfo, UseSubtopic, UseChannel, UseGroup, UseWord,
         UseFound, UseUnknown, UsePublish, OnMqttConnect, SendWiFiInfo, Subscribe, SubscribeStatus
    <3> QED BY <1>2, <3>1, RoutingTyping DEF RoutingInv, Routed
  <2> QED BY <2>1, <2>2
<1> QED BY <1>1, <1>2

\* A message goes where its topic says, while the session does not begin anew; and when
\* it does, it is at worst not known and answered as such, or its answer goes astray: it
\* never reaches another shutter, group or operation (mqttHandleCommand).
THEOREM CommandsRouted == TopicsSpec => CommandsAreRouted
<1>1. TopicsInit => RoutingInv
  BY EmptySeq DEF TopicsInit, RoutingInv, Tasks
<1>2. RoutingInv /\ [TopicsNext]_topicsVars => RoutingInv'
  BY RoutingStep
<1>3. RoutingInv /\ [TopicsNext]_topicsVars
        => [(message # NoMessage /\ Busy("loop") /\ todo'["loop"] = <<>>)
              => /\ outcome' \in {Meant(message), Unknown}
                 /\ ownBuffer["loop"] =>
                      outcome' = Meant(message) /\ (outcome' \in {Refused, Unknown} => published' = "message")]_topicsVars
  BY RoutingStep DEF Routed
<1> QED
  BY <1>1, <1>2, <1>3, PTL DEF TopicsSpec, CommandsAreRouted

-----------------------------------------------------------------------------
(* The timers.  While a day is calm, a timer has had its command if the     *)
(* minute it is due at is among those the loop has looked at.               *)

\* The minute of the day a timer with a time is due at.
DueTime(s) ==
  IF s.type = "FIXED_TIME" THEN s.time ELSE Within(Wrapped(SunEvent(s), s), s)

\* The loop has looked at the present minute.
Seen == known /\ ~NewMinute

\* The last minute of the day it has looked at, if the day is calm.
SeenUpTo == IF Seen THEN Clock ELSE Clock - 1

\* The invariant.
DayInv ==
  calm => \A t \in Timer :
    count[t] = IF HasTime(timer[t], Today) /\ DueTime(timer[t]) <= SeenUpTo THEN 1 ELSE 0

\* A quotient and a remainder are the only ones.
LEMMA DivUnique ==
  ASSUME NEW d \in Nat \ {0}, NEW a \in Nat, NEW q \in Nat, NEW r \in 0 .. d - 1, a = d * q + r
  PROVE  a \div d = q /\ a % d = r
  OBVIOUS

\* Every number has them.
LEMMA DivParts ==
  ASSUME NEW d \in Nat \ {0}, NEW a \in Nat
  PROVE  a \div d \in Nat /\ a % d \in 0 .. d - 1 /\ a = d * (a \div d) + (a % d)
  OBVIOUS

\* The next number has the next remainder, or starts the next period.
LEMMA DivNext ==
  ASSUME NEW d \in Nat \ {0}, NEW a \in Nat
  PROVE  \/ (a + 1) \div d = a \div d /\ (a + 1) % d = (a % d) + 1
         \/ (a + 1) \div d = a \div d + 1 /\ (a + 1) % d = 0 /\ a % d = d - 1
<1>1. PICK q \in Nat, r \in 0 .. d - 1 : q = a \div d /\ r = a % d /\ a = d * q + r
  BY DivParts
<1>2. CASE r < d - 1
  <2>1. r + 1 \in 0 .. d - 1 /\ a + 1 = d * q + (r + 1)
    BY <1>1, <1>2
  <2>2. PICK b \in Nat, p \in 0 .. d - 1 : b = a + 1 /\ p = r + 1 /\ b = d * q + p
    BY <2>1
  <2>3. b \div d = q /\ b % d = p
    BY <2>2, DivUnique
  <2> QED BY <1>1, <2>2, <2>3
<1>3. CASE r = d - 1
  <2>1. d * (q + 1) = d * q + d
    OBVIOUS
  <2>2. PICK b \in Nat : b = a + 1
    OBVIOUS
  <2>3. PICK p \in Nat : p = q + 1
    OBVIOUS
  <2>4. PICK o \in 0 .. d - 1 : o = 0
    OBVIOUS
  <2>5. b = d * p + o
    <3>1. d * p = d * q + d
      BY <2>1, <2>3
    <3> QED BY <1>1, <1>3, <2>2, <2>4, <3>1
  <2>6. b \div d = p /\ b % d = o
    BY <2>5, DivUnique
  <2> QED BY <1>1, <1>3, <2>2, <2>3, <2>4, <2>6
<1> QED BY <1>2, <1>3

\* More minutes are no fewer days.
LEMMA DivGrows ==
  ASSUME NEW d \in Nat \ {0}, NEW a \in Nat, NEW b \in Nat, a <= b
  PROVE  a \div d <= b \div d
<1>1. PICK q \in Nat, r \in 0 .. d - 1 : q = a \div d /\ a = d * q + r
  BY DivParts
<1>2. PICK p \in Nat, s \in 0 .. d - 1 : p = b \div d /\ b = d * p + s
  BY DivParts
<1>3. ASSUME p < q PROVE FALSE
  <2>1. d * (p + 1) <= d * q
    BY <1>3
  <2>2. d * (p + 1) = d * p + d
    OBVIOUS
  <2> QED BY <1>1, <1>2, <2>1, <2>2
<1> QED BY <1>1, <1>2, <1>3

\* A day has minutes.
LEMMA DayIsNat == Day \in Nat \ {0} /\ Minutes \in Nat \ {0}
  BY SizeAssumption DEF Day

\* The clock in days and minutes of the day.
LEMMA LocalParts ==
  ASSUME TypeOK
  PROVE  /\ Minute(now) \in Nat /\ Local \in Nat /\ Today \in Nat /\ Clock \in Total
         /\ Today \in 0 .. (LastTime \div Half + Minutes) \div Day
<1>1. /\ now \in Nat /\ now <= LastTime /\ LastTime \in Nat
      /\ Minute(now) = now \div 2 /\ now \div 2 \in Nat /\ now \div 2 <= LastTime \div 2
      /\ LastTime \div 2 \in Nat
  BY SizeAssumption DEF TypeOK, Minute, Half
<1>2. Local \in Nat /\ Local <= LastTime \div 2 + Minutes
  BY <1>1, DayIsNat DEF Local
<1>3. Today \in Nat /\ Clock \in 0 .. Day - 1
  BY <1>2, DayIsNat, DivParts DEF Today, Clock
<1>4. Today <= (LastTime \div 2 + Minutes) \div Day
  BY <1>1, <1>2, DayIsNat, DivGrows DEF Today
<1>5. (LastTime \div 2 + Minutes) \div Day \in Nat
  BY <1>1, DayIsNat, DivParts
<1> QED BY <1>1, <1>2, <1>3, <1>4, <1>5 DEF Total, Half

\* A timer with a time is due within the day, whatever its offset and its limits.
LEMMA DueInDay ==
  ASSUME TypeOK, NEW s \in Settings, HasTime(s, Today)
  PROVE  DueTime(s) \in Total
<1>1. CASE s.type = "FIXED_TIME"
  BY <1>1 DEF DueTime, HasTime, Settings
<1>2. CASE s.type # "FIXED_TIME"
  <2>1. s.type \in Event /\ s.offset \in Int
        /\ s.min \in Total \cup {Unused} /\ s.max \in Total \cup {Unused}
    BY <1>2 DEF Settings
  <2>2. Sun[s.type][Today] \in Int
    BY <2>1, LocalParts, SunAssumption
  <2>3. SunEvent(s) \in Int
    BY <2>2, DayIsNat DEF SunEvent
  <2>4. Offset(s) \in Int
    BY <2>1, DayIsNat DEF Offset
  <2>5. PICK w \in Total : w = Wrapped(SunEvent(s), s)
    <3>1. PICK x \in Int : x = SunEvent(s) + Offset(s)
      BY <2>3, <2>4
    <3>2. x % Day \in 0 .. Day - 1
      BY DayIsNat
    <3> QED BY <3>1, <3>2 DEF Wrapped, Total
  <2>6. Within(w, s) \in Total
    BY <2>1 DEF Within
  <2> QED BY <1>2, <2>5, <2>6 DEF DueTime
<1> QED BY <1>1, <1>2

\* The same of the step's later state.
DuesInDay == \A s \in Settings : HasTime(s, Today) => DueTime(s) \in Total

LEMMA DueLater == TypeOK' => DuesInDay'
<1>1. TypeOK => DuesInDay
  BY DueInDay DEF DuesInDay
<1> QED BY <1>1, PTL

\* checkTimerTrigger answers in the one minute a timer is due at.
LEMMA TriggeredWhenDue ==
  ASSUME NEW t \in Timer
  PROVE  t \in Triggered <=> HasTime(timer[t], Today) /\ DueTime(timer[t]) = Clock
  BY DEF Triggered, Due, HasTime, DueTime

\* Types.
LEMMA TimerType == TypeOK /\ [Next]_vars => TypeOK'
<1> SUFFICES ASSUME TypeOK, [Next]_vars PROVE TypeOK'
  OBVIOUS
<1>1. CASE TimerCyclic
  <2>1. Triggered \subseteq Timer
    BY DEF Triggered
  <2>2. count' \in [Timer -> Nat]
    BY <1>1 DEF TypeOK, TimerCyclic
  <2> QED BY <1>1, <2>1, <2>2 DEF TypeOK, TimerCyclic
<1>2. CASE Tick
  <2>1. count' \in [Timer -> Nat] /\ calm' \in BOOLEAN
    BY <1>2 DEF TypeOK, Tick, Reset
  <2>2. disturbed' \in 0 .. MaxDisturbed
    BY <1>2, SizeAssumption DEF TypeOK, Tick
  <2>3. now' \in 0 .. LastTime
    BY <1>2, SizeAssumption DEF TypeOK, Tick
  <2> QED BY <1>2, <2>1, <2>2, <2>3 DEF TypeOK, Tick
<1>3. Disturbs => /\ count' \in [Timer -> Nat] /\ calm' \in BOOLEAN /\ executed' \subseteq Timer
                  /\ disturbed' \in 0 .. MaxDisturbed
  <2> SUFFICES ASSUME Disturbs PROVE /\ count' \in [Timer -> Nat] /\ calm' \in BOOLEAN
                                     /\ executed' \subseteq Timer /\ disturbed' \in 0 .. MaxDisturbed
    OBVIOUS
  <2>1. [t \in Timer |-> 0] \in [Timer -> Nat]
    OBVIOUS
  <2>2. count' \in [Timer -> Nat]
    BY <2>1 DEF TypeOK, Disturbs, Reset
  <2>3. calm' \in BOOLEAN /\ executed' \subseteq Timer
    BY DEF Disturbs
  <2>4. disturbed' \in 0 .. MaxDisturbed
    BY SizeAssumption DEF TypeOK, Disturbs
  <2> QED BY <2>2, <2>3, <2>4
<1>4. CASE SetClock
  BY <1>3, <1>4 DEF TypeOK, SetClock
<1>5. CASE SummerTime
  BY <1>3, <1>5 DEF TypeOK, SummerTime
<1>6. CASE Configure
  BY <1>3, <1>6 DEF TypeOK, Configure
<1>7. CASE Restart
  <2>1. last' \in 0 .. LastTime \cup {-1} /\ known' \in BOOLEAN
    BY <1>7 DEF TypeOK, Restart
  <2> QED BY <1>3, <1>7, <2>1 DEF TypeOK, Restart
<1>8. CASE UNCHANGED vars
  BY <1>8 DEF TypeOK, vars
<1> QED BY <1>1, <1>2, <1>4, <1>5, <1>6, <1>7, <1>8 DEF Next

\* A look at a new minute.
LEMMA DayLook == TypeOK /\ DayInv /\ TimerCyclic => DayInv'
<1> SUFFICES ASSUME TypeOK, DayInv, TimerCyclic, calm', NEW t \in Timer
             PROVE  count'[t] = IF HasTime(timer'[t], Today') /\ DueTime(timer[t])' <= SeenUpTo'
                                THEN 1 ELSE 0
  BY DEF DayInv
<1>1. /\ timer' = timer /\ Today' = Today /\ Clock' = Clock /\ calm /\ known /\ NewMinute
      /\ Seen' /\ timer[t] \in Settings
  BY SetupsAssumption
     DEF TimerCyclic, Today, Clock, Local, Seen, NewMinute, TypeOK
<1>2. DueTime(timer[t])' = DueTime(timer[t]) /\ HasTime(timer'[t], Today') = HasTime(timer[t], Today)
  BY <1>1 DEF TimerCyclic, DueTime, SunEvent, Today, Local, HasTime
<1>3. count[t] = IF HasTime(timer[t], Today) /\ DueTime(timer[t]) <= Clock - 1 THEN 1 ELSE 0
  BY <1>1 DEF DayInv, SeenUpTo, Seen
<1>4. count'[t] = IF HasTime(timer[t], Today) /\ DueTime(timer[t]) = Clock
                  THEN count[t] + 1 ELSE count[t]
  BY TriggeredWhenDue DEF TimerCyclic, TypeOK
<1>5. SeenUpTo' = Clock /\ Clock \in Int
  BY <1>1, LocalParts DEF SeenUpTo, Total
<1>6. HasTime(timer[t], Today) => DueTime(timer[t]) \in Int
  BY <1>1, DueInDay DEF Total
<1> QED BY <1>2, <1>3, <1>4, <1>5, <1>6

\* Time goes by.
LEMMA DayTick == TypeOK /\ DayInv /\ Tick => DayInv'
<1> SUFFICES ASSUME TypeOK, DayInv, Tick, calm', NEW t \in Timer
             PROVE  count'[t] = IF HasTime(timer'[t], Today') /\ DueTime(timer[t])' <= SeenUpTo'
                                THEN 1 ELSE 0
  BY DEF DayInv
<1>0. /\ timer' = timer /\ summer' = summer /\ known' = known /\ last' = last /\ now' = now + 1
      /\ TypeOK' /\ timer[t] \in Settings
  BY SetupsAssumption, TimerType DEF Tick, TypeOK, Next
<1>1. Minute(now') = Minute(now) \/ Minute(now') = Minute(now) + 1
  BY <1>0 DEF Minute, Half, TypeOK
<1>2. CASE Today' # Today
  <2>1. Local' = Local + 1 /\ Local \in Nat
    <3>1. Local \in Nat /\ Minute(now) \in Nat /\ Minutes \in Nat
      BY LocalParts, DayIsNat
    <3>2. Local' # Local
      BY <1>2 DEF Today
    <3>3. Local = Minute(now) + (IF summer THEN Minutes ELSE 0)
      BY DEF Local
    <3>4. Local' = Minute(now') + (IF summer THEN Minutes ELSE 0)
      BY <1>0 DEF Local
    <3> HIDE DEF Local
    <3> QED BY <1>1, <3>1, <3>2, <3>3, <3>4
  <2>2. Clock' = 0
    BY <1>2, <2>1, DivNext, DayIsNat DEF Today, Clock
  <2>3. ~Seen'
    BY <1>0, <1>2 DEF Tick, Seen, NewMinute
  <2>4. count'[t] = 0
    BY <1>2 DEF Tick, Reset
  <2>5. SeenUpTo' = -1
    BY <2>2, <2>3 DEF SeenUpTo
  <2>6. HasTime(timer'[t], Today') => DueTime(timer[t])' \in Total
    <3>1. \A s \in Settings : HasTime(s, Today') => DueTime(s)' \in Total
      BY <1>0, DueLater DEF DuesInDay
    <3> QED BY <1>0, <3>1
  <2> QED BY <2>4, <2>5, <2>6 DEF Total
<1>3. CASE Today' = Today
  <2>1. calm /\ count' = count
    BY <1>3 DEF Tick
  <2>2. DueTime(timer[t])' = DueTime(timer[t]) /\ HasTime(timer'[t], Today') = HasTime(timer[t], Today)
    BY <1>0, <1>3 DEF DueTime, SunEvent, HasTime
  <2>3. SeenUpTo' = SeenUpTo
    <3>1. CASE Minute(now') = Minute(now)
      <4>1. Local' = Local
        BY <1>0, <3>1 DEF Local
      <4>2. Clock' = Clock /\ Seen' = Seen
        BY <1>0, <3>1, <4>1 DEF Clock, Seen, NewMinute
      <4> QED BY <4>2 DEF SeenUpTo
    <3>2. CASE Minute(now') = Minute(now) + 1
      <4>1. Minute(now) \in Nat /\ Local \in Nat /\ Local' = Local + 1 /\ Clock \in Nat
        BY <1>0, <3>2, LocalParts, DayIsNat DEF Local, Total
      <4>2. Clock' = Clock + 1
        <5>1. PICK l \in Nat, d \in Nat \ {0} : l = Local /\ d = Day
          BY <4>1, DayIsNat
        <5>2. (l + 1) \div d = l \div d /\ l \div d \in Nat
          BY <1>3, <4>1, <5>1, LocalParts DEF Today
        <5>3. l \div d # l \div d + 1
          BY <5>2
        <5>4. (l + 1) \div d # l \div d + 1
          BY <5>2, <5>3
        <5>5. (l + 1) % d = (l % d) + 1
          BY <5>4, DivNext
        <5> QED BY <4>1, <5>1, <5>5 DEF Clock
      <4>3. Seen
        <5>1. Minute(now') # Minute(now)
          BY <3>2, <4>1
        <5> QED BY <1>3, <5>1 DEF Tick, Seen
      <4>4. ~Seen'
        <5>1. Minute(last) = Minute(now)
          BY <4>3 DEF Seen, NewMinute
        <5>2. Minute(last') # Minute(now')
          BY <1>0, <3>2, <4>1, <5>1
        <5> QED BY <5>2 DEF Seen, NewMinute
      <4> QED BY <4>1, <4>2, <4>3, <4>4 DEF SeenUpTo
    <3> QED BY <1>1, <3>1, <3>2
  <2> QED BY <2>1, <2>2, <2>3 DEF DayInv
<1> QED BY <1>2, <1>3

\* The day invariant is inductive.
LEMMA DayStep == TypeOK /\ DayInv /\ [Next]_vars => DayInv'
<1>1. DayInv /\ (SetClock \/ SummerTime \/ Configure \/ Restart) => DayInv'
  BY DEF SetClock, SummerTime, Configure, Restart, Disturbs, DayInv
<1>2. DayInv /\ UNCHANGED vars => DayInv'
  BY DEF vars, DayInv, Today, Local, HasTime, DueTime, SunEvent, SeenUpTo, Seen, NewMinute, Clock
<1> QED BY <1>1, <1>2, DayLook, DayTick DEF Next

\* At the end of a day that was calm and seen, each timer has had its one command.
LEMMA DayEnds ==
  ASSUME TypeOK, DayInv, Today' = Today + 1, now' = now + 1, summer' = summer,
         calm, Seen, NEW t \in Timer
  PROVE  count[t] = IF HasTime(timer[t], Today) THEN 1 ELSE 0
<1>1. Minute(now') = Minute(now) \/ Minute(now') = Minute(now) + 1
  BY DEF Minute, Half, TypeOK
<1>2. Local \in Nat /\ Today \in Nat /\ Minute(now) \in Nat /\ Minutes \in Nat
  BY LocalParts, DayIsNat
<1>3. Local' = Local + 1
  BY <1>1, <1>2 DEF Local, Today
<1>4. Clock = Day - 1
  <2>1. PICK l \in Nat, d \in Nat \ {0} : l = Local /\ d = Day
    BY <1>2, DayIsNat
  <2>2. (l + 1) \div d = l \div d + 1 /\ l \div d \in Nat
    BY <1>2, <1>3, <2>1 DEF Today
  <2>3. (l + 1) \div d # l \div d
    BY <2>2
  <2>4. l % d = d - 1
    BY <2>3, DivNext
  <2> QED BY <2>1, <2>4 DEF Clock
<1>5. SeenUpTo = Day - 1
  BY <1>4 DEF SeenUpTo, Seen
<1>6. HasTime(timer[t], Today) => DueTime(timer[t]) <= Day - 1
  <2>1. timer[t] \in Settings
    BY SetupsAssumption DEF TypeOK
  <2> QED BY <2>1, DueInDay, DayIsNat DEF Total
<1> QED BY <1>5, <1>6 DEF DayInv

\* What lies within limits that agree keeps to them.
LEMMA WithinLimits ==
  ASSUME NEW s \in Settings, NEW x, NEW c \in Int, Within(x, s) = c,
         s.min = Unused \/ s.max = Unused \/ s.min <= s.max
  PROVE  (s.min # Unused => c >= s.min) /\ (s.max # Unused => c <= s.max)
<1>1. s.min \in Int /\ s.max \in Int
  BY DayIsNat DEF Settings, Total, Unused
<1> QED BY <1>1 DEF Within

\* Every timer gives its command once on a day the loop looked at minute by
\* minute, or not at all on a day that is not one of its own, and never outside
\* limits that agree; for any timers, offsets, limits and sun, any length of the
\* day, and whatever else was disturbed before (timerCyclic, checkTimerTrigger,
\* getSunriseOrSunset).
THEOREM OnceADay == Spec => DailyWithinLimits
<1>1. Init => TypeOK /\ DayInv
  <2>1. Init => TypeOK
    <3> SUFFICES ASSUME Init PROVE TypeOK
      OBVIOUS
    <3>1. [t \in Timer |-> 0] \in [Timer -> Nat]
      OBVIOUS
    <3>2. 0 \in 0 .. LastTime /\ 0 \in 0 .. MaxDisturbed
      BY SizeAssumption
    <3> QED BY <3>1, <3>2 DEF Init, TypeOK
  <2> QED BY <2>1 DEF Init, DayInv
<1>2. TypeOK /\ DayInv =>
        LET last_of_day == Today' = Today + 1 /\ now' = now + 1 /\ summer' = summer
            seen == known /\ ~NewMinute
        IN last_of_day /\ calm /\ seen =>
             \A t \in Timer : count[t] = IF HasTime(timer[t], Today) THEN 1 ELSE 0
  BY DayEnds DEF Seen
<1>3. TypeOK /\ [Next]_vars =>
        [\A t \in executed' : LET s == timer[t] IN
           /\ s.enable /\ known
           /\ s.type # "FIXED_TIME" /\ (s.min = Unused \/ s.max = Unused \/ s.min <= s.max)
                => /\ s.min # Unused => Clock >= s.min
                   /\ s.max # Unused => Clock <= s.max]_vars
  <2> SUFFICES ASSUME TypeOK, Next, NEW t \in executed'
               PROVE  LET s == timer[t] IN
                      /\ s.enable /\ known
                      /\ s.type # "FIXED_TIME" /\ (s.min = Unused \/ s.max = Unused \/ s.min <= s.max)
                           => /\ s.min # Unused => Clock >= s.min
                              /\ s.max # Unused => Clock <= s.max
    OBVIOUS
  <2>1. TimerCyclic /\ t \in Triggered
    BY DEF Next, TimerCyclic, Tick, SetClock, SummerTime, Configure, Restart, Disturbs
  <2>2. known /\ t \in Timer /\ timer[t] \in Settings /\ timer[t].enable /\ Due(timer[t])
    BY <2>1, SetupsAssumption DEF TimerCyclic, Triggered, TypeOK
  <2>3. Clock \in Int
    BY LocalParts DEF Total
  <2>4. timer[t].type # "FIXED_TIME" =>
          Within(Wrapped(SunEvent(timer[t]), timer[t]), timer[t]) = Clock
    BY <2>2 DEF Due
  <2> QED BY <2>2, <2>3, <2>4, WithinLimits
<1> QED BY <1>1, <1>2, <1>3, TimerType, DayStep, PTL
        DEF Spec, DailyWithinLimits, OncePerDay, LimitsKept

-----------------------------------------------------------------------------
(* The log.                                                                *)

LogDoing == {"idle", "wrote", "fetched", "clearing", "dumping"}
Dumps == [reader : {"none", "web", "telnet"}, newest : BOOLEAN, line : 0 .. Lines, fits : Nat,
          shown : Seq(Int), calm : BOOLEAN, sound : BOOLEAN, from : Int]
LogTypeOK ==
  /\ buffer \in [Slot -> Int] /\ lastLine \in Slot
  /\ newest \in BOOLEAN /\ logReadActive \in BOOLEAN
  /\ at \in [Task -> LogDoing]
  /\ slot \in [Task -> 0 .. Lines] /\ alone \in [Task -> BOOLEAN]
  /\ dump \in Dumps
  /\ dump.reader = "web" => dump.line <= Lines - 1
  /\ \A t \in Task : at[t] = "fetched" => slot[t] \in Slot
  /\ messages \in Nat /\ cleared \in 0 .. messages /\ upset \in 0 .. Lines

\* A message is in its slot, which is not yet passed on.
InSlot == \E t \in Task : at[t] \in {"wrote", "fetched"}
Stored == IF InSlot THEN messages - 1 ELSE messages

\* So many messages came after the one in this slot.
Age(s) == IF s < lastLine THEN lastLine - 1 - s ELSE lastLine - 1 - s + Lines

\* No two are at the ring.
Orderly == \A t \in Writing : alone[t]

\* Whoever writes is alone, or every slot has yet to be written anew; and only
\* loop() clears and dumps.
Writers ==
  /\ \A t \in Task : alone[t] \/ t \in Writing
  /\ \A t \in Writing : IF alone[t] THEN Writing = {t} ELSE upset = Lines
  /\ \A t \in OtherTasks : at[t] \notin {"clearing", "dumping"}
  /\ \A t \in Task : at[t] = "fetched" /\ alone[t] => slot[t] = After(lastLine)

\* What the ring holds while nobody mixes it up: the slot being written is the oldest.
Passed(s) == ~InSlot \/ s # lastLine
Ring ==
  Orderly /\ at[LoopTask] # "clearing" =>
    /\ upset = 0 =>
         /\ \A s \in Slot : Passed(s) =>
              buffer[s] = IF Age(s) < Stored - cleared THEN Stored - Age(s) ELSE Empty
         /\ Stored - cleared < Lines => lastLine = Stored - cleared
    /\ \A s \in Slot : Passed(s) /\ upset > 0 /\ Age(s) < Lines - upset => buffer[s] = Stored - Age(s)
    /\ upset > 0 => Stored - cleared >= Lines - upset
    /\ Stored >= cleared
    /\ InSlot => buffer[lastLine] = messages

\* What is left of a ring that is being cleared.
Clearing ==
  at[LoopTask] = "clearing" /\ alone[LoopTask] =>
    /\ lastLine = 0 /\ cleared = messages
    /\ \A s \in Slot : s < slot[LoopTask] => buffer[s] = Empty

\* Only loop() dumps; a dump that is still sound reads a ring that is.
Dumping ==
  /\ dump.reader = "none" => dump = NoDump
  /\ at[LoopTask] = "dumping" <=> dump.reader # "none"
  /\ dump.reader # "none" /\ dump.sound => upset = 0
  /\ dump.reader # "none" /\ dump.calm => Writing = {}
  /\ dump.line = Len(dump.shown)

\* A dump from the newest message on: each line showed a message no newer than the one
\* its slot holds by now.
FromNewestOn ==
  dump.reader = "web" /\ dump.newest /\ dump.sound =>
    /\ dump.fits \in 1 .. Lines /\ dump.line <= Lines - 1 /\ dump.line <= dump.fits + 1
    /\ dump.from <= Stored
    /\ dump.line > 0 => dump.shown[1] >= dump.from
    /\ \A i \in 1 .. dump.line : i <= dump.fits => dump.shown[i] <= Stored - (i - 1)
    /\ \A i \in 1 .. dump.line - 1 :
         dump.shown[i + 1] \in {NotShown} \cup (dump.shown[i] - 1 .. messages)

\* A calm dump: what line i shows, and how far the lines may go.
Held == messages - Oldest
Line(i) ==
  IF dump.reader = "telnet" THEN IF i = Held + 1 THEN Empty ELSE Oldest + i
  ELSE IF i = dump.fits + 1 THEN NotShown
  ELSE IF dump.newest THEN messages - (i - 1) ELSE Oldest + i
CalmLines ==
  dump.reader # "none" /\ dump.sound /\ dump.calm =>
    /\ dump.reader = "web" => dump.fits \in 1 .. Lines
    /\ dump.reader = "telnet" => dump.fits = Lines
    /\ lastLine = 0 => dump.line = 0
    /\ IF dump.reader = "telnet"
       THEN dump.line <= IF Held = Lines - 1 THEN Lines ELSE Held
       ELSE dump.line <= Held /\ dump.line <= Lines - 1 /\ dump.line <= dump.fits + 1
    /\ \A i \in 1 .. dump.line : dump.shown[i] = Line(i)

LogInv == LogTypeOK /\ Writers /\ Ring /\ Clearing /\ Dumping /\ FromNewestOn /\ CalmLines

\* Two slots at least.
LEMMA LinesNat == Lines \in Nat /\ Lines >= 2
  BY LinesAssumption

\* The remainders of the next slot and of the slots a dump reads.
LEMMA Remainders ==
  ASSUME NEW d \in Nat \ {0}, NEW a \in Int
  PROVE  /\ a \in 0 .. d - 1 => a % d = a
         /\ a \in d .. d + d - 1 => a % d = a - d
         /\ a \in -d .. -1 => a % d = a + d
  OBVIOUS

\* The slot after the last one is the first.
LEMMA AfterIs ==
  ASSUME NEW s \in Slot
  PROVE  After(s) = (IF s = Lines - 1 THEN 0 ELSE s + 1) /\ After(s) \in Slot
<1>1. s \in 0 .. Lines - 1 /\ Lines \in Nat \ {0}
  BY LinesNat DEF Slot
<1>2. PICK a \in Int : a = s + 1
  BY <1>1
<1>3. a % Lines = IF s = Lines - 1 THEN 0 ELSE s + 1
  <2>1. a \in 0 .. Lines - 1 => a % Lines = a
    BY <1>1, Remainders
  <2>2. a \in Lines .. Lines + Lines - 1 => a % Lines = a - Lines
    BY <1>1, Remainders
  <2> QED BY <1>1, <1>2, <2>1, <2>2
<1> QED BY <1>1, <1>2, <1>3 DEF After, Slot

\* The ages of the slots.
LEMMA Ages ==
  ASSUME lastLine \in Slot, NEW s \in Slot
  PROVE  /\ Age(s) \in 0 .. Lines - 1 /\ (Age(s) = Lines - 1 <=> s = lastLine)
         /\ lastLine = 0 => Age(s) = Lines - 1 - s
         /\ s < lastLine <=> Age(s) < lastLine
         /\ s < lastLine => Age(s) = lastLine - 1 - s
  BY LinesNat DEF Age, Slot

\* Line by line from the newest, a dump reads one age after the other ...
LEMMA FromNewestAge ==
  ASSUME lastLine \in Slot, NEW line \in 0 .. Lines - 1
  PROVE  FromNewest(line) \in Slot /\ Age(FromNewest(line)) = line
<1>1. lastLine \in 0 .. Lines - 1 /\ Lines \in Nat \ {0}
  BY LinesNat DEF Slot
<1>2. PICK a \in Int : a = lastLine - line - 1
  BY <1>1
<1>3. a % Lines = IF line < lastLine THEN lastLine - line - 1 ELSE lastLine - line - 1 + Lines
  <2>1. a \in 0 .. Lines - 1 => a % Lines = a
    BY <1>1, Remainders
  <2>2. a \in -Lines .. -1 => a % Lines = a + Lines
    BY <1>1, Remainders
  <2> QED BY <1>1, <1>2, <2>1, <2>2
<1> QED BY <1>1, <1>2, <1>3 DEF FromNewest, Age, Slot

\* ... and from the oldest the other way round, as far as the ring is full.
LEMMA FromOldestAge ==
  ASSUME lastLine \in Slot, NEW line \in 0 .. Lines - 1
  PROVE  /\ FromOldest(line) \in Slot
         /\ buffer[lastLine] # Empty => Age(FromOldest(line)) = Lines - 1 - line
         /\ buffer[lastLine] = Empty => FromOldest(line) = line
<1>1. lastLine \in 0 .. Lines - 1 /\ Lines \in Nat \ {0}
  BY LinesNat DEF Slot
<1>2. PICK a \in Int : a = lastLine + line
  BY <1>1
<1>3. a % Lines = IF lastLine + line < Lines THEN lastLine + line ELSE lastLine + line - Lines
  <2>1. a \in 0 .. Lines - 1 => a % Lines = a
    BY <1>1, Remainders
  <2>2. a \in Lines .. Lines + Lines - 1 => a % Lines = a - Lines
    BY <1>1, Remainders
  <2> QED BY <1>1, <1>2, <2>1, <2>2
<1> QED BY <1>1, <1>2, <1>3 DEF FromOldest, Age, Slot

\* There are only so many tasks.
LEMMA WritingIsFinite ==
  /\ IsFiniteSet(Writing) /\ Cardinality(Writing) \in Nat
  /\ Writing = {} => Cardinality(Writing) = 0
  /\ \A t : Writing = {t} => Cardinality(Writing) = 1
<1>1. IsFiniteSet(Task)
  BY LinesAssumption, FS_AddElement DEF Task
<1>2. IsFiniteSet(Writing)
  BY <1>1, FS_Subset DEF Writing
<1> QED BY <1>2, FS_CardinalityType, FS_EmptySet, FS_Singleton

\* Types.
LEMMA BeginsType ==
  ASSUME LogTypeOK, NEW t \in Task, Begins(t)
  PROVE  alone' \in [Task -> BOOLEAN] /\ upset' \in 0 .. Lines
<1>1. CASE Writing = {}
  BY <1>1 DEF LogTypeOK, Begins
<1>2. CASE Writing # {}
  <2>1. alone' = [u \in Task |-> alone[u] /\ u \notin Writing \cup {t}]
    BY <1>2 DEF Begins
  <2>2. \A u \in Task : (alone[u] /\ u \notin Writing \cup {t}) \in BOOLEAN
    OBVIOUS
  <2>3. alone' \in [Task -> BOOLEAN]
    BY <2>1, <2>2, Zenon
  <2> QED BY <1>2, <2>3, LinesNat DEF Begins
<1> QED BY <1>1, <1>2

\* A step of a dump ends it or shows one line more: a slot of the ring, or the word
\* that it is not the whole log.
LEMMA LineStep ==
  ASSUME LogTypeOK, WebLine \/ TelnetLine
  PROVE  \/ DumpEnds
         \/ /\ dump.line <= Lines - 1 /\ (dump.reader = "web" => dump.line < Lines - 1)
            /\ \/ dump.reader = "web" /\ dump.line = dump.fits /\ Shows(NotShown)
               \/ /\ dump.reader = "web" /\ dump.newest /\ FromNewest(dump.line) \in Slot
                  /\ Shows(buffer[FromNewest(dump.line)])
               \/ /\ ~(dump.reader = "web" /\ dump.newest) /\ FromOldest(dump.line) \in Slot
                  /\ Shows(buffer[FromOldest(dump.line)])
<1> SUFFICES ASSUME ~DumpEnds
             PROVE  /\ dump.line <= Lines - 1 /\ (dump.reader = "web" => dump.line < Lines - 1)
                    /\ \/ dump.reader = "web" /\ dump.line = dump.fits /\ Shows(NotShown)
                       \/ /\ dump.reader = "web" /\ dump.newest /\ FromNewest(dump.line) \in Slot
                          /\ Shows(buffer[FromNewest(dump.line)])
                       \/ /\ ~(dump.reader = "web" /\ dump.newest) /\ FromOldest(dump.line) \in Slot
                          /\ Shows(buffer[FromOldest(dump.line)])
  OBVIOUS
<1>1. dump.line \in 0 .. Lines /\ lastLine \in Slot /\ (dump.reader = "web" => dump.line <= Lines - 1)
  BY DEF LogTypeOK, Dumps
<1>2. CASE WebLine
  <2>1. dump.reader = "web" /\ dump.line # Lines - 1
    BY <1>2 DEF WebLine
  <2>2. dump.line \in 0 .. Lines - 1 /\ dump.line < Lines - 1
    BY <1>1, <2>1, LinesNat
  <2>3. FromNewest(dump.line) \in Slot /\ FromOldest(dump.line) \in Slot
    BY <1>1, <2>2, FromNewestAge, FromOldestAge
  <2>4. CASE dump.line = dump.fits
    BY <1>2, <2>1, <2>2, <2>4 DEF WebLine
  <2>5. CASE dump.line # dump.fits
    <3>1. CASE dump.newest
      BY <1>2, <2>1, <2>2, <2>3, <2>5, <3>1 DEF WebLine
    <3>2. CASE ~dump.newest
      BY <1>2, <2>1, <2>2, <2>3, <2>5, <3>2 DEF WebLine
    <3> QED BY <3>1, <3>2
  <2> QED BY <2>4, <2>5
<1>3. CASE TelnetLine
  <2>1. dump.reader = "telnet" /\ dump.line # Lines
    BY <1>3 DEF TelnetLine
  <2>2. dump.line \in 0 .. Lines - 1
    BY <1>1, <2>1, LinesNat
  <2>3. FromOldest(dump.line) \in Slot
    BY <1>1, <2>2, FromOldestAge
  <2> QED BY <1>3, <2>1, <2>2, <2>3 DEF TelnetLine
<1> QED BY <1>2, <1>3

\* Types of a dump that is over, or has one line more.
LEMMA LineType ==
  ASSUME LogTypeOK, WebLine \/ TelnetLine
  PROVE  /\ dump' \in Dumps /\ at' \in [Task -> LogDoing] /\ logReadActive' \in BOOLEAN
         /\ dump'.reader = "web" => dump'.line <= Lines - 1
         /\ \A t \in Task : at'[t] = "fetched" => at[t] = "fetched"
<1>1. NoDump \in Dumps
  BY EmptySeq, LinesNat DEF NoDump, Dumps
<1>2. CASE DumpEnds
  <2>1. dump' \in Dumps /\ dump'.reader = "none"
    BY <1>1, <1>2 DEF DumpEnds, NoDump
  <2>2. at' \in [Task -> LogDoing] /\ \A t \in Task : at'[t] = "fetched" => at[t] = "fetched"
    BY <1>2 DEF LogTypeOK, DumpEnds, LogDoing
  <2>3. logReadActive' \in BOOLEAN
    BY <1>2 DEF LogTypeOK, DumpEnds
  <2> QED BY <2>1, <2>2, <2>3
<1>3. ASSUME NEW entry \in Int, Shows(entry), dump.line <= Lines - 1, dump.reader = "web" => dump.line < Lines - 1
      PROVE  /\ dump' \in Dumps /\ at' \in [Task -> LogDoing] /\ logReadActive' \in BOOLEAN
             /\ dump'.reader = "web" => dump'.line <= Lines - 1
             /\ \A t \in Task : at'[t] = "fetched" => at[t] = "fetched"
  <2>1. Append(dump.shown, entry) \in Seq(Int) /\ dump.line + 1 \in 0 .. Lines
    BY <1>3, AppendProperties, LinesNat DEF LogTypeOK, Dumps
  <2>2. dump' = [dump EXCEPT !.line = dump.line + 1, !.shown = Append(dump.shown, entry)]
    BY <1>3 DEF Shows
  <2>3. dump' \in Dumps /\ dump'.reader = dump.reader /\ dump'.line = dump.line + 1
    BY <2>1, <2>2 DEF LogTypeOK, Dumps
  <2>4. dump'.reader = "web" => dump'.line <= Lines - 1
    BY <1>3, <2>3, LinesNat DEF LogTypeOK, Dumps
  <2> QED BY <1>3, <2>3, <2>4 DEF LogTypeOK, Shows
<1>4. NotShown \in Int /\ \A s \in Slot : buffer[s] \in Int
  BY DEF LogTypeOK, NotShown
<1>5. CASE ~DumpEnds
  <2>1. /\ dump.line <= Lines - 1 /\ (dump.reader = "web" => dump.line < Lines - 1)
        /\ \E entry \in Int : Shows(entry)
    BY <1>4, <1>5, LineStep
  <2> QED BY <2>1, <1>3
<1> QED BY <1>2, <1>5

LEMMA LogType == LogTypeOK /\ [LogNext]_logVars => LogTypeOK'
<1> SUFFICES ASSUME LogTypeOK, [LogNext]_logVars PROVE LogTypeOK'
  OBVIOUS
<1> USE LinesNat
<1>0. LoopTask \in Task
  BY DEF Task
<1>1. ASSUME NEW t \in Task, Write(t) PROVE LogTypeOK'
  <2>1. buffer' \in [Slot -> Int] /\ at' \in [Task -> LogDoing]
    BY <1>1 DEF LogTypeOK, Write, LogDoing
  <2>2. alone' \in [Task -> BOOLEAN] /\ upset' \in 0 .. Lines
    BY <1>1, BeginsType DEF Write
  <2>3. dump' \in Dumps /\ (dump'.reader = "web" => dump'.line <= Lines - 1)
    BY <1>1 DEF LogTypeOK, Write, Disturbed, Dumps
  <2>4. \A u \in Task : at'[u] = "fetched" => slot'[u] \in Slot
    BY <1>1 DEF LogTypeOK, Write
  <2>5. messages' \in Nat /\ cleared' \in 0 .. messages'
    BY <1>1 DEF LogTypeOK, Write
  <2>6. /\ lastLine' = lastLine /\ slot' = slot /\ newest' = newest /\ logReadActive' = logReadActive
    BY <1>1 DEF Write, page
  <2> QED BY <2>1, <2>2, <2>3, <2>4, <2>5, <2>6 DEF LogTypeOK
<1>2. ASSUME NEW t \in Task, Fetch(t) PROVE LogTypeOK'
  <2>1. After(lastLine) \in 0 .. Lines /\ After(lastLine) \in Slot
    BY AfterIs DEF LogTypeOK, Slot
  <2>2. at' \in [Task -> LogDoing] /\ slot' \in [Task -> 0 .. Lines]
    BY <1>2, <2>1 DEF LogTypeOK, Fetch, LogDoing
  <2>3. \A u \in Task : at'[u] = "fetched" => slot'[u] \in Slot
    BY <1>2, <2>1 DEF LogTypeOK, Fetch
  <2> QED BY <1>2, <2>2, <2>3 DEF LogTypeOK, Fetch, page
<1>3. ASSUME NEW t \in Task, Finishes(t)
      PROVE  /\ at' \in [Task -> LogDoing] /\ slot' \in [Task -> 0 .. Lines] /\ alone' \in [Task -> BOOLEAN]
             /\ \A u \in Task : at'[u] = "fetched" => slot'[u] \in Slot
  BY <1>3 DEF LogTypeOK, Finishes, LogDoing
<1>4. ASSUME NEW t \in Task, StoreNext(t) PROVE LogTypeOK'
  <2>1. lastLine' \in Slot
    BY <1>4 DEF StoreNext, LogTypeOK
  <2>2. upset' \in 0 .. Lines
    BY <1>4 DEF LogTypeOK, StoreNext
  <2> QED BY <1>3, <1>4, <2>1, <2>2 DEF LogTypeOK, StoreNext, page
<1>5. CASE BeginClear
  <2>1. alone' \in [Task -> BOOLEAN] /\ upset' \in 0 .. Lines
    BY <1>0, <1>5, BeginsType DEF BeginClear
  <2>2. at' \in [Task -> LogDoing] /\ slot' \in [Task -> 0 .. Lines] /\ lastLine' \in Slot
    BY <1>0, <1>5 DEF LogTypeOK, BeginClear, LogDoing, Slot
  <2>3. \A u \in Task : at'[u] = "fetched" => slot'[u] \in Slot
    BY <1>0, <1>5 DEF LogTypeOK, BeginClear
  <2> QED BY <1>5, <2>1, <2>2, <2>3 DEF LogTypeOK, BeginClear, page
<1>6. CASE ClearLine
  <2>1. buffer' \in [Slot -> Int]
    <3>1. Empty \in Int
      BY DEF Empty
    <3> QED BY <1>6, <3>1, Zenon DEF LogTypeOK, ClearLine
  <2>2. slot' \in [Task -> 0 .. Lines] /\ \A u \in Task : at'[u] = "fetched" => slot'[u] \in Slot
    BY <1>0, <1>6 DEF LogTypeOK, ClearLine
  <2> QED BY <1>6, <2>1, <2>2 DEF LogTypeOK, ClearLine, page
<1>7. CASE EndClear
  <2>1. upset' \in 0 .. Lines
    BY <1>7 DEF LogTypeOK, EndClear
  <2> QED BY <1>0, <1>3, <1>7, <2>1 DEF LogTypeOK, EndClear, page
<1>8. CASE AskForLog
  BY <1>8 DEF LogTypeOK, AskForLog
<1>9. ASSUME NEW reader \in {"web", "telnet"}, BeginDump(reader) PROVE LogTypeOK'
  <2>1. at' \in [Task -> LogDoing] /\ \A u \in Task : at'[u] = "fetched" => at[u] = "fetched"
    BY <1>9 DEF LogTypeOK, BeginDump, LogDoing
  <2>2. PICK fits \in IF reader = "web" THEN FewestFit .. Lines ELSE {Lines} :
          dump' = [reader |-> reader, newest |-> newest, line |-> 0, fits |-> fits, shown |-> <<>>,
                   calm |-> Writing = {}, sound |-> upset = 0, from |-> messages - Cardinality(Writing)]
    BY <1>9 DEF BeginDump
  <2>3. fits \in Nat /\ messages - Cardinality(Writing) \in Int /\ <<>> \in Seq(Int)
    BY LinesAssumption, WritingIsFinite, EmptySeq DEF LogTypeOK
  <2>4. (Writing = {}) \in BOOLEAN /\ (upset = 0) \in BOOLEAN /\ newest \in BOOLEAN
    BY DEF LogTypeOK
  <2>5. dump' \in Dumps /\ dump'.line = 0
    BY <2>2, <2>3, <2>4 DEF Dumps
  <2> QED BY <1>9, <2>1, <2>5 DEF LogTypeOK, BeginDump, page
<1>10. CASE WebLine \/ TelnetLine
  <2>1. /\ UNCHANGED <<buffer, lastLine, newest, slot, alone, messages, cleared, upset>>
    BY <1>10 DEF WebLine, TelnetLine
  <2> QED BY <1>10, <2>1, LineType DEF LogTypeOK
<1>12. CASE UNCHANGED logVars
  BY <1>12 DEF LogTypeOK, logVars, page
<1> QED BY <1>1, <1>2, <1>4, <1>5, <1>6, <1>7, <1>8, <1>9, <1>10, <1>12 DEF LogNext

\* When nobody is at the ring, whoever begins is alone; else all of them are not.
LEMMA Beginning ==
  ASSUME LogTypeOK, Writers, NEW t \in Task, t \notin Writing, Begins(t),
         \A u \in Task : u \in Writing' <=> u \in Writing \/ u = t
  PROVE  /\ \A u \in Task : alone'[u] \/ u \in Writing'
         /\ \A u \in Writing' : IF alone'[u] THEN Writing' = {u} ELSE upset' = Lines
         /\ Writing = {} => alone' = alone /\ upset' = upset /\ alone[t]
         /\ Writing # {} => ~Orderly' /\ \A u \in Writing' : ~alone'[u]
<1>0. Writing \subseteq Task /\ Writing' \subseteq Task
  BY DEF Writing
<1>1. CASE Writing = {}
  <2>1. alone' = alone /\ upset' = upset /\ alone[t] /\ Writing' = {t}
    BY <1>0, <1>1 DEF Begins, Writers
  <2>2. \A u \in Task : alone'[u]
    BY <1>1, <2>1 DEF Writers
  <2> QED BY <1>1, <2>1, <2>2
<1>2. CASE Writing # {}
  <2>1. alone' = [u \in Task |-> alone[u] /\ u \notin Writing \cup {t}] /\ upset' = Lines
    BY <1>2 DEF Begins
  <2>2. \A u \in Task : alone'[u] = (alone[u] /\ u \notin Writing \cup {t})
    BY <2>1
  <2>3. \A u \in Writing' : ~alone'[u]
    BY <1>0, <2>2
  <2>4. \A u \in Task : alone'[u] \/ u \in Writing'
    BY <2>2 DEF Writers
  <2>5. \E u \in Writing' : TRUE
    BY <1>0
  <2> QED BY <1>2, <2>1, <2>3, <2>4, <2>5 DEF Orderly
<1> QED BY <1>1, <1>2

\* Whoever is through leaves the others as they are.
LEMMA Finishing ==
  ASSUME LogTypeOK, Writers, NEW t \in Task, t \in Writing, Finishes(t)
  PROVE  /\ Writing' = Writing \ {t}
         /\ \A u \in Task \ {t} : at'[u] = at[u] /\ slot'[u] = slot[u] /\ alone'[u] = alone[u]
         /\ at'[t] = "idle" /\ alone'[t] = TRUE
         /\ \A u \in Task : alone'[u] \/ u \in Writing'
         /\ alone[t] => Writing' = {}
         /\ ~alone[t] => \A u \in Writing : ~alone[u]
<1>1. /\ \A u \in Task \ {t} : at'[u] = at[u] /\ slot'[u] = slot[u] /\ alone'[u] = alone[u]
      /\ at'[t] = "idle" /\ alone'[t] = TRUE
  BY DEF LogTypeOK, Finishes
<1>2. Writing' = Writing \ {t}
  BY <1>1 DEF Writing
<1>3. \A u \in Task : alone'[u] \/ u \in Writing'
  BY <1>1, <1>2 DEF Writers
<1>4. alone[t] => Writing = {t}
  BY DEF Writers
<1>5. ASSUME ~alone[t], NEW u \in Writing, alone[u] PROVE FALSE
  <2>1. Writing = {u}
    BY <1>5 DEF Writers
  <2> QED BY <1>5, <2>1
<1> QED BY <1>1, <1>2, <1>3, <1>4, <1>5

\* A message is written into its slot.
LEMMA WriteStep == \A t \in Task : LogInv /\ LogTypeOK' /\ Write(t) => LogInv'
<1> SUFFICES ASSUME LogInv, LogTypeOK', NEW t \in Task, Write(t) PROVE LogInv'
  OBVIOUS
<1>1. /\ at[t] = "idle" /\ buffer' = [buffer EXCEPT ![lastLine] = messages + 1]
      /\ at' = [at EXCEPT ![t] = "wrote"] /\ messages' = messages + 1 /\ Begins(t) /\ dump' = Disturbed
      /\ lastLine' = lastLine /\ slot' = slot /\ cleared' = cleared /\ newest' = newest
  BY DEF Write, page
<1>2. /\ at'[t] = "wrote" /\ \A u \in Task \ {t} : at'[u] = at[u]
  BY <1>1 DEF LogInv, LogTypeOK
<1>3. \A u \in Task : u \in Writing' <=> u \in Writing \/ u = t
  BY <1>2 DEF Writing
<1>4. t \notin Writing
  BY <1>1 DEF Writing
<1>5. /\ \A u \in Task : alone'[u] \/ u \in Writing'
      /\ \A u \in Writing' : IF alone'[u] THEN Writing' = {u} ELSE upset' = Lines
      /\ Writing = {} => alone' = alone /\ upset' = upset /\ alone[t]
      /\ Writing # {} => ~Orderly' /\ \A u \in Writing' : ~alone'[u]
  BY <1>1, <1>3, <1>4, Beginning DEF LogInv
<1>6. LoopTask \in Task /\ lastLine \in Slot /\ messages \in Nat /\ cleared \in 0 .. messages /\ upset \in 0 .. Lines
  BY DEF Task, LogInv, LogTypeOK
<1>7. Writers'
  <2>1. \A u \in OtherTasks : at'[u] \notin {"clearing", "dumping"}
    BY <1>2 DEF LogInv, Writers, Task
  <2>2. ASSUME NEW u \in Task, at'[u] = "fetched", alone'[u] PROVE slot'[u] = After(lastLine)'
    <3>1. u # t /\ at[u] = "fetched"
      BY <1>2, <2>2
    <3>2. u \in Writing /\ u \in Writing'
      BY <1>3, <3>1 DEF Writing
    <3> QED BY <1>5, <2>2, <3>2
  <2> QED BY <1>5, <2>1, <2>2 DEF Writers
<1>8. /\ dump = NoDump => dump' = NoDump
      /\ dump # NoDump => /\ dump'.reader = dump.reader /\ dump'.newest = dump.newest /\ dump'.line = dump.line
                          /\ dump'.fits = dump.fits /\ dump'.shown = dump.shown /\ dump'.from = dump.from
                          /\ dump'.calm = FALSE /\ dump'.sound = (dump.sound /\ Writing = {})
  BY <1>1 DEF Disturbed, LogInv, LogTypeOK, Dumps
<1>9. /\ dump'.reader = dump.reader /\ NoDump.reader = "none"
      /\ dump.reader # "none" => dump # NoDump
      /\ dump.reader = "none" => dump' = NoDump
  <2>1. NoDump.reader = "none"
    BY DEF NoDump
  <2> QED BY <1>8, <2>1 DEF LogInv, Dumping
<1>12. dump'.line = Len(dump'.shown)
  BY <1>8 DEF LogInv, Dumping
<1>10. CASE Writing = {}
  <2>1. ~InSlot /\ InSlot' /\ Stored = messages /\ Stored' = messages /\ Orderly /\ at[LoopTask] # "clearing"
    BY <1>2, <1>6, <1>10, <1>1 DEF InSlot, Stored, Writing, Orderly
  <2>2. Ring'
    <3>1. \A s \in Slot : Age(s)' = Age(s)
      BY <1>1 DEF Age
    <3>2. \A s \in Slot : Passed(s)' => Passed(s) /\ buffer'[s] = buffer[s]
      BY <1>1, <2>1 DEF Passed, LogInv, LogTypeOK
    <3>3. buffer'[lastLine'] = messages'
      BY <1>1, <1>6 DEF LogInv, LogTypeOK
    <3>4. /\ upset = 0 =>
               /\ \A s \in Slot : Passed(s) =>
                    buffer[s] = IF Age(s) < Stored - cleared THEN Stored - Age(s) ELSE Empty
               /\ Stored - cleared < Lines => lastLine = Stored - cleared
          /\ \A s \in Slot : Passed(s) /\ upset > 0 /\ Age(s) < Lines - upset => buffer[s] = Stored - Age(s)
          /\ upset > 0 => Stored - cleared >= Lines - upset
          /\ Stored >= cleared
      BY <2>1 DEF LogInv, Ring
    <3> QED BY <1>1, <1>5, <1>10, <2>1, <3>1, <3>2, <3>3, <3>4 DEF Ring
  <2>3. Clearing'
    BY <1>2, <1>10, <1>6 DEF Clearing, Writing
  <2>4. Dumping'
    <3>1. at'[LoopTask] = "dumping" <=> dump'.reader # "none"
      BY <1>1, <1>2, <1>6, <1>9 DEF LogInv, Dumping
    <3>2. dump'.reader # "none" /\ dump'.sound => upset' = 0
      BY <1>5, <1>8, <1>9, <1>10 DEF LogInv, Dumping
    <3> QED BY <1>8, <1>9, <1>12, <3>1, <3>2 DEF Dumping
  <2>5. FromNewestOn'
    <3>1. CASE dump'.reader = "web" /\ dump'.newest /\ dump'.sound
      <4>1. dump # NoDump /\ dump.reader = "web" /\ dump.newest /\ dump.sound
        BY <1>8, <1>9, <3>1
      <4>2. FromNewestOn
        BY DEF LogInv
      <4>3. messages' = messages + 1 /\ dump.shown \in Seq(Int) /\ dump.line \in Nat /\ dump.line = Len(dump.shown)
        BY <1>1 DEF LogInv, LogTypeOK, Dumps, Dumping
      <4>4. /\ dump'.shown = dump.shown /\ dump'.line = dump.line /\ dump'.fits = dump.fits
            /\ dump'.from = dump.from /\ Stored' = Stored
        BY <1>8, <2>1, <4>1
      <4>5. \A i \in 1 .. dump.line : dump.shown[i] \in Int
        BY <4>3
      <4>6. \A i \in 1 .. dump.line - 1 :
              dump.shown[i + 1] \in {NotShown} \cup (dump.shown[i] - 1 .. messages + 1)
        <5> SUFFICES ASSUME NEW i \in 1 .. dump.line - 1, dump.shown[i + 1] # NotShown
                     PROVE  dump.shown[i + 1] \in dump.shown[i] - 1 .. messages + 1
          OBVIOUS
        <5>1. dump.shown[i + 1] \in dump.shown[i] - 1 .. messages
          BY <4>1, <4>2 DEF FromNewestOn
        <5> QED BY <1>6, <5>1
      <4> QED BY <4>1, <4>2, <4>3, <4>4, <4>6 DEF FromNewestOn
    <3> QED BY <3>1 DEF FromNewestOn
  <2>6. CalmLines'
    BY <1>8, <1>9 DEF CalmLines
  <2> QED BY <1>7, <2>2, <2>3, <2>4, <2>5, <2>6 DEF LogInv
<1>11. CASE Writing # {}
  <2>1. Ring'
    BY <1>5, <1>11 DEF Ring
  <2>2. Clearing'
    <3>1. at'[LoopTask] = "clearing" => LoopTask \in Writing'
      BY <1>6 DEF Writing
    <3> QED BY <1>5, <1>11, <3>1 DEF Clearing
  <2>3. Dumping'
    <3>1. at'[LoopTask] = "dumping" <=> dump'.reader # "none"
      BY <1>1, <1>2, <1>6, <1>9 DEF LogInv, Dumping
    <3> QED BY <1>8, <1>9, <1>11, <1>12, <3>1 DEF Dumping
  <2>4. FromNewestOn' /\ CalmLines'
    <3>1. dump'.reader # "none" => ~dump'.sound /\ ~dump'.calm
      BY <1>8, <1>9, <1>11
    <3> QED BY <3>1 DEF FromNewestOn, CalmLines
  <2> QED BY <1>7, <2>1, <2>2, <2>3, <2>4 DEF LogInv
<1> QED BY <1>10, <1>11

\* Of a ring that has been mixed up, nothing is asked.
LEMMA MixedRing ==
  ASSUME LogTypeOK', upset' = Lines, Orderly' => Writing' = {}
  PROVE  Ring'
<1>1. PICK l \in 0 .. Lines - 1 : l = lastLine'
  BY DEF LogTypeOK, Slot
<1>2. \A s \in Slot : Age(s)' \in Nat
  <2> SUFFICES ASSUME NEW s \in 0 .. Lines - 1 PROVE Age(s)' \in Nat
    BY DEF Slot
  <2>1. Age(s)' = IF s < l THEN l - 1 - s ELSE l - 1 - s + Lines
    BY <1>1 DEF Age
  <2> QED BY <2>1, LinesNat
<1>3. \A s \in Slot : ~(Age(s)' < Lines - upset')
  <2> SUFFICES ASSUME NEW s \in Slot PROVE ~(Age(s)' < Lines - upset')
    OBVIOUS
  <2>1. PICK a \in Nat : a = Age(s)'
    BY <1>2
  <2>2. Lines - upset' = 0
    BY LinesNat
  <2> QED BY <2>1, <2>2
<1>4. upset' > 0 /\ Lines - upset' = 0 /\ messages' >= cleared'
  BY LinesNat DEF LogTypeOK
<1>5. Writing' = {} => ~InSlot' /\ Stored' = messages'
  BY DEF Writing, InSlot, Stored
<1>6. messages' - cleared' >= 0
  <2>1. PICK m \in Nat : m = messages'
    BY DEF LogTypeOK
  <2>2. PICK c \in 0 .. m : c = cleared'
    BY <2>1 DEF LogTypeOK
  <2>3. m - c >= 0
    OBVIOUS
  <2> QED BY <2>1, <2>2, <2>3, Zenon
<1> QED BY <1>3, <1>4, <1>5, <1>6 DEF Ring

\* What a dump has shown stays right while its messages are passed on.
LEMMA FromNewestRests ==
  ASSUME LogInv, dump' = dump, messages' = messages, Stored <= Stored'
  PROVE  FromNewestOn'
<1>1. CASE dump.reader = "web" /\ dump.newest /\ dump.sound
  <2>1. /\ dump.from \in Int /\ dump.line \in Nat /\ \A i \in 1 .. dump.line : dump.shown[i] \in Int
        /\ Stored \in Int /\ Stored' \in Int
    BY DEF LogInv, LogTypeOK, Dumps, Dumping, Stored
  <2>2. /\ dump.from <= Stored
        /\ \A i \in 1 .. dump.line : i <= dump.fits => dump.shown[i] <= Stored - (i - 1)
    BY <1>1 DEF LogInv, FromNewestOn
  <2>3. dump.from <= Stored'
    BY <2>1, <2>2
  <2>4. \A i \in 1 .. dump.line : i <= dump.fits => dump.shown[i] <= Stored' - (i - 1)
    BY <2>1, <2>2
  <2> QED BY <1>1, <2>3, <2>4 DEF LogInv, FromNewestOn
<1> QED BY <1>1 DEF FromNewestOn

\* The next slot is computed.
LEMMA FetchStep == \A t \in Task : LogInv /\ LogTypeOK' /\ Fetch(t) => LogInv'
<1> SUFFICES ASSUME LogInv, LogTypeOK', NEW t \in Task, Fetch(t) PROVE LogInv'
  OBVIOUS
<1>1. /\ at[t] = "wrote" /\ slot' = [slot EXCEPT ![t] = After(lastLine)] /\ at' = [at EXCEPT ![t] = "fetched"]
      /\ buffer' = buffer /\ lastLine' = lastLine /\ alone' = alone /\ dump' = dump
      /\ messages' = messages /\ cleared' = cleared /\ upset' = upset
  BY DEF Fetch
<1>2. /\ at'[t] = "fetched" /\ slot'[t] = After(lastLine)
      /\ \A u \in Task \ {t} : at'[u] = at[u] /\ slot'[u] = slot[u]
  BY <1>1 DEF LogInv, LogTypeOK
<1>3. Writing' = Writing
  BY <1>1, <1>2 DEF Writing
<1>4. LoopTask \in Task /\ messages \in Nat
  BY DEF Task, LogInv, LogTypeOK
<1>5. InSlot' /\ InSlot /\ Stored' = Stored
  BY <1>1, <1>2 DEF InSlot, Stored
<1>6. Writers'
  <2>1. \A u \in OtherTasks : at'[u] \notin {"clearing", "dumping"}
    BY <1>2 DEF LogInv, Writers, Task
  <2>2. \A u \in Task : at'[u] = "fetched" /\ alone'[u] => slot'[u] = After(lastLine)'
    BY <1>1, <1>2 DEF LogInv, Writers, After
  <2> QED BY <1>1, <1>3, <2>1, <2>2 DEF LogInv, Writers
<1>7. at'[LoopTask] \in {"clearing", "dumping"} \/ at[LoopTask] \in {"clearing", "dumping"}
        => at'[LoopTask] = at[LoopTask] /\ slot'[LoopTask] = slot[LoopTask]
  BY <1>1, <1>2, <1>4
<1>8. Ring'
  <2>1. \A s \in Slot : Age(s)' = Age(s) /\ (Passed(s)' <=> Passed(s))
    BY <1>1, <1>5 DEF Age, Passed
  <2>2. (Orderly' <=> Orderly) /\ (at[LoopTask] = "clearing" => at'[LoopTask] = "clearing")
    BY <1>1, <1>3, <1>7 DEF Orderly
  <2> QED BY <1>1, <1>5, <2>1, <2>2 DEF LogInv, Ring
<1>9. Clearing'
  BY <1>1, <1>7 DEF LogInv, Clearing
<1>10. Dumping'
  BY <1>1, <1>3, <1>7 DEF LogInv, Dumping
<1>11. FromNewestOn'
  BY <1>1, <1>4, <1>5, FromNewestRests DEF Stored
<1>12. CalmLines'
  <2>1. t \in Writing
    BY <1>1 DEF Writing
  <2>2. ~(dump.reader # "none" /\ dump.calm)
    BY <2>1 DEF LogInv, Dumping
  <2> QED BY <1>1, <2>2 DEF CalmLines
<1> QED BY <1>6, <1>8, <1>9, <1>10, <1>11, <1>12 DEF LogInv

\* A message is passed on: every other is one older.
LEMMA StoreStep == \A t \in Task : LogInv /\ LogTypeOK' /\ StoreNext(t) => LogInv'
<1> SUFFICES ASSUME LogInv, LogTypeOK', NEW t \in Task, StoreNext(t) PROVE LogInv'
  OBVIOUS
<1>1. /\ at[t] = "fetched" /\ lastLine' = slot[t] /\ Finishes(t)
      /\ upset' = (IF alone[t] /\ upset > 0 THEN upset - 1 ELSE upset)
      /\ buffer' = buffer /\ dump' = dump /\ messages' = messages /\ cleared' = cleared
  BY DEF StoreNext
<1>2. t \in Writing
  BY <1>1 DEF Writing
<1>3. /\ Writing' = Writing \ {t}
      /\ \A u \in Task \ {t} : at'[u] = at[u] /\ slot'[u] = slot[u] /\ alone'[u] = alone[u]
      /\ at'[t] = "idle" /\ alone'[t] = TRUE
      /\ \A u \in Task : alone'[u] \/ u \in Writing'
      /\ alone[t] => Writing' = {}
      /\ ~alone[t] => \A u \in Writing : ~alone[u]
  BY <1>1, <1>2, Finishing DEF LogInv
<1>4. LoopTask \in Task /\ messages \in Nat /\ lastLine \in Slot /\ upset \in 0 .. Lines /\ cleared \in 0 .. messages
  BY DEF Task, LogInv, LogTypeOK
<1>5. Writing \subseteq Task /\ Writing' \subseteq Task
  BY DEF Writing
<1>6. ~alone[t] => upset = Lines /\ upset' = Lines
  BY <1>1, <1>2 DEF LogInv, Writers
<1>7. Writers'
  <2>1. \A u \in OtherTasks : at'[u] \notin {"clearing", "dumping"}
    BY <1>3 DEF LogInv, Writers, Task
  <2>2. ASSUME NEW u \in Writing' PROVE ~alone'[u] /\ upset' = Lines
    <3>1. u # t /\ u \in Writing /\ ~alone[t]
      BY <1>3, <2>2
    <3> QED BY <1>3, <1>5, <1>6, <3>1
  <2>3. ASSUME NEW u \in Task, at'[u] = "fetched", alone'[u] PROVE FALSE
    <3>1. u \in Writing'
      BY <2>3 DEF Writing
    <3> QED BY <2>2, <2>3, <3>1
  <2> QED BY <1>3, <2>1, <2>2, <2>3 DEF Writers
<1>8. at'[LoopTask] \in {"clearing", "dumping"} \/ at[LoopTask] \in {"clearing", "dumping"}
        => LoopTask # t /\ at'[LoopTask] = at[LoopTask] /\ slot'[LoopTask] = slot[LoopTask]
  BY <1>1, <1>3, <1>4
<1>9. InSlot /\ Stored = messages - 1 /\ Stored <= Stored'
  BY <1>1, <1>4 DEF InSlot, Stored
<1>10. Ring'
  <2>1. CASE alone[t]
    <3>1. Writing = {t} /\ Orderly /\ at[LoopTask] # "clearing"
      <4>1. Writing = {t}
        BY <1>2, <2>1 DEF LogInv, Writers
      <4>2. at[LoopTask] = "clearing" => LoopTask \in Writing
        BY <1>4 DEF Writing
      <4> QED BY <1>1, <2>1, <4>1, <4>2 DEF Orderly
    <3>2. ~InSlot' /\ Stored' = messages
      <4>1. \A u \in Task : at'[u] \notin {"wrote", "fetched"}
        BY <1>3, <2>1 DEF Writing
      <4> QED BY <1>1, <4>1 DEF InSlot, Stored
    <3>3. lastLine' = IF lastLine = Lines - 1 THEN 0 ELSE lastLine + 1
      BY <1>1, <1>4, <2>1, AfterIs DEF LogInv, Writers
    <3>4. \A s \in Slot : Age(s)' = IF s = lastLine THEN 0 ELSE Age(s) + 1
      BY <1>4, <3>3, LinesNat DEF Age, Slot
    <3>5. \A s \in Slot : Age(s) \in 0 .. Lines - 1
      BY <1>4, Ages
    <3>6. /\ upset = 0 =>
               /\ \A s \in Slot : Passed(s) =>
                    buffer[s] = IF Age(s) < Stored - cleared THEN Stored - Age(s) ELSE Empty
               /\ Stored - cleared < Lines => lastLine = Stored - cleared
          /\ \A s \in Slot : Passed(s) /\ upset > 0 /\ Age(s) < Lines - upset => buffer[s] = Stored - Age(s)
          /\ upset > 0 => Stored - cleared >= Lines - upset
          /\ Stored >= cleared
          /\ buffer[lastLine] = messages
      BY <1>9, <3>1 DEF LogInv, Ring
    <3>7. \A s \in Slot : s # lastLine => Passed(s)
      BY DEF Passed
    <3>8. upset' = 0 => \A s \in Slot :
             buffer[s] = IF Age(s)' < messages - cleared THEN messages - Age(s)' ELSE Empty
      <4> SUFFICES ASSUME upset' = 0, NEW s \in Slot
                   PROVE  buffer[s] = IF Age(s)' < messages - cleared THEN messages - Age(s)' ELSE Empty
        OBVIOUS
      <4>1. CASE s = lastLine
        BY <1>4, <1>9, <3>4, <3>6, <4>1
      <4>2. CASE s # lastLine
        <5>1. Age(s)' = Age(s) + 1 /\ Age(s) \in 0 .. Lines - 1 /\ Passed(s) /\ Age(s) # Lines - 1
          BY <1>4, <3>4, <3>5, <3>7, <4>2, Ages
        <5>2. CASE upset = 0
          BY <1>4, <1>9, <3>6, <5>1, <5>2
        <5>3. CASE upset # 0
          <6>1. upset = 1 /\ Age(s) < Lines - 1 /\ Stored - cleared >= Lines - 1
            BY <1>1, <1>4, <2>1, <3>6, <5>1, <5>3, LinesNat
          <6>2. buffer[s] = Stored - Age(s)
            BY <3>6, <5>1, <6>1
          <6>3. messages - cleared >= Lines /\ Age(s) + 1 < Lines
            BY <1>4, <1>9, <5>1, <6>1, LinesNat
          <6>4. Age(s)' < messages - cleared
            BY <1>4, <5>1, <6>3, LinesNat
          <6> QED BY <1>4, <1>9, <5>1, <6>2, <6>4
        <5> QED BY <5>2, <5>3
      <4> QED BY <4>1, <4>2
    <3>9. upset' = 0 /\ messages - cleared < Lines => lastLine' = messages - cleared
      <4>1. upset # 0 /\ upset' = 0 => Stored - cleared >= Lines - 1
        BY <1>1, <1>4, <2>1, <3>6
      <4>2. upset = 0 /\ messages - cleared < Lines => lastLine = messages - 1 - cleared
        BY <1>4, <1>9, <3>6, LinesNat
      <4> QED BY <1>1, <1>4, <1>9, <3>3, <4>1, <4>2, LinesNat
    <3>10. \A s \in Slot : upset' > 0 /\ Age(s)' < Lines - upset' => buffer[s] = messages - Age(s)'
      <4> SUFFICES ASSUME NEW s \in Slot, upset' > 0, Age(s)' < Lines - upset'
                   PROVE  buffer[s] = messages - Age(s)'
        OBVIOUS
      <4>0. upset > 0 /\ upset' = upset - 1
        BY <1>1, <1>4, <2>1
      <4>1. CASE s = lastLine
        BY <1>4, <3>4, <3>6, <4>1
      <4>2. CASE s # lastLine
        <5>1. Age(s)' = Age(s) + 1 /\ Age(s) \in 0 .. Lines - 1 /\ Passed(s)
          BY <3>4, <3>5, <3>7, <4>2
        <5>2. Age(s) < Lines - upset
          BY <1>4, <4>0, <5>1, LinesNat
        <5> QED BY <1>4, <1>9, <3>6, <4>0, <5>1, <5>2
      <4> QED BY <4>1, <4>2
    <3>11. upset' > 0 => messages - cleared >= Lines - upset'
      BY <1>1, <1>4, <1>9, <2>1, <3>6, LinesNat
    <3> QED BY <1>1, <1>4, <3>2, <3>8, <3>9, <3>10, <3>11 DEF Ring
  <2>2. CASE ~alone[t]
    <3>1. Orderly' => Writing' = {}
      BY <1>3, <1>5, <2>2 DEF Orderly
    <3> QED BY <1>6, <2>2, <3>1, MixedRing
  <2> QED BY <2>1, <2>2
<1>11. Clearing'
  <2>1. at'[LoopTask] = "clearing" => ~alone'[LoopTask]
    <3>1. at'[LoopTask] = "clearing" => LoopTask \in Writing' /\ LoopTask # t
      BY <1>4, <1>8 DEF Writing
    <3>2. LoopTask \in Writing' => ~alone[t] /\ LoopTask \in Writing
      BY <1>3
    <3> QED BY <1>3, <1>4, <3>1, <3>2
  <2> QED BY <2>1 DEF Clearing
<1>12. Dumping'
  <2>1. upset = 0 => upset' = 0
    BY <1>1
  <2> QED BY <1>1, <1>3, <1>8, <2>1 DEF LogInv, Dumping
<1>13. FromNewestOn'
  BY <1>1, <1>9, FromNewestRests
<1>14. CalmLines'
  <2>1. ~(dump.reader # "none" /\ dump.calm)
    BY <1>2 DEF LogInv, Dumping
  <2> QED BY <1>1, <2>1 DEF CalmLines
<1> QED BY <1>7, <1>10, <1>11, <1>12, <1>13, <1>14 DEF LogInv

\* A clear empties the ring slot by slot.
LEMMA ClearStep == LogInv /\ LogTypeOK' /\ (BeginClear \/ ClearLine \/ EndClear) => LogInv'
<1> SUFFICES ASSUME LogInv, LogTypeOK', BeginClear \/ ClearLine \/ EndClear PROVE LogInv'
  OBVIOUS
<1>0. LoopTask \in Task /\ messages \in Nat /\ at \in [Task -> LogDoing] /\ slot \in [Task -> 0 .. Lines]
  BY DEF Task, LogInv, LogTypeOK
<1>1. dump' = dump /\ dump.reader = "none" /\ at'[LoopTask] # "dumping"
  <2>1. at[LoopTask] # "dumping" /\ dump' = dump /\ at'[LoopTask] # "dumping"
    BY <1>0 DEF BeginClear, ClearLine, EndClear, Finishes
  <2> QED BY <2>1 DEF LogInv, Dumping
<1>2. Dumping' /\ FromNewestOn' /\ CalmLines'
  BY <1>1 DEF LogInv, Dumping, FromNewestOn, CalmLines
<1>3. CASE BeginClear
  <2>1. /\ at[LoopTask] = "idle" /\ lastLine' = 0 /\ at' = [at EXCEPT ![LoopTask] = "clearing"]
        /\ slot' = [slot EXCEPT ![LoopTask] = 0] /\ cleared' = messages /\ Begins(LoopTask)
        /\ buffer' = buffer /\ messages' = messages
    BY <1>3 DEF BeginClear
  <2>2. /\ at'[LoopTask] = "clearing" /\ slot'[LoopTask] = 0
        /\ \A u \in Task \ {LoopTask} : at'[u] = at[u] /\ slot'[u] = slot[u]
    BY <1>0, <2>1
  <2>3. \A u \in Task : u \in Writing' <=> u \in Writing \/ u = LoopTask
    BY <2>2 DEF Writing
  <2>4. /\ \A u \in Task : alone'[u] \/ u \in Writing'
        /\ \A u \in Writing' : IF alone'[u] THEN Writing' = {u} ELSE upset' = Lines
    <3>1. LoopTask \notin Writing
      BY <2>1 DEF Writing
    <3> QED BY <1>0, <2>1, <2>3, <3>1, Beginning DEF LogInv
  <2>5. Writers'
    <3>1. \A u \in OtherTasks : at'[u] \notin {"clearing", "dumping"}
      BY <2>2, LinesAssumption DEF LogInv, Writers, Task
    <3>2. ASSUME NEW u \in Task, at'[u] = "fetched", alone'[u] PROVE FALSE
      <4>1. u # LoopTask /\ u \in Writing' /\ LoopTask \in Writing'
        BY <1>0, <2>2, <3>2 DEF Writing
      <4> QED BY <2>4, <3>2, <4>1
    <3> QED BY <2>4, <3>1, <3>2 DEF Writers
  <2>6. Clearing'
    <3>1. \A s \in Slot : ~(s < 0)
      BY LinesNat DEF Slot
    <3> QED BY <2>1, <2>2, <3>1 DEF Clearing
  <2>7. Ring'
    BY <2>2 DEF Ring
  <2> QED BY <1>2, <2>5, <2>6, <2>7 DEF LogInv
<1>4. CASE ClearLine
  <2>1. /\ at[LoopTask] = "clearing" /\ buffer' = [buffer EXCEPT ![slot[LoopTask]] = Empty]
        /\ slot' = [slot EXCEPT ![LoopTask] = slot[LoopTask] + 1]
        /\ lastLine' = lastLine /\ at' = at /\ alone' = alone /\ messages' = messages
        /\ cleared' = cleared /\ upset' = upset
    BY <1>4 DEF ClearLine
  <2>2. Writing' = Writing
    BY <2>1 DEF Writing
  <2>3. Writers'
    <3>1. \A u \in Task : at[u] = "fetched" => slot'[u] = slot[u]
      BY <1>0, <2>1
    <3> QED BY <2>1, <2>2, <3>1 DEF LogInv, Writers, After
  <2>4. Clearing'
    <3>1. PICK n \in 0 .. Lines : n = slot[LoopTask] /\ slot'[LoopTask] = n + 1
      BY <1>0, <2>1
    <3>2. \A s \in Slot : buffer'[s] = IF s = n THEN Empty ELSE buffer[s]
      BY <2>1, <3>1 DEF LogInv, LogTypeOK
    <3>3. \A s \in Slot : s < n + 1 => s = n \/ s < n
      BY <3>1, LinesNat DEF Slot
    <3> QED BY <2>1, <3>1, <3>2, <3>3 DEF LogInv, Clearing
  <2>5. Ring'
    BY <2>1 DEF Ring
  <2> QED BY <1>2, <2>3, <2>4, <2>5 DEF LogInv
<1>5. CASE EndClear
  <2>1. /\ at[LoopTask] = "clearing" /\ slot[LoopTask] = Lines /\ Finishes(LoopTask)
        /\ upset' = (IF alone[LoopTask] THEN 0 ELSE upset)
        /\ buffer' = buffer /\ lastLine' = lastLine /\ messages' = messages /\ cleared' = cleared
    BY <1>5 DEF EndClear
  <2>2. LoopTask \in Writing
    BY <1>0, <2>1 DEF Writing
  <2>3. /\ Writing' = Writing \ {LoopTask}
        /\ \A u \in Task \ {LoopTask} : at'[u] = at[u] /\ slot'[u] = slot[u] /\ alone'[u] = alone[u]
        /\ at'[LoopTask] = "idle" /\ alone'[LoopTask] = TRUE
        /\ \A u \in Task : alone'[u] \/ u \in Writing'
        /\ alone[LoopTask] => Writing' = {}
        /\ ~alone[LoopTask] => \A u \in Writing : ~alone[u]
    BY <1>0, <2>1, <2>2, Finishing DEF LogInv
  <2>4. ~alone[LoopTask] => upset' = Lines
    BY <2>1, <2>2 DEF LogInv, Writers
  <2>5. \A u \in Writing' : ~alone'[u] /\ upset' = Lines
    BY <2>3, <2>4 DEF Writing
  <2>6. Writers'
    <3>1. \A u \in OtherTasks : at'[u] \notin {"clearing", "dumping"}
      BY <2>3 DEF LogInv, Writers, Task
    <3>2. \A u \in Task : at'[u] = "fetched" => u \in Writing'
      BY DEF Writing
    <3> QED BY <2>3, <2>5, <3>1, <3>2 DEF Writers
  <2>7. Clearing'
    BY <2>3 DEF Clearing
  <2>8. Ring'
    <3>1. CASE alone[LoopTask]
      <4>1. Writing' = {} /\ ~InSlot' /\ Stored' = messages /\ upset' = 0
        BY <2>1, <2>3, <3>1 DEF Writing, InSlot, Stored
      <4>2. lastLine = 0 /\ cleared = messages /\ \A s \in Slot : buffer[s] = Empty
        BY <2>1, <3>1, LinesNat DEF LogInv, Clearing, Slot
      <4>3. \A s \in Slot : Age(s)' = Lines - 1 - s /\ Lines - 1 - s >= 0
        BY <2>1, <4>2, LinesNat DEF Age, Slot
      <4>4. \A s \in Slot : ~(Age(s)' < messages - cleared)
        BY <1>0, <4>2, <4>3, LinesNat DEF Slot
      <4> QED BY <1>0, <2>1, <4>1, <4>2, <4>4 DEF Ring
    <3>2. CASE ~alone[LoopTask]
      <4>1. Orderly' => Writing' = {}
        BY <2>5 DEF Orderly
      <4> QED BY <2>4, <3>2, <4>1, MixedRing
    <3> QED BY <3>1, <3>2
  <2> QED BY <1>2, <2>6, <2>7, <2>8 DEF LogInv
<1> QED BY <1>3, <1>4, <1>5

\* The ring and those who write to it, while only loop() reads on.
LEMMA RingRests ==
  ASSUME LogInv, NEW next \in LogDoing, at[LoopTask] \notin {"clearing", "wrote", "fetched"},
         next \notin {"clearing", "wrote", "fetched"},
         at' = [at EXCEPT ![LoopTask] = next],
         UNCHANGED <<buffer, lastLine, slot, alone, messages, cleared, upset>>
  PROVE  /\ Writers' /\ Ring' /\ Clearing'
         /\ Writing' = Writing /\ Stored' = Stored /\ at'[LoopTask] = next
<1>1. /\ LoopTask \in Task /\ at'[LoopTask] = next
      /\ \A u \in Task \ {LoopTask} : at'[u] = at[u]
  BY DEF Task, LogInv, LogTypeOK
<1>2. Writing' = Writing
  BY <1>1 DEF Writing
<1>3. (InSlot' <=> InSlot) /\ Stored' = Stored
  BY <1>1 DEF InSlot, Stored
<1>4. Writers'
  <2>1. \A u \in OtherTasks : at'[u] = at[u]
    BY <1>1, LinesAssumption DEF Task
  <2>2. \A u \in Task : at'[u] = "fetched" => at[u] = "fetched"
    BY <1>1
  <2> QED BY <1>2, <2>1, <2>2 DEF LogInv, Writers, After
<1>5. Ring'
  <2>1. \A s \in Slot : Age(s)' = Age(s) /\ (Passed(s)' <=> Passed(s))
    BY <1>3 DEF Age, Passed
  <2>2. Orderly' <=> Orderly
    BY <1>2 DEF Orderly
  <2> QED BY <1>3, <2>1, <2>2 DEF LogInv, Ring
<1>6. Clearing'
  BY <1>1 DEF Clearing
<1> QED BY <1>1, <1>2, <1>3, <1>4, <1>5, <1>6

\* The log is asked for, or nothing happens.
LEMMA AskStep ==
  ASSUME LogInv, LogTypeOK',
         UNCHANGED <<buffer, lastLine, at, slot, alone, dump, messages, cleared, upset>>
  PROVE  LogInv'
<1>1. Writing' = Writing /\ (InSlot' <=> InSlot) /\ Stored' = Stored /\ Oldest' = Oldest /\ Held' = Held
  BY DEF Writing, InSlot, Stored, Oldest, Held
<1>2. Writers' /\ Clearing' /\ Dumping' /\ FromNewestOn'
  BY <1>1 DEF LogInv, Writers, Clearing, Dumping, FromNewestOn, After
<1>3. Ring'
  <2>1. \A s \in Slot : Age(s)' = Age(s) /\ (Passed(s)' <=> Passed(s))
    BY <1>1 DEF Age, Passed
  <2>2. Orderly' <=> Orderly
    BY <1>1 DEF Orderly
  <2> QED BY <1>1, <2>1, <2>2 DEF LogInv, Ring
<1>4. CalmLines'
  <2>1. \A i \in Int : Line(i)' = Line(i)
    BY <1>1 DEF Line
  <2> QED BY <1>1, <2>1 DEF LogInv, CalmLines
<1> QED BY <1>2, <1>3, <1>4 DEF LogInv

\* While nothing is mixed up, there is one writer at most.
LEMMA OneWriter ==
  ASSUME LogInv, upset = 0, at[LoopTask] # "clearing"
  PROVE  Orderly /\ messages - Cardinality(Writing) = Stored
<1>1. \A t \in Writing : Writing = {t} /\ alone[t]
  BY LinesNat DEF LogInv, Writers
<1>2. Orderly
  BY <1>1 DEF Orderly
<1>3. \A t \in Task : at[t] = "clearing" => t = LoopTask
  BY DEF LogInv, Writers, Task
<1>4. CASE Writing = {}
  <2>1. ~InSlot
    BY <1>4 DEF InSlot, Writing
  <2> QED BY <1>2, <1>4, <2>1, WritingIsFinite DEF Stored, LogInv, LogTypeOK
<1>5. ASSUME NEW t \in Writing PROVE messages - Cardinality(Writing) = Stored
  <2>1. InSlot
    BY <1>3, <1>5 DEF Writing, InSlot
  <2>2. Cardinality(Writing) = 1
    BY <1>1, <1>5, WritingIsFinite
  <2> QED BY <2>1, <2>2 DEF Stored
<1> QED BY <1>2, <1>4, <1>5

\* Held, in numbers.
LEMMA HeldIs ==
  ASSUME LogTypeOK
  PROVE  /\ Held = IF messages - cleared > Lines THEN Lines ELSE messages - cleared
         /\ Held \in 0 .. Lines /\ Oldest = messages - Held /\ Oldest \in Nat
  BY LinesNat DEF LogTypeOK, Held, Oldest

\* A dump begins.
LEMMA BeginDumpStep ==
  \A reader \in {"web", "telnet"} : LogInv /\ LogTypeOK' /\ BeginDump(reader) => LogInv'
<1> SUFFICES ASSUME LogInv, LogTypeOK', NEW reader \in {"web", "telnet"}, BeginDump(reader) PROVE LogInv'
  OBVIOUS
<1>1. /\ at[LoopTask] = "idle" /\ at' = [at EXCEPT ![LoopTask] = "dumping"]
      /\ UNCHANGED <<buffer, lastLine, newest, slot, alone, messages, cleared, upset>>
  BY DEF BeginDump, page
<1>2. PICK fits \in IF reader = "web" THEN FewestFit .. Lines ELSE {Lines} :
        dump' = [reader |-> reader, newest |-> newest, line |-> 0, fits |-> fits, shown |-> <<>>,
                 calm |-> Writing = {}, sound |-> upset = 0, from |-> messages - Cardinality(Writing)]
  BY DEF BeginDump
<1>3. /\ Writers' /\ Ring' /\ Clearing'
      /\ Writing' = Writing /\ Stored' = Stored /\ at'[LoopTask] = "dumping"
  BY <1>1, RingRests DEF LogDoing
<1>4. /\ dump'.reader = reader /\ dump'.line = 0 /\ dump'.fits = fits /\ dump'.shown = <<>>
      /\ dump'.calm = (Writing = {}) /\ dump'.sound = (upset = 0)
      /\ dump'.from = messages - Cardinality(Writing)
  BY <1>2
<1>5. reader # "none" /\ (reader = "web" => fits \in 1 .. Lines) /\ (reader = "telnet" => fits = Lines)
  BY LinesAssumption
<1>6. Dumping'
  BY <1>1, <1>3, <1>4, <1>5 DEF Dumping
<1>7. FromNewestOn'
  <2>1. upset = 0 => dump'.from = Stored /\ Stored \in Int
    BY <1>1, <1>4, OneWriter DEF Stored, LogInv, LogTypeOK
  <2>2. 1 .. dump'.line = {} /\ 1 .. dump'.line - 1 = {} /\ ~(dump'.line > 0)
    BY <1>4
  <2> SUFFICES ASSUME reader = "web", upset = 0
               PROVE  /\ fits \in 1 .. Lines /\ 0 <= Lines - 1 /\ 0 <= fits + 1
                      /\ dump'.from <= Stored
    <3>1. /\ \A i \in 1 .. dump'.line : i <= dump'.fits => dump'.shown[i] <= Stored' - (i - 1)
          /\ \A i \in 1 .. dump'.line - 1 :
               dump'.shown[i + 1] \in {NotShown} \cup (dump'.shown[i] - 1 .. messages')
          /\ dump'.line > 0 => dump'.shown[1] >= dump'.from
      BY <2>2, Zenon
    <3> QED BY <1>3, <1>4, <3>1 DEF FromNewestOn
  <2> QED BY <1>5, <2>1, LinesNat
<1>8. CalmLines'
  <2>1. Held' \in 0 .. Lines
    <3>1. Held' = Held
      BY <1>1 DEF Held, Oldest
    <3> QED BY <3>1, HeldIs DEF LogInv
  <2> QED BY <1>4, <1>5, <2>1, LinesNat DEF CalmLines
<1> QED BY <1>3, <1>6, <1>7, <1>8 DEF LogInv

\* What a dump that is sound reads, from the newest message on, ...
LEMMA ReadNewest ==
  ASSUME LogInv, upset = 0, at[LoopTask] = "dumping", NEW line \in 0 .. Lines - 1,
         line < Lines - 1 \/ Writing = {}
  PROVE  LET entry == buffer[FromNewest(line)] IN
         entry = IF line < Stored - cleared THEN Stored - line ELSE Empty
<1> DEFINE s == FromNewest(line)
<1>1. s \in Slot /\ Age(s) = line /\ lastLine \in Slot
  BY FromNewestAge DEF LogInv, LogTypeOK
<1>2. Orderly
  BY OneWriter
<1>3. Passed(s)
  <2>1. CASE Writing = {}
    BY <2>1 DEF Passed, InSlot, Writing
  <2>2. CASE line < Lines - 1
    <3>1. s # lastLine
      BY <1>1, <2>2, Ages
    <3> QED BY <3>1 DEF Passed
  <2> QED BY <2>1, <2>2
<1> HIDE DEF s
<1>4. buffer[s] = IF Age(s) < Stored - cleared THEN Stored - Age(s) ELSE Empty
  BY <1>1, <1>2, <1>3 DEF LogInv, Ring
<1> QED BY <1>1, <1>4 DEF s

\* ... and, when no one writes, all that is held: from the newest on ...
LEMMA CalmNewest ==
  ASSUME LogInv, upset = 0, at[LoopTask] = "dumping", Writing = {}, NEW line \in 0 .. Lines - 1
  PROVE  /\ line < Held => buffer[FromNewest(line)] = messages - line /\ buffer[FromNewest(line)] # Empty
         /\ line >= Held => buffer[FromNewest(line)] = Empty
<1>1. Stored = messages
  BY DEF Stored, InSlot, Writing
<1>2. PICK e : e = buffer[FromNewest(line)]
  OBVIOUS
<1>3. e = IF line < Stored - cleared THEN Stored - line ELSE Empty
  BY <1>2, ReadNewest
<1>4. messages \in Nat /\ cleared \in 0 .. messages
  BY DEF LogInv, LogTypeOK
<1>5. Held = IF messages - cleared > Lines THEN Lines ELSE messages - cleared
  BY HeldIs DEF LogInv
<1>6. line < Held <=> line < messages - cleared
  BY <1>4, <1>5, LinesNat
<1>7. Held \in Int
  BY HeldIs DEF LogInv
<1> QED BY <1>1, <1>2, <1>3, <1>4, <1>6, <1>7 DEF Empty

\* ... and from the oldest on.
LEMMA CalmOldest ==
  ASSUME LogInv, upset = 0, at[LoopTask] = "dumping", Writing = {}, NEW line \in 0 .. Lines - 1
  PROVE  /\ line < Held => buffer[FromOldest(line)] = Oldest + (line + 1) /\ buffer[FromOldest(line)] # Empty
         /\ line >= Held => buffer[FromOldest(line)] = Empty
         /\ Held < Lines => lastLine = Held
<1>1. Stored = messages /\ Orderly /\ \A s \in Slot : Passed(s)
  BY OneWriter DEF Stored, InSlot, Writing, Passed
<1>2. messages \in Nat /\ cleared \in 0 .. messages /\ lastLine \in Slot
  BY DEF LogInv, LogTypeOK
<1>3. \A s \in Slot : buffer[s] = IF Age(s) < messages - cleared THEN messages - Age(s) ELSE Empty
  BY <1>1 DEF LogInv, Ring
<1>4. messages - cleared < Lines => lastLine = messages - cleared
  BY <1>1 DEF LogInv, Ring
<1>5. /\ Held = IF messages - cleared > Lines THEN Lines ELSE messages - cleared
      /\ Held \in 0 .. Lines /\ Oldest = messages - Held
  BY HeldIs DEF LogInv
<1>6. PICK s \in Slot : s = FromOldest(line)
  BY <1>2, FromOldestAge
<1>7. Age(lastLine) = Lines - 1
  BY <1>2, Ages
<1>8. CASE messages - cleared < Lines
  <2>1. Held = messages - cleared /\ lastLine = Held
    BY <1>2, <1>4, <1>5, <1>8, LinesNat
  <2>2. buffer[lastLine] = Empty
    BY <1>2, <1>3, <1>7, <1>8, LinesNat
  <2>3. s = line
    BY <1>2, <1>6, <2>2, FromOldestAge
  <2>4. /\ line < Held <=> Age(s) < Held
        /\ line < Held => Age(s) = Held - 1 - line
    BY <1>2, <2>1, <2>3, Ages
  <2>5. Age(s) \in Int
    BY <1>2, Ages
  <2>6. CASE line < Held
    <3>1. buffer[s] = messages - (Held - 1 - line)
      BY <1>3, <2>1, <2>4, <2>6
    <3> QED BY <1>2, <1>5, <1>6, <2>1, <2>6, <3>1 DEF Empty
  <2>7. CASE line >= Held
    <3>1. ~(line < Held)
      BY <1>5, <2>7, LinesNat
    <3>2. buffer[s] = Empty
      BY <1>3, <2>1, <2>4, <3>1
    <3> QED BY <1>6, <2>1, <3>1, <3>2
  <2> QED BY <1>5, <2>6, <2>7, LinesNat
<1>9. CASE messages - cleared >= Lines
  <2>1. Held = Lines /\ Oldest = messages - Lines /\ messages >= Lines
    BY <1>2, <1>5, <1>9, LinesNat
  <2>2. buffer[lastLine] # Empty
    <3>1. buffer[lastLine] = messages - (Lines - 1)
      BY <1>2, <1>3, <1>7, <1>9, LinesNat
    <3> QED BY <1>2, <2>1, <3>1, LinesNat DEF Empty
  <2>3. Age(s) = Lines - 1 - line
    BY <1>2, <1>6, <2>2, FromOldestAge
  <2>4. buffer[s] = messages - (Lines - 1 - line)
    BY <1>2, <1>3, <1>9, <2>3, LinesNat
  <2> QED BY <1>2, <1>6, <2>1, <2>4, LinesNat DEF Empty
<1> QED BY <1>2, <1>8, <1>9, LinesNat

\* A dump goes on or ends; the ring rests.
LEMMA LineRests ==
  ASSUME LogInv, WebLine \/ TelnetLine
  PROVE  /\ Writers' /\ Ring' /\ Clearing' /\ Writing' = Writing /\ Stored' = Stored
         /\ at[LoopTask] = "dumping" /\ dump.reader \in {"web", "telnet"}
         /\ UNCHANGED <<buffer, lastLine, newest, slot, alone, messages, cleared, upset>>
         /\ DumpEnds => at'[LoopTask] = "idle"
         /\ ~DumpEnds => at' = at
<1>1. /\ at[LoopTask] = "dumping" /\ dump.reader \in {"web", "telnet"}
      /\ UNCHANGED <<buffer, lastLine, newest, slot, alone, messages, cleared, upset>>
  BY DEF WebLine, TelnetLine
<1>2. CASE DumpEnds
  <2>1. at' = [at EXCEPT ![LoopTask] = "idle"]
    BY <1>2 DEF DumpEnds
  <2> QED BY <1>1, <1>2, <2>1, RingRests DEF LogDoing
<1>3. CASE ~DumpEnds
  <2>1. at' = at
    BY <1>3, LineStep DEF LogInv, Shows
  <2>2. at' = [at EXCEPT ![LoopTask] = "dumping"]
    BY <1>1, <2>1 DEF LogInv, LogTypeOK
  <2> QED BY <1>1, <1>3, <2>1, <2>2, RingRests DEF LogDoing
<1> QED BY <1>2, <1>3

\* A dump that is over leaves nothing to be right about.
LEMMA EndStep == LogInv /\ LogTypeOK' /\ (WebLine \/ TelnetLine) /\ DumpEnds => LogInv'
<1> SUFFICES ASSUME LogInv, LogTypeOK', WebLine \/ TelnetLine, DumpEnds PROVE LogInv'
  OBVIOUS
<1>1. Writers' /\ Ring' /\ Clearing' /\ at'[LoopTask] = "idle"
  BY LineRests
<1>2. dump' = NoDump /\ NoDump.reader = "none" /\ NoDump.line = 0 /\ NoDump.shown = <<>>
  <2>1. NoDump.reader = "none" /\ NoDump.line = 0 /\ NoDump.shown = <<>>
    BY DEF NoDump
  <2> QED BY <2>1 DEF DumpEnds
<1>3. Dumping' /\ FromNewestOn' /\ CalmLines'
  <2>1. Len(<<>>) = 0
    OBVIOUS
  <2> QED BY <1>1, <1>2, <2>1 DEF Dumping, FromNewestOn, CalmLines
<1> QED BY <1>1, <1>3 DEF LogInv

\* What a line shows.
Entry ==
  IF dump.reader = "web" /\ dump.line = dump.fits THEN NotShown
  ELSE IF dump.reader = "web" /\ dump.newest THEN buffer[FromNewest(dump.line)]
  ELSE buffer[FromOldest(dump.line)]

\* When it shows one.
LEMMA LineShows ==
  ASSUME LogInv, WebLine \/ TelnetLine, ~DumpEnds
  PROVE  /\ Shows(Entry) /\ ~LooksEmpty
         /\ dump.reader = "web" =>
              /\ dump.line < Lines - 1 /\ dump.line <= dump.fits
              /\ IF dump.newest THEN buffer[FromNewest(dump.line)] # Empty
                                ELSE buffer[FromOldest(dump.line)] # Empty
         /\ dump.reader = "telnet" =>
              /\ dump.line <= Lines - 1
              /\ dump.line \in 1 .. Lines - 2 => buffer[FromOldest(dump.line)] # Empty
<1>1. dump.line \in 0 .. Lines /\ dump.fits \in Nat /\ (dump.reader = "web" => dump.line <= Lines - 1)
  BY DEF LogInv, LogTypeOK, Dumps
<1>2. CASE WebLine
  <2>1. dump.reader = "web" /\ ~LooksEmpty /\ dump.line # Lines - 1 /\ ~(dump.line > dump.fits)
    BY <1>2 DEF WebLine
  <2>2. dump.line < Lines - 1 /\ dump.line <= dump.fits
    BY <1>1, <2>1, LinesNat
  <2>3. CASE dump.newest
    BY <1>2, <2>1, <2>2, <2>3 DEF WebLine, Entry
  <2>4. CASE ~dump.newest
    BY <1>2, <2>1, <2>2, <2>4 DEF WebLine, Entry
  <2> QED BY <2>3, <2>4
<1>3. CASE TelnetLine
  <2>1. dump.reader = "telnet" /\ ~LooksEmpty /\ dump.line # Lines
    BY <1>3 DEF TelnetLine
  <2>2. dump.line <= Lines - 1
    BY <1>1, <2>1, LinesNat
  <2> QED BY <1>3, <2>1, <2>2 DEF TelnetLine, Entry
<1> QED BY <1>2, <1>3

\* One line more.
LEMMA ShowStep == LogInv /\ LogTypeOK' /\ (WebLine \/ TelnetLine) /\ ~DumpEnds => LogInv'
<1> SUFFICES ASSUME LogInv, LogTypeOK', WebLine \/ TelnetLine, ~DumpEnds PROVE LogInv'
  OBVIOUS
<1>1. /\ Writers' /\ Ring' /\ Clearing' /\ Writing' = Writing /\ Stored' = Stored /\ at' = at
      /\ at[LoopTask] = "dumping" /\ dump.reader \in {"web", "telnet"}
      /\ UNCHANGED <<buffer, lastLine, newest, slot, alone, messages, cleared, upset>>
  BY LineRests
<1>2. /\ Shows(Entry) /\ ~LooksEmpty
      /\ dump.reader = "web" =>
           /\ dump.line < Lines - 1 /\ dump.line <= dump.fits
           /\ IF dump.newest THEN buffer[FromNewest(dump.line)] # Empty
                             ELSE buffer[FromOldest(dump.line)] # Empty
      /\ dump.reader = "telnet" =>
           /\ dump.line <= Lines - 1
           /\ dump.line \in 1 .. Lines - 2 => buffer[FromOldest(dump.line)] # Empty
  BY LineShows
<1>3. /\ dump.line \in Nat /\ dump.line = Len(dump.shown) /\ dump.shown \in Seq(Int) /\ dump.fits \in Nat
      /\ lastLine \in Slot /\ messages \in Nat /\ cleared \in 0 .. messages /\ dump.from \in Int
  BY DEF LogInv, LogTypeOK, Dumps, Dumping
<1>4. dump.line <= Lines - 1 /\ dump.line \in 0 .. Lines - 1
  BY <1>1, <1>2, <1>3, LinesNat
<1>5. PICK entry : entry = Entry
  OBVIOUS
<1>6. /\ dump' = [dump EXCEPT !.line = dump.line + 1, !.shown = Append(dump.shown, entry)]
  BY <1>2, <1>5 DEF Shows
<1>7. /\ dump'.reader = dump.reader /\ dump'.newest = dump.newest /\ dump'.fits = dump.fits
      /\ dump'.calm = dump.calm /\ dump'.sound = dump.sound /\ dump'.from = dump.from
      /\ dump'.line = dump.line + 1 /\ dump'.shown = Append(dump.shown, entry)
  BY <1>6 DEF LogInv, LogTypeOK, Dumps
<1>8. entry \in Int
  <2>1. FromNewest(dump.line) \in Slot /\ FromOldest(dump.line) \in Slot
    BY <1>3, <1>4, FromNewestAge, FromOldestAge
  <2> QED BY <1>5, <2>1 DEF Entry, NotShown, LogInv, LogTypeOK
<1>9. /\ Len(dump'.shown) = dump.line + 1 /\ dump'.shown[dump.line + 1] = entry
      /\ \A i \in 1 .. dump.line : dump'.shown[i] = dump.shown[i] /\ dump.shown[i] \in Int
  BY <1>3, <1>7, <1>8, AppendProperties
<1>10. Dumping'
  BY <1>1, <1>7, <1>9 DEF LogInv, Dumping
<1>11. FromNewestOn'
  <2> SUFFICES ASSUME dump.reader = "web", dump.newest, dump.sound PROVE FromNewestOn'
    BY <1>7 DEF FromNewestOn
  <2>1. /\ dump.fits \in 1 .. Lines /\ dump.from <= Stored
        /\ dump.line > 0 => dump.shown[1] >= dump.from
        /\ \A i \in 1 .. dump.line : i <= dump.fits => dump.shown[i] <= Stored - (i - 1)
        /\ \A i \in 1 .. dump.line - 1 :
             dump.shown[i + 1] \in {NotShown} \cup (dump.shown[i] - 1 .. messages)
    BY DEF LogInv, FromNewestOn
  <2>2. Stored \in Int /\ Stored <= messages
    BY <1>3 DEF Stored
  <2>3. dump.line < Lines - 1 /\ dump.line <= dump.fits
    BY <1>2
  <2>4. entry = IF dump.line = dump.fits THEN NotShown ELSE Stored - dump.line
    <3>1. CASE dump.line = dump.fits
      BY <1>5, <3>1 DEF Entry
    <3>2. CASE dump.line # dump.fits
      <4>1. PICK e : e = buffer[FromNewest(dump.line)]
        OBVIOUS
      <4>2. e = IF dump.line < Stored - cleared THEN Stored - dump.line ELSE Empty
        BY <1>1, <1>4, <2>3, <4>1, ReadNewest DEF LogInv, Dumping
      <4>3. e # Empty /\ entry = e
        BY <1>2, <1>5, <3>2, <4>1 DEF Entry
      <4> QED BY <3>2, <4>2, <4>3
    <3> QED BY <3>1, <3>2
  <2>5. dump'.line <= Lines - 1 /\ dump'.line <= dump'.fits + 1
    BY <1>3, <1>7, <2>3, LinesNat
  <2>6. dump'.shown[1] >= dump'.from
    <3>1. CASE dump.line = 0
      <4>1. entry = Stored
        BY <2>1, <2>2, <2>4, <3>1
      <4>2. dump'.shown[1] = entry
        BY <1>9, <3>1
      <4> QED BY <1>3, <1>7, <2>1, <2>2, <4>1, <4>2
    <3>2. CASE dump.line > 0
      <4>1. dump'.shown[1] = dump.shown[1]
        BY <1>3, <1>9, <3>2
      <4> QED BY <1>7, <2>1, <3>2, <4>1
    <3> QED BY <1>3, <3>1, <3>2
  <2>7. \A i \in 1 .. dump.line + 1 : i <= dump.fits => dump'.shown[i] <= Stored - (i - 1)
    <3> SUFFICES ASSUME NEW i \in 1 .. dump.line + 1, i <= dump.fits
                 PROVE  dump'.shown[i] <= Stored - (i - 1)
      OBVIOUS
    <3>1. CASE i = dump.line + 1
      <4>1. dump'.shown[i] = Stored - dump.line
        BY <1>3, <1>9, <2>4, <3>1
      <4> QED BY <1>3, <2>2, <3>1, <4>1
    <3>2. CASE i # dump.line + 1
      <4>1. i \in 1 .. dump.line
        BY <1>3, <3>2
      <4> QED BY <1>9, <2>1, <4>1
    <3> QED BY <3>1, <3>2
  <2>8. \A i \in 1 .. dump.line : dump'.shown[i + 1] \in {NotShown} \cup (dump'.shown[i] - 1 .. messages)
    <3> SUFFICES ASSUME NEW i \in 1 .. dump.line
                 PROVE  dump'.shown[i + 1] \in {NotShown} \cup (dump'.shown[i] - 1 .. messages)
      OBVIOUS
    <3>1. CASE i = dump.line
      <4>1. dump'.shown[i] = dump.shown[i] /\ dump'.shown[i + 1] = entry /\ dump.shown[i] \in Int
        BY <1>9, <3>1
      <4>2. dump.shown[i] <= Stored - (i - 1)
        BY <1>3, <2>1, <2>3, <3>1
      <4>3. CASE dump.line = dump.fits
        BY <2>4, <4>1, <4>3
      <4>4. CASE dump.line # dump.fits
        <5>1. entry = Stored - dump.line
          BY <2>4, <4>4
        <5>2. entry \in dump.shown[i] - 1 .. messages
          <6>1. PICK x \in Int, l \in Nat, st \in Int, m \in Nat :
                  x = dump.shown[i] /\ l = dump.line /\ st = Stored /\ m = messages
            BY <1>3, <2>2, <4>1
          <6>2. x <= st - (l - 1) /\ st <= m
            BY <2>2, <3>1, <4>2, <6>1
          <6>3. st - l \in x - 1 .. m
            BY <6>2
          <6> QED BY <5>1, <6>1, <6>3
        <5> QED BY <4>1, <5>2
      <4> QED BY <4>3, <4>4
    <3>2. CASE i # dump.line
      <4>1. i \in 1 .. dump.line - 1 /\ i + 1 \in 1 .. dump.line
        BY <1>3, <3>2
      <4>2. dump'.shown[i + 1] = dump.shown[i + 1] /\ dump'.shown[i] = dump.shown[i]
        BY <1>9, <4>1
      <4> QED BY <2>1, <4>1, <4>2
    <3> QED BY <3>1, <3>2
  <2>9. dump'.line - 1 = dump.line
    BY <1>3, <1>7
  <2> QED BY <1>1, <1>7, <2>1, <2>5, <2>6, <2>7, <2>8, <2>9 DEF FromNewestOn
<1>12. CalmLines'
  <2> SUFFICES ASSUME dump.sound, dump.calm PROVE CalmLines'
    BY <1>7 DEF CalmLines
  <2>1. Writing = {} /\ upset = 0
    BY <1>1 DEF LogInv, Dumping
  <2>2. /\ dump.reader = "web" => dump.fits \in 1 .. Lines
        /\ dump.reader = "telnet" => dump.fits = Lines
        /\ lastLine = 0 => dump.line = 0
        /\ IF dump.reader = "telnet"
           THEN dump.line <= IF Held = Lines - 1 THEN Lines ELSE Held
           ELSE dump.line <= Held /\ dump.line <= Lines - 1 /\ dump.line <= dump.fits + 1
        /\ \A i \in 1 .. dump.line : dump.shown[i] = Line(i)
    BY <1>1 DEF LogInv, CalmLines
  <2>3. lastLine # 0
    BY <1>2, <2>2 DEF LooksEmpty
  <2>4. Held \in 0 .. Lines /\ Held' = Held /\ Oldest' = Oldest /\ Oldest \in Nat
    <3>1. Held' = Held /\ Oldest' = Oldest
      BY <1>1 DEF Held, Oldest
    <3> QED BY <3>1, HeldIs DEF LogInv
  <2>5. /\ dump.line < Held => buffer[FromNewest(dump.line)] = messages - dump.line
        /\ dump.line >= Held => buffer[FromNewest(dump.line)] = Empty
    BY <1>1, <1>4, <2>1, CalmNewest
  <2>6. /\ dump.line < Held => buffer[FromOldest(dump.line)] = Oldest + (dump.line + 1)
        /\ dump.line >= Held => buffer[FromOldest(dump.line)] = Empty
        /\ Held < Lines => lastLine = Held
    BY <1>1, <1>4, <2>1, CalmOldest
  <2>7. Line(dump.line + 1) = entry
        /\ IF dump.reader = "telnet"
           THEN dump.line + 1 <= IF Held = Lines - 1 THEN Lines ELSE Held
           ELSE dump.line + 1 <= Held /\ dump.line + 1 <= Lines - 1 /\ dump.line + 1 <= dump.fits + 1
    <3>1. CASE dump.reader = "web"
      <4>1. dump.line < Held
        BY <1>2, <1>3, <2>4, <2>5, <2>6, <3>1
      <4>2. dump.line + 1 <= Held /\ dump.line + 1 <= Lines - 1 /\ dump.line + 1 <= dump.fits + 1
        BY <1>2, <1>3, <2>4, <3>1, <4>1, LinesNat
      <4>3. dump.line + 1 = dump.fits + 1 <=> dump.line = dump.fits
        BY <1>3
      <4>4. (dump.line + 1) - 1 = dump.line
        BY <1>3
      <4>5. Line(dump.line + 1) = entry
        BY <1>5, <2>5, <2>6, <3>1, <4>1, <4>3, <4>4 DEF Line, Entry
      <4> QED BY <3>1, <4>2, <4>5
    <3>2. CASE dump.reader = "telnet"
      <4>1. entry = buffer[FromOldest(dump.line)]
        BY <1>5, <3>2 DEF Entry
      <4>2. CASE dump.line < Held
        <5>1. dump.line + 1 <= Held /\ dump.line + 1 <= Lines /\ dump.line + 1 # Held + 1
          BY <1>3, <2>4, <4>2, LinesNat
        <5> QED BY <2>6, <3>2, <4>1, <4>2, <5>1 DEF Line
      <4>3. CASE dump.line >= Held
        <5>1. entry = Empty
          BY <2>6, <4>1, <4>3
        <5>2. dump.line = Lines - 1 /\ Held = Lines - 1
          <6>1. dump.line \notin 1 .. Lines - 2
            BY <1>2, <3>2, <4>1, <5>1
          <6>2. dump.line # 0
            BY <2>3, <2>4, <2>6, <4>3, LinesNat
          <6>3. dump.line = Lines - 1
            BY <1>3, <1>4, <6>1, <6>2, LinesNat
          <6>4. Held = Lines - 1
            BY <2>2, <2>4, <3>2, <4>3, <6>3, LinesNat
          <6> QED BY <6>3, <6>4
        <5>3. dump.line + 1 = Held + 1 /\ dump.line + 1 <= Lines
          BY <5>2, LinesNat
        <5> QED BY <3>2, <5>1, <5>2, <5>3 DEF Line
      <4> QED BY <1>3, <2>4, <4>2, <4>3
    <3> QED BY <1>1, <3>1, <3>2
  <2>8. \A i \in Int : Line(i)' = Line(i)
    BY <1>1, <1>7, <2>4 DEF Line
  <2>9. \A i \in 1 .. dump.line + 1 : dump'.shown[i] = Line(i)'
    <3> SUFFICES ASSUME NEW i \in 1 .. dump.line + 1 PROVE dump'.shown[i] = Line(i)
      BY <2>8
    <3>1. CASE i = dump.line + 1
      BY <1>9, <2>7, <3>1
    <3>2. CASE i # dump.line + 1
      <4>1. i \in 1 .. dump.line
        BY <1>3, <3>2
      <4> QED BY <1>9, <2>2, <4>1
    <3> QED BY <3>1, <3>2
  <2> QED BY <1>1, <1>7, <2>2, <2>3, <2>4, <2>7, <2>9 DEF CalmLines
<1> QED BY <1>1, <1>10, <1>11, <1>12 DEF LogInv

\* The invariant of the log is inductive.
LEMMA LogInductive == LogInv /\ [LogNext]_logVars => LogInv'
<1> SUFFICES ASSUME LogInv, [LogNext]_logVars PROVE LogInv'
  OBVIOUS
<1>1. LogTypeOK'
  BY LogType DEF LogInv
<1>2. ASSUME NEW t \in Task, Write(t) \/ Fetch(t) \/ StoreNext(t) PROVE LogInv'
  BY <1>1, <1>2, WriteStep, FetchStep, StoreStep
<1>3. CASE BeginClear \/ ClearLine \/ EndClear
  BY <1>1, <1>3, ClearStep
<1>4. CASE AskForLog \/ UNCHANGED logVars
  <2>1. UNCHANGED <<buffer, lastLine, at, slot, alone, dump, messages, cleared, upset>>
    BY <1>4 DEF AskForLog, logVars
  <2> QED BY <1>1, <2>1, AskStep
<1>5. ASSUME NEW reader \in {"web", "telnet"}, BeginDump(reader) PROVE LogInv'
  BY <1>1, <1>5, BeginDumpStep
<1>6. CASE WebLine \/ TelnetLine
  BY <1>1, <1>6, EndStep, ShowStep
<1> QED BY <1>2, <1>3, <1>4, <1>5, <1>6 DEF LogNext

LEMMA LogStarts == LogInit => LogInv
<1> SUFFICES ASSUME LogInit PROVE LogInv
  OBVIOUS
<1>1. LogTypeOK
  <2>1. NoDump \in Dumps /\ NoDump.reader = "none"
    BY EmptySeq, LinesNat DEF NoDump, Dumps
  <2>2. [s \in Slot |-> Empty] \in [Slot -> Int]
    BY DEF Empty
  <2>3. /\ [t \in Task |-> "idle"] \in [Task -> LogDoing] /\ [t \in Task |-> 0] \in [Task -> 0 .. Lines]
        /\ [t \in Task |-> TRUE] \in [Task -> BOOLEAN]
    BY LinesNat DEF LogDoing
  <2>4. \A t \in Task : at[t] = "fetched" => slot[t] \in Slot
    BY DEF LogInit
  <2>5. 0 \in Slot /\ 0 \in 0 .. Lines /\ messages \in Nat /\ cleared \in 0 .. messages
    BY LinesNat DEF Slot, LogInit
  <2> QED BY <2>1, <2>2, <2>3, <2>4, <2>5 DEF LogInit, LogTypeOK
<1>2. \A t \in Task : at[t] = "idle" /\ alone[t]
  BY DEF LogInit
<1>3. Writing = {} /\ ~InSlot /\ Stored = 0
  BY <1>2 DEF Writing, InSlot, Stored, LogInit
<1>4. Writers
  BY <1>2, <1>3 DEF Writers, Task
<1>5. Ring
  <2>1. \A s \in Slot : Age(s) \in 0 .. Lines - 1
    BY <1>1, Ages DEF LogTypeOK
  <2>2. \A s \in Slot : ~(Age(s) < 0 - 0)
    BY <2>1, LinesNat
  <2> QED BY <1>3, <2>2, LinesNat DEF Ring, LogInit
<1>6. at[LoopTask] = "idle"
  BY <1>2 DEF Task
<1>7. NoDump.reader = "none" /\ NoDump.line = 0 /\ NoDump.shown = <<>> /\ Len(<<>>) = 0
  BY DEF NoDump
<1> QED BY <1>1, <1>4, <1>5, <1>6, <1>7 DEF LogInv, Clearing, Dumping, FromNewestOn, CalmLines, LogInit

\* Dumps from the newest message on leave none out: whatever tasks log while loop() goes
\* through the ring, line by line, as long as no two of them wrote at once (addLogBuffer,
\* webReadLogBufferCyclic).
THEOREM NoGap == LogSpec => []NewestFirstHasNoGap
<1>1. LogInv => NewestFirstHasNoGap
  <2> SUFFICES ASSUME LogInv, dump.reader = "web", dump.newest, dump.sound, dump.shown # <<>>
               PROVE  /\ dump.shown[1] >= dump.from
                      /\ \A i \in 1 .. Len(dump.shown) - 1 :
                           dump.shown[i + 1] \in {NotShown} \cup (dump.shown[i] - 1 .. messages)
    BY DEF NewestFirstHasNoGap
  <2>1. dump.line = Len(dump.shown) /\ dump.line \in Nat /\ dump.shown \in Seq(Int)
    BY DEF LogInv, LogTypeOK, Dumps, Dumping
  <2>2. dump.line > 0
    BY <2>1, EmptySeq
  <2> QED BY <2>1, <2>2 DEF LogInv, FromNewestOn
<1> QED BY <1>1, LogStarts, LogInductive, PTL DEF LogSpec

\* The log in the order it is kept and the other way round.
LEMMA LogIs ==
  ASSUME LogTypeOK
  PROVE  /\ Log \in Seq(Int) /\ Len(Log) = Held /\ \A i \in 1 .. Held : Log[i] = Oldest + i
         /\ Reverse(Log) \in Seq(Int) /\ Len(Reverse(Log)) = Held
         /\ \A i \in 1 .. Held : Reverse(Log)[i] = messages - (i - 1)
<1>1. Held \in Nat /\ Oldest \in Nat /\ Oldest = messages - Held /\ messages \in Nat
  BY HeldIs DEF LogTypeOK
<1>2. Log = [i \in 1 .. Held |-> Oldest + i]
  BY DEF Log, Held
<1>3. Log \in Seq(Int) /\ Len(Log) = Held /\ \A i \in 1 .. Held : Log[i] = Oldest + i
  BY <1>1, <1>2
<1>4. Reverse(Log) = [i \in 1 .. Held |-> Log[Held - i + 1]]
  BY <1>3 DEF Reverse
<1>5. \A i \in 1 .. Held : Log[Held - i + 1] = messages - (i - 1)
  <2> SUFFICES ASSUME NEW i \in 1 .. Held PROVE Log[Held - i + 1] = messages - (i - 1)
    OBVIOUS
  <2>1. Held - i + 1 \in 1 .. Held
    BY <1>1
  <2>2. Log[Held - i + 1] = Oldest + (Held - i + 1)
    BY <1>3, <2>1
  <2> QED BY <1>1, <2>2
<1>6. \A i \in 1 .. Held : Log[Held - i + 1] \in Int
  BY <1>1, <1>5
<1> HIDE DEF Log
<1> QED BY <1>1, <1>3, <1>4, <1>5, <1>6

\* Two sequences are one when they agree line by line.
LEMMA SameLines ==
  ASSUME NEW s \in Seq(Int), NEW t \in Seq(Int), Len(s) = Len(t), \A i \in 1 .. Len(s) : s[i] = t[i]
  PROVE  s = t
  BY SeqEqual

\* The beginning of a log, with or without the word that there is more.
LEMMA Beginnings ==
  ASSUME NEW s \in Seq(Int), NEW n \in 0 .. Len(s), NEW word \in Int
  PROVE  /\ SubSeq(s, 1, n) \in Seq(Int) /\ Len(SubSeq(s, 1, n)) = n
         /\ \A i \in 1 .. n : SubSeq(s, 1, n)[i] = s[i]
         /\ Append(SubSeq(s, 1, n), word) \in Seq(Int) /\ Len(Append(SubSeq(s, 1, n), word)) = n + 1
         /\ \A i \in 1 .. n : Append(SubSeq(s, 1, n), word)[i] = s[i]
         /\ Append(SubSeq(s, 1, n), word)[n + 1] = word
<1>1. PICK b : b = SubSeq(s, 1, n)
  OBVIOUS
<1>2. b \in Seq(Int) /\ Len(b) = n /\ \A i \in 1 .. n : b[i] = s[i]
  BY <1>1, SubSeqProperties
<1>3. /\ Append(b, word) \in Seq(Int) /\ Len(Append(b, word)) = n + 1
      /\ \A i \in 1 .. n : Append(b, word)[i] = b[i]
      /\ Append(b, word)[n + 1] = word
  BY <1>2, AppendProperties
<1> QED BY <1>1, <1>2, <1>3

\* When a dump ends.
LEMMA EndsWhen ==
  ASSUME LogInv, WebLine \/ TelnetLine, DumpEnds
  PROVE  \/ LooksEmpty
         \/ /\ dump.reader = "web"
            /\ \/ dump.line = Lines - 1 \/ dump.line > dump.fits
               \/ IF dump.newest THEN buffer[FromNewest(dump.line)] = Empty
                                 ELSE buffer[FromOldest(dump.line)] = Empty
         \/ /\ dump.reader = "telnet"
            /\ \/ dump.line = Lines
               \/ dump.line \in 1 .. Lines - 2 /\ buffer[FromOldest(dump.line)] = Empty
<1>1. dump'.reader = "none" /\ dump.reader \in {"web", "telnet"}
  BY DEF DumpEnds, NoDump, WebLine, TelnetLine
<1>2. ASSUME NEW entry, Shows(entry) PROVE FALSE
  <2>1. dump'.reader = dump.reader
    BY <1>2 DEF Shows, LogInv, LogTypeOK, Dumps
  <2> QED BY <1>1, <2>1
<1>3. CASE WebLine
  <2>1. CASE dump.newest
    BY <1>2, <1>3, <2>1 DEF WebLine
  <2>2. CASE ~dump.newest
    BY <1>2, <1>3, <2>2 DEF WebLine
  <2> QED BY <2>1, <2>2
<1>4. CASE TelnetLine
  BY <1>2, <1>4 DEF TelnetLine
<1> QED BY <1>3, <1>4

\* What a calm dump prints.
Printed(d) ==
  IF lastLine = 0 THEN <<>>
  ELSE IF d.reader = "telnet" THEN IF Len(Log) = Lines - 1 THEN Append(Log, Empty) ELSE Log
  ELSE LET all == IF d.newest THEN Reverse(Log) ELSE Log
           most == IF Len(all) < Lines THEN Len(all) ELSE Lines - 1
       IN  IF most <= d.fits THEN SubSeq(all, 1, most) ELSE Append(SubSeq(all, 1, d.fits), NotShown)

\* A calm dump that ends has printed that.
LEMMA CalmEnd ==
  ASSUME LogInv, WebLine \/ TelnetLine, DumpEnds, dump.calm, dump.sound
  PROVE  dump.shown = Printed(dump)
<1>1. at[LoopTask] = "dumping" /\ dump.reader \in {"web", "telnet"}
  BY LineRests
<1>2. Writing = {} /\ upset = 0
  BY <1>1 DEF LogInv, Dumping
<1>3. /\ dump.line \in 0 .. Lines /\ dump.line = Len(dump.shown) /\ dump.shown \in Seq(Int) /\ dump.fits \in Nat
      /\ (dump.reader = "web" => dump.line <= Lines - 1)
  BY DEF LogInv, LogTypeOK, Dumps, Dumping
<1>4. /\ dump.reader = "web" => dump.fits \in 1 .. Lines
      /\ dump.reader = "telnet" => dump.fits = Lines
      /\ lastLine = 0 => dump.line = 0
      /\ IF dump.reader = "telnet"
         THEN dump.line <= IF Held = Lines - 1 THEN Lines ELSE Held
         ELSE dump.line <= Held /\ dump.line <= Lines - 1 /\ dump.line <= dump.fits + 1
      /\ \A i \in 1 .. dump.line : dump.shown[i] = Line(i)
  BY <1>1, <1>2 DEF LogInv, CalmLines
<1>5. Held \in 0 .. Lines
  BY HeldIs DEF LogInv
<1>6. /\ Log \in Seq(Int) /\ Len(Log) = Held /\ \A i \in 1 .. Held : Log[i] = Oldest + i
      /\ Reverse(Log) \in Seq(Int) /\ Len(Reverse(Log)) = Held
      /\ \A i \in 1 .. Held : Reverse(Log)[i] = messages - (i - 1)
  BY LogIs DEF LogInv
<1>7. CASE lastLine = 0
  <2>1. Printed(dump) = <<>>
    BY <1>7 DEF Printed
  <2>2. Len(dump.shown) = 0
    BY <1>3, <1>4, <1>7
  <2> QED BY <1>3, <2>1, <2>2, EmptySeq
<1>8. ~LooksEmpty \/ lastLine = 0
  BY DEF LooksEmpty
<1>9. CASE lastLine # 0 /\ dump.reader = "web"
  <2>1. \/ dump.line = Lines - 1 \/ dump.line > dump.fits
        \/ IF dump.newest THEN buffer[FromNewest(dump.line)] = Empty
                          ELSE buffer[FromOldest(dump.line)] = Empty
    BY <1>8, <1>9, EndsWhen
  <2>2. dump.line \in 0 .. Lines - 1 /\ dump.fits \in 1 .. Lines
        /\ dump.line <= Held /\ dump.line <= dump.fits + 1
    BY <1>3, <1>4, <1>9, LinesNat
  <2>3. /\ dump.line < Held => buffer[FromNewest(dump.line)] # Empty /\ buffer[FromOldest(dump.line)] # Empty
    BY <1>1, <1>2, <2>2, CalmNewest, CalmOldest
  <2>4. dump.line = Lines - 1 \/ dump.line = dump.fits + 1 \/ dump.line = Held
    BY <1>5, <2>1, <2>2, <2>3, LinesNat
  <2>5. PICK all \in Seq(Int) : all = IF dump.newest THEN Reverse(Log) ELSE Log
    BY <1>6
  <2>6. Len(all) = Held /\ \A i \in 1 .. Held : i # dump.fits + 1 => all[i] = Line(i)
    <3>1. CASE dump.newest
      BY <1>6, <1>9, <2>5, <3>1 DEF Line
    <3>2. CASE ~dump.newest
      BY <1>6, <1>9, <2>5, <3>2 DEF Line
    <3> QED BY <3>1, <3>2
  <2>7. PICK most \in 0 .. Held : most = IF Held < Lines THEN Held ELSE Lines - 1
    BY <1>5, LinesNat
  <2>8. Printed(dump) = IF most <= dump.fits THEN SubSeq(all, 1, most)
                      ELSE Append(SubSeq(all, 1, dump.fits), NotShown)
    BY <1>9, <2>5, <2>6, <2>7 DEF Printed
  <2>9. dump.line <= most
    BY <1>5, <2>2, <2>7, LinesNat
  <2>10. CASE most <= dump.fits
    <3>1. dump.line = most
      BY <1>5, <2>2, <2>4, <2>7, <2>9, <2>10, LinesNat
    <3>2. \A i \in 1 .. most : i # dump.fits + 1 /\ i \in 1 .. Held
      BY <1>5, <2>2, <2>7, <2>10, LinesNat
    <3>3. PICK t : t = SubSeq(all, 1, most)
      OBVIOUS
    <3>4. t \in Seq(Int) /\ Len(t) = most /\ \A i \in 1 .. most : t[i] = all[i]
      BY <2>6, <2>7, <3>3, Beginnings
    <3>5. \A i \in 1 .. most : dump.shown[i] = t[i]
      BY <1>4, <2>6, <3>1, <3>2, <3>4
    <3>6. Len(dump.shown) = Len(t) /\ \A i \in 1 .. Len(dump.shown) : dump.shown[i] = t[i]
      BY <1>3, <3>1, <3>4, <3>5
    <3>7. dump.shown = t
      BY <1>3, <3>4, <3>6, SameLines
    <3> QED BY <2>8, <2>10, <3>3, <3>7
  <2>11. CASE most > dump.fits
    <3>1. dump.line = dump.fits + 1
      BY <1>5, <2>2, <2>4, <2>7, <2>9, <2>11, LinesNat
    <3>2. dump.fits \in 0 .. Held /\ \A i \in 1 .. dump.fits : i # dump.fits + 1 /\ i \in 1 .. Held
      BY <1>5, <2>2, <2>7, <2>11, LinesNat
    <3>3. PICK t : t = Append(SubSeq(all, 1, dump.fits), NotShown)
      OBVIOUS
    <3>4. /\ t \in Seq(Int) /\ Len(t) = dump.fits + 1 /\ \A i \in 1 .. dump.fits : t[i] = all[i]
          /\ t[dump.fits + 1] = NotShown
      <4>1. NotShown \in Int
        BY DEF NotShown
      <4>2. dump.fits \in 0 .. Len(all)
        BY <2>6, <3>2
      <4>3. all \in Seq(Int)
        BY <2>5
      <4>4. PICK n \in 0 .. Len(all) : n = dump.fits
        BY <4>2
      <4>5. PICK word \in Int : word = NotShown
        BY <4>1
      <4>6. /\ Append(SubSeq(all, 1, n), word) \in Seq(Int) /\ Len(Append(SubSeq(all, 1, n), word)) = n + 1
            /\ \A i \in 1 .. n : Append(SubSeq(all, 1, n), word)[i] = all[i]
            /\ Append(SubSeq(all, 1, n), word)[n + 1] = word
        BY <4>3, Beginnings
      <4>7. t = Append(SubSeq(all, 1, n), word)
        BY <3>3, <4>4, <4>5
      <4> QED BY <4>4, <4>5, <4>6, <4>7
    <3>5. \A i \in 1 .. dump.fits + 1 : dump.shown[i] = t[i]
      <4> SUFFICES ASSUME NEW i \in 1 .. dump.fits + 1 PROVE dump.shown[i] = t[i]
        OBVIOUS
      <4>1. dump.shown[i] = Line(i)
        BY <1>4, <3>1
      <4>2. CASE i = dump.fits + 1
        BY <1>9, <3>4, <4>1, <4>2 DEF Line
      <4>3. CASE i # dump.fits + 1
        <5>1. i \in 1 .. dump.fits
          BY <2>2, <4>3
        <5> QED BY <2>6, <3>2, <3>4, <4>1, <5>1
      <4> QED BY <4>2, <4>3
    <3>6. Len(dump.shown) = Len(t) /\ \A i \in 1 .. Len(dump.shown) : dump.shown[i] = t[i]
      BY <1>3, <3>1, <3>4, <3>5
    <3>7. dump.shown = t
      BY <1>3, <3>4, <3>6, SameLines
    <3>8. ~(most <= dump.fits)
      BY <2>2, <2>7, <2>11
    <3> QED BY <2>8, <3>3, <3>7, <3>8
  <2> QED BY <1>5, <2>2, <2>7, <2>10, <2>11
<1>10. CASE lastLine # 0 /\ dump.reader = "telnet"
  <2>1. \/ dump.line = Lines
        \/ dump.line \in 1 .. Lines - 2 /\ buffer[FromOldest(dump.line)] = Empty
    BY <1>8, <1>10, EndsWhen
  <2>2. dump.line <= IF Held = Lines - 1 THEN Lines ELSE Held
    BY <1>4, <1>10
  <2>3. CASE dump.line = Lines /\ Held = Lines - 1
    <3>1. Printed(dump) = Append(Log, Empty)
      BY <1>6, <1>10, <2>3 DEF Printed
    <3>2. PICK t : t = Append(Log, Empty)
      OBVIOUS
    <3>3. /\ t \in Seq(Int) /\ Len(t) = Held + 1 /\ \A i \in 1 .. Held : t[i] = Log[i]
          /\ t[Held + 1] = Empty
      <4>1. Empty \in Int
        BY DEF Empty
      <4> QED BY <1>6, <3>2, <4>1, AppendProperties
    <3>4. \A i \in 1 .. Held + 1 : dump.shown[i] = t[i]
      <4> SUFFICES ASSUME NEW i \in 1 .. Held + 1 PROVE dump.shown[i] = t[i]
        OBVIOUS
      <4>1. dump.shown[i] = Line(i)
        BY <1>4, <2>3, LinesNat
      <4>2. CASE i = Held + 1
        BY <1>10, <3>3, <4>1, <4>2 DEF Line
      <4>3. CASE i # Held + 1
        <5>1. i \in 1 .. Held
          BY <1>5, <4>3
        <5> QED BY <1>6, <1>10, <3>3, <4>1, <4>3, <5>1 DEF Line
      <4> QED BY <4>2, <4>3
    <3>5. Held + 1 = Lines
      BY <2>3, LinesNat
    <3>6. Len(dump.shown) = Len(t) /\ \A i \in 1 .. Len(dump.shown) : dump.shown[i] = t[i]
      BY <1>3, <2>3, <3>3, <3>4, <3>5
    <3>7. dump.shown = t
      BY <1>3, <3>3, <3>6, SameLines
    <3> QED BY <3>1, <3>2, <3>7
  <2>4. CASE ~(dump.line = Lines /\ Held = Lines - 1)
    <3>1. dump.line = Held /\ Held # Lines - 1
      <4>1. CASE dump.line = Lines
        BY <1>5, <2>2, <2>4, <4>1, LinesNat
      <4>2. CASE dump.line # Lines
        <5>1. dump.line \in 1 .. Lines - 2 /\ dump.line \in 0 .. Lines - 1 /\ buffer[FromOldest(dump.line)] = Empty
          BY <1>3, <2>1, <4>2, LinesNat
        <5>2. ~(dump.line < Held)
          BY <1>1, <1>2, <5>1, CalmOldest
        <5> QED BY <1>5, <2>2, <5>1, <5>2, LinesNat
      <4> QED BY <4>1, <4>2
    <3>2. Printed(dump) = Log
      BY <1>6, <1>10, <3>1 DEF Printed
    <3>3. \A i \in 1 .. Held : dump.shown[i] = Log[i]
      <4> SUFFICES ASSUME NEW i \in 1 .. Held PROVE dump.shown[i] = Log[i]
        OBVIOUS
      <4>1. i # Held + 1
        BY <1>5
      <4>2. dump.shown[i] = Line(i)
        BY <1>4, <3>1
      <4> QED BY <1>6, <1>10, <4>1, <4>2 DEF Line
    <3>4. Len(dump.shown) = Len(Log) /\ \A i \in 1 .. Len(dump.shown) : dump.shown[i] = Log[i]
      BY <1>3, <1>6, <3>1, <3>3
    <3>5. dump.shown = Log
      BY <1>3, <1>6, <3>4, SameLines
    <3> QED BY <3>2, <3>5
  <2> QED BY <2>3, <2>4
<1> QED BY <1>1, <1>7, <1>9, <1>10

\* The whole of a sequence is the sequence.
LEMMA Whole == ASSUME NEW s \in Seq(Int) PROVE SubSeq(s, 1, Len(s)) = s
<1>1. PICK b : b = SubSeq(s, 1, Len(s))
  OBVIOUS
<1>2. Len(s) \in Nat /\ Len(s) \in 0 .. Len(s)
  BY LenProperties
<1>3. b \in Seq(Int) /\ Len(b) = Len(s) /\ \A i \in 1 .. Len(s) : b[i] = s[i]
  BY <1>1, <1>2, SubSeqProperties
<1> QED BY <1>1, <1>3, SameLines

\* What a dump may come to at its end.
Fair(d) == d.shown = Shown(d) \/ FullTakenForEmpty(d) \/ LastLineMissing(d) \/ FreeLineShown(d)

\* What a calm dump prints is what it ought to show, but for the three named cases.
LEMMA PrintedIsFair ==
  ASSUME LogInv, WebLine \/ TelnetLine, dump.calm, dump.sound, dump.shown = Printed(dump)
  PROVE  Fair(dump)
<1>1. at[LoopTask] = "dumping" /\ dump.reader \in {"web", "telnet"}
  BY LineRests
<1>2. Writing = {} /\ upset = 0
  BY <1>1 DEF LogInv, Dumping
<1>3. /\ dump.reader = "web" => dump.fits \in 1 .. Lines
      /\ dump.reader = "telnet" => dump.fits = Lines
  BY <1>1, <1>2 DEF LogInv, CalmLines
<1>4. Held \in 0 .. Lines
  BY HeldIs DEF LogInv
<1>5. 0 \in 0 .. Lines - 1
  BY LinesNat
<1>6. Held < Lines => lastLine = Held
  BY <1>1, <1>2, <1>5, CalmOldest
<1>7. PICK all \in Seq(Int) : all = InOrder(dump)
  BY LogIs DEF LogInv, InOrder
<1>8. Len(all) = Held /\ Len(Log) = Held
  BY <1>7, LogIs DEF LogInv, InOrder
<1>9. /\ Held <= dump.fits => Shown(dump) = all
      /\ Held > dump.fits => Shown(dump) = Append(SubSeq(all, 1, dump.fits), NotShown)
  BY <1>1, <1>3, <1>4, <1>7, <1>8, LinesNat DEF Shown
<1>10. CASE lastLine = 0
  <2>1. dump.shown = <<>>
    BY <1>10 DEF Printed
  <2>2. CASE Held = Lines
    BY <1>8, <1>10, <2>1, <2>2 DEF Fair, FullTakenForEmpty
  <2>3. CASE Held # Lines
    <3>1. Held = 0 /\ Held <= dump.fits
      BY <1>1, <1>3, <1>4, <1>6, <1>10, <2>3, LinesNat
    <3>2. all = <<>>
      BY <1>8, <3>1, EmptySeq
    <3> QED BY <1>9, <2>1, <3>1, <3>2 DEF Fair
  <2> QED BY <2>2, <2>3
<1>11. CASE lastLine # 0 /\ dump.reader = "telnet"
  <2>1. dump.shown = IF Held = Lines - 1 THEN Append(Log, Empty) ELSE Log
    BY <1>8, <1>11 DEF Printed
  <2>2. Shown(dump) = Log
    BY <1>3, <1>4, <1>7, <1>9, <1>11, LinesNat DEF InOrder
  <2> QED BY <1>8, <1>11, <2>1, <2>2 DEF Fair, FreeLineShown
<1>12. CASE lastLine # 0 /\ dump.reader = "web"
  <2>1. PICK most \in 0 .. Held : most = IF Held < Lines THEN Held ELSE Lines - 1
    BY <1>4, LinesNat
  <2>2. dump.shown = IF most <= dump.fits THEN SubSeq(all, 1, most)
                     ELSE Append(SubSeq(all, 1, dump.fits), NotShown)
    BY <1>7, <1>8, <1>12, <2>1 DEF Printed, InOrder
  <2>3. CASE Held = Lines /\ dump.fits >= Lines - 1
    <3>1. most = Lines - 1 /\ most <= dump.fits
      BY <2>1, <2>3, LinesNat
    <3>2. dump.shown = SubSeq(all, 1, Lines - 1)
      BY <2>2, <3>1
    <3> QED BY <1>7, <1>8, <1>12, <2>3, <3>2 DEF Fair, LastLineMissing
  <2>4. CASE Held < Lines /\ Held <= dump.fits
    <3>1. dump.shown = SubSeq(all, 1, Len(all))
      BY <1>8, <2>1, <2>2, <2>4
    <3> QED BY <1>9, <2>4, <3>1, Whole DEF Fair
  <2>5. CASE Held > dump.fits /\ dump.fits < Lines - 1
    <3>1. ~(most <= dump.fits)
      BY <1>3, <1>4, <1>12, <2>1, <2>5, LinesNat
    <3> QED BY <1>9, <2>2, <2>5, <3>1 DEF Fair
  <2> QED
    BY <1>3, <1>4, <1>12, <2>3, <2>4, <2>5, LinesNat
<1> QED BY <1>1, <1>10, <1>11, <1>12

\* A dump that no other task disturbs shows the log: the last messages, in its order, or
\* what fits and a note, whatever tasks mixed up before, once the ring has gone round or
\* been cleared; for any length of the ring and any number of tasks.  It falls short of
\* that in three cases only: a full ring taken for an empty one, the last line of a full
\* ring the page leaves out, the free line telnet adds (addLogBuffer, clearLogBuffer,
\* webReadLogBufferCyclic, readLogger).
THEOREM CalmDump == LogSpec => CalmDumpIsTheLog
<1>1. LogInv /\ [LogNext]_logVars
        => [dump # NoDump /\ dump' = NoDump /\ dump.calm /\ dump.sound => Fair(dump)]_logVars
  <2> SUFFICES ASSUME LogInv, LogNext, dump # NoDump, dump' = NoDump, dump.calm, dump.sound
               PROVE  Fair(dump)
    OBVIOUS
  <2>1. dump.reader # "none" /\ at[LoopTask] = "dumping" /\ dump'.reader = "none"
    BY DEF LogInv, Dumping, NoDump
  <2>2. WebLine \/ TelnetLine
    <3>1. ASSUME NEW t \in Task, Write(t) PROVE FALSE
      <4>1. dump' = [dump EXCEPT !.calm = FALSE, !.sound = dump.sound /\ Writing = {}]
        BY <3>1 DEF Write, Disturbed
      <4>2. dump'.reader = dump.reader
        BY <4>1 DEF LogInv, LogTypeOK, Dumps
      <4> QED BY <2>1, <4>2
    <3>2. \A t \in Task : ~Fetch(t) /\ ~StoreNext(t)
      BY DEF Fetch, StoreNext
    <3>3. ~BeginClear /\ ~ClearLine /\ ~EndClear /\ ~AskForLog /\ \A reader : ~BeginDump(reader)
      BY <2>1 DEF BeginClear, ClearLine, EndClear, AskForLog, BeginDump
    <3> QED BY <3>1, <3>2, <3>3 DEF LogNext
  <2>3. DumpEnds
    <3>1. ~DumpEnds => \E entry : Shows(entry)
      BY <2>2, LineShows
    <3>2. ASSUME NEW entry, Shows(entry) PROVE FALSE
      <4>1. dump'.reader = dump.reader
        BY <3>2 DEF Shows, LogInv, LogTypeOK, Dumps
      <4> QED BY <2>1, <4>1
    <3> QED BY <3>1, <3>2
  <2> QED BY <2>2, <2>3, CalmEnd, PrintedIsFair
<1> QED BY <1>1, LogStarts, LogInductive, PTL DEF LogSpec, CalmDumpIsTheLog, Fair
=============================================================================

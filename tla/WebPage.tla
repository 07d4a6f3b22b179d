-------------------------------- MODULE WebPage --------------------------------
(***************************************************************************)
(* What a tab of the web interface shows (src/webUI.cpp,                   *)
(* src/webUIupdates.cpp).  A tab that has loaded asks for all values; the  *)
(* AsyncTCP task only latches the request and loop() answers in two        *)
(* steps, the language at once and the values with the next fast refresh.  *)
(* After that the device counter, like everything that changes, comes with *)
(* the slow refresh, and only when it has changed.  Every answer goes to   *)
(* all tabs that are open.                                                 *)
(*                                                                         *)
(* Tabs do not know of each other: one is followed, the others only ask.   *)
(* Of muTimer's cycles only the one of the latch is modelled in time: the  *)
(* two refreshes are asked in every pass and come due again and again.     *)
(* An operator marked "Slip" is a plausible bug in the one below it.       *)
(***************************************************************************)
EXTENDS Integers

CONSTANTS
  MaxCount,   \* bound of the device counter
  MaxLag      \* bound of the time the timer of the latch has fallen behind, in seconds

ASSUME WebAssumption == MaxCount \in Nat /\ MaxLag \in Nat \ {0}

VARIABLES
  tab,             \* the tab: open, asked, and what it shows
  overtaken,       \* it asked while an earlier request was being answered
  onLoadRequest,   \* the latch
  loadTimer,       \* onLoadTimer: its output, and how far its start is behind
  refreshRequest,  \* the values are asked for
  webPc,           \* where webUICyclic is
  flashing,        \* ota.isActive()
  devCnt,          \* the device counter
  devCntOld,       \* the one the slow refresh sent last
  returned         \* the counter changed and came back to devCntOld unsent

webVars == <<tab, overtaken, onLoadRequest, loadTimer, refreshRequest, webPc,
             flashing, devCnt, devCntOld, returned>>
counter == <<devCnt, devCntOld, returned>>

Count == 0 .. MaxCount
Blank == -1
Closed == [open |-> FALSE, asked |-> FALSE, language |-> FALSE, values |-> FALSE, count |-> Blank]

WebInit ==
  /\ tab = Closed /\ overtaken = FALSE
  /\ onLoadRequest = FALSE
  /\ loadTimer \in [out : {FALSE}, behind : 0 .. MaxLag]
  /\ refreshRequest = FALSE /\ webPc = "reload" /\ flashing = FALSE
  /\ devCnt \in Count /\ devCntOld = 0 /\ returned = FALSE

-----------------------------------------------------------------------------
(* The AsyncTCP task.                                                      *)

\* The websocket of the tab stands; from now on it hears what is sent.
Open ==
  /\ ~tab.open
  /\ tab' = [Closed EXCEPT !.open = TRUE] /\ overtaken' = FALSE
  /\ UNCHANGED <<onLoadRequest, loadTimer, refreshRequest, webPc, flashing, counter>>

Close ==
  /\ tab.open
  /\ tab' = Closed /\ overtaken' = FALSE
  /\ UNCHANGED <<onLoadRequest, loadTimer, refreshRequest, webPc, flashing, counter>>

\* The tab has loaded and asks for everything: setCallbackReload.
Ask ==
  /\ tab.open /\ ~tab.asked
  /\ tab' = [tab EXCEPT !.asked = TRUE]
  /\ onLoadRequest' = TRUE
  /\ overtaken' = (webPc = "clear" /\ ~tab.language)
  /\ UNCHANGED <<loadTimer, refreshRequest, webPc, flashing, counter>>

OtherTabAsks ==
  /\ ~onLoadRequest /\ onLoadRequest' = TRUE
  /\ UNCHANGED <<tab, overtaken, loadTimer, refreshRequest, webPc, flashing, counter>>

\* A firmware is uploaded, or the upload is over.
Flash ==
  /\ flashing' = ~flashing
  /\ UNCHANGED <<tab, overtaken, onLoadRequest, loadTimer, refreshRequest, webPc, counter>>

-----------------------------------------------------------------------------
(* muTimer::cycleTrigger(1000) of the latch, which is asked only while a   *)
(* request waits.                                                          *)

Second ==
  /\ loadTimer' = [loadTimer EXCEPT !.behind = IF @ < MaxLag THEN @ + 1 ELSE @]
  /\ UNCHANGED <<tab, overtaken, onLoadRequest, refreshRequest, webPc, flashing, counter>>

Triggers == ~loadTimer.out /\ loadTimer.behind > 0

\* A trigger takes the start one period on, not to the present; the call after a
\* trigger only takes the output back.
Cycle(t) ==
  IF t.out THEN [t EXCEPT !.out = FALSE]
  ELSE IF t.behind > 0 THEN [out |-> TRUE, behind |-> t.behind - 1] ELSE t

-----------------------------------------------------------------------------
(* webUICyclic, one pass of it.                                            *)

Waits ==
  /\ webPc = "reload" /\ ~(onLoadRequest /\ Triggers)
  /\ loadTimer' = IF onLoadRequest THEN Cycle(loadTimer) ELSE loadTimer
  /\ webPc' = "fast"
  /\ UNCHANGED <<tab, overtaken, onLoadRequest, refreshRequest, flashing, counter>>

\* Slip: the values are not asked for during an update.
RequestedUnlessFlashing == ~flashing

Requested == TRUE

\* updateAllElements: the values are asked for, the language is sent ...
Reload ==
  /\ webPc = "reload" /\ onLoadRequest /\ Triggers
  /\ loadTimer' = Cycle(loadTimer)
  /\ refreshRequest' = Requested
  /\ tab' = [tab EXCEPT !.language = tab.open]
  /\ webPc' = "clear"
  /\ UNCHANGED <<overtaken, onLoadRequest, flashing, counter>>

\* ... and the latch is cleared, whoever set it since.
ClearLatch ==
  /\ webPc = "clear"
  /\ onLoadRequest' = FALSE /\ webPc' = "fast"
  /\ UNCHANGED <<tab, overtaken, loadTimer, refreshRequest, flashing, counter>>

\* The fast refresh is not due, or there is nothing to send.
FastSkips ==
  /\ webPc = "fast" /\ webPc' = "slow"
  /\ UNCHANGED <<tab, overtaken, onLoadRequest, loadTimer, refreshRequest, flashing, counter>>

\* updateSystemInfoElementsStatic.
FastRefresh ==
  /\ webPc = "fast" /\ refreshRequest /\ ~flashing
  /\ tab' = IF tab.open THEN [tab EXCEPT !.values = TRUE, !.count = devCnt] ELSE tab
  /\ refreshRequest' = FALSE /\ webPc' = "slow"
  /\ UNCHANGED <<overtaken, onLoadRequest, loadTimer, flashing, counter>>

SlowSkips ==
  /\ webPc = "slow" /\ webPc' = "commands"
  /\ UNCHANGED <<tab, overtaken, onLoadRequest, loadTimer, refreshRequest, flashing, counter>>

\* Slip: only the first change is sent.
ChangedSinceStart == devCnt # devCntOld /\ devCntOld = 0

Changed == devCnt # devCntOld

\* updateSystemInfoElements: the counter is sent when it changed.
SlowRefresh ==
  /\ webPc = "slow" /\ ~refreshRequest /\ ~flashing
  /\ IF Changed
     THEN /\ devCntOld' = devCnt
          /\ tab' = IF tab.open THEN [tab EXCEPT !.count = devCnt] ELSE tab
     ELSE UNCHANGED <<devCntOld, tab>>
  /\ webPc' = "commands"
  /\ UNCHANGED <<overtaken, onLoadRequest, loadTimer, refreshRequest, flashing, devCnt, returned>>

\* The language is chosen on a page: updateAllElements again, past the latch.
ChooseLanguage ==
  /\ webPc = "commands" /\ webPc' = "reload"
  /\ refreshRequest' = Requested
  /\ tab' = [tab EXCEPT !.language = tab.open]
  /\ UNCHANGED <<overtaken, onLoadRequest, loadTimer, flashing, counter>>

\* The rest of loop(): a burst is sent, or the counter is set by hand.
Commands ==
  /\ webPc = "commands" /\ webPc' = "reload"
  /\ devCnt' \in Count
  /\ returned' = IF devCnt' = devCnt THEN returned ELSE devCnt' = devCntOld
  /\ UNCHANGED <<tab, overtaken, onLoadRequest, loadTimer, refreshRequest, flashing, devCntOld>>

-----------------------------------------------------------------------------
WebUICyclic ==
  \/ Waits \/ Reload \/ ClearLatch \/ FastSkips \/ FastRefresh \/ SlowSkips \/ SlowRefresh
  \/ ChooseLanguage \/ Commands

WebNext ==
  \/ WebUICyclic
  \/ Open \/ Close \/ Ask \/ OtherTabAsks \/ Flash \/ Second

-----------------------------------------------------------------------------
(* What may be relied upon.                                                *)

\* While no firmware comes a tab that asks and stays open is given everything, also when
\* another tab asks meanwhile; a request that falls between an answer and the clearing
\* of the latch is lost, and of that answer only the values still reach the tab
\* (webUI.cpp:109-113 with webUIupdates.cpp:559-563).
TabIsFilled ==
  <>[]~flashing => (tab.asked ~> (~tab.open \/ (tab.values /\ (tab.language \/ overtaken))))

\* Once the counter rests and no firmware comes, a tab that stays open shows it; but for
\* a counter that was changed and set back between two slow refreshes, with the values
\* sent in between (webUIupdates.cpp:226-231 and 259).
CounterReachesTab ==
  <>[](tab.asked /\ ~flashing) /\ <>[][devCnt' = devCnt]_devCnt
    => <>[](tab.count = devCnt \/ returned)
=============================================================================

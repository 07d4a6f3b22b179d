----------------------------- MODULE FirmwareUpdate -----------------------------
(***************************************************************************)
(* The three ways a new firmware comes in, and what they share: the flag   *)
(* that an update runs, the watchdog, and the release that was fetched     *)
(* from GitHub (src/webUI.cpp, src/webUIupdates.cpp, src/main.cpp).  An    *)
(* upload runs in the AsyncTCP task; ArduinoOTA and the update from GitHub *)
(* hold up loop() for as long as they take.                                *)
(*                                                                         *)
(* A release is the memory it was given.  The flag and the watchdog are    *)
(* written one after the other, and the tasks interleave in between.       *)
(* An operator marked "Slip" is a plausible bug in the one below it.       *)
(***************************************************************************)
EXTENDS Integers

CONSTANT Releases   \* memory that a fetched release may be given

VARIABLES
  setupMode,               \* the controller runs in setup mode
  fwPc,                    \* where loop() is
  upload,                  \* where the upload of a file is
  active,                  \* ota.isActive()
  watchdog,                \* wdt.isActive()
  startCheckGitHubVersion,
  startGitHubUpdate,
  heap,                    \* releases that hold memory
  release,                 \* ghLatestRelease, or None
  assetFound,              \* ghReleaseInfo.assetFound
  met                      \* two updates ran at once, and one still does

fwVars == <<setupMode, fwPc, upload, active, watchdog, startCheckGitHubVersion,
            startGitHubUpdate, heap, release, assetFound, met>>
github == <<startCheckGitHubVersion, startGitHubUpdate, heap, release, assetFound>>

None == "none"

ASSUME ReleasesAssumption == None \notin Releases

FwInit ==
  /\ setupMode \in BOOLEAN
  /\ fwPc = "pass" /\ upload = "none"
  /\ active = FALSE /\ watchdog = ~setupMode
  /\ startCheckGitHubVersion = FALSE /\ startGitHubUpdate = FALSE
  /\ heap = {} /\ release = None /\ assetFound = FALSE
  /\ met = FALSE

\* Where an update is past its beginning and before its end.
InLoop == fwPc \notin {"pass", "version", "update", "commands"}

Meets(inLoop, uploading) == met' = ((inLoop /\ uploading) \/ (met /\ (inLoop \/ uploading)))

-----------------------------------------------------------------------------
(* A file is uploaded: setCallbackOta, in the AsyncTCP task.               *)

UploadBegins ==
  /\ upload = "none" /\ upload' = "begun" /\ active' = TRUE
  /\ Meets(InLoop, TRUE)
  /\ UNCHANGED <<setupMode, fwPc, watchdog, github>>

UploadUnwatched ==
  /\ upload = "begun" /\ upload' = "running" /\ watchdog' = FALSE
  /\ UNCHANGED <<setupMode, fwPc, active, github, met>>

\* OTA_FINISH or OTA_ERROR.
UploadEnds ==
  /\ upload = "running" /\ upload' = "ended" /\ active' = FALSE
  /\ UNCHANGED <<setupMode, fwPc, watchdog, github, met>>

\* Slip: only an upload that succeeded switches the watchdog on again.
RewatchedIfDone == \E done \in BOOLEAN : watchdog' = (watchdog \/ done)

Rewatched == watchdog' = TRUE

UploadWatched ==
  /\ upload = "ended" /\ upload' = "none" /\ Rewatched
  /\ Meets(InLoop, FALSE)
  /\ UNCHANGED <<setupMode, fwPc, active, github>>

-----------------------------------------------------------------------------
(* ArduinoOTA, at the head of loop().                                      *)

NothingFromArduino ==
  /\ fwPc = "pass" /\ fwPc' = "version"
  /\ UNCHANGED <<setupMode, upload, active, watchdog, github, met>>

ArduinoBegins ==
  /\ fwPc = "pass" /\ fwPc' = "arduino begun" /\ watchdog' = FALSE
  /\ Meets(TRUE, upload # "none")
  /\ UNCHANGED <<setupMode, upload, active, github>>

ArduinoRuns ==
  /\ fwPc = "arduino begun" /\ fwPc' = "arduino runs" /\ active' = TRUE
  /\ UNCHANGED <<setupMode, upload, watchdog, github, met>>

\* onEnd or onError: in setup mode there is no watchdog to go back to.
ArduinoWatched ==
  /\ fwPc = "arduino runs" /\ fwPc' = "arduino ended"
  /\ watchdog' = IF setupMode THEN watchdog ELSE TRUE
  /\ UNCHANGED <<setupMode, upload, active, github, met>>

ArduinoEnds ==
  /\ fwPc = "arduino ended" /\ fwPc' = "version" /\ active' = FALSE
  /\ Meets(FALSE, upload # "none")
  /\ UNCHANGED <<setupMode, upload, watchdog, github>>

-----------------------------------------------------------------------------
(* The release on GitHub.                                                  *)

\* Slip: the release that an earlier check left is overwritten.
KeptFromBefore == heap

\* ghReleaseClear frees what is held ...
KeptAfterClear == heap \ {release}

\* Slip: a release there is no file for is not freed.
UnfitKept(r) == {r}

\* ... and so does a check that finds nothing to flash.
UnfitFreed(r) == {}

\* processGitHubVersion.  A fetch may fail before or after it was given memory.
CheckVersion ==
  /\ fwPc = "version" /\ fwPc' = "update"
  /\ IF ~startCheckGitHubVersion THEN UNCHANGED github
     ELSE /\ startCheckGitHubVersion' = FALSE
          /\ \E r \in Releases \ KeptAfterClear, fits \in BOOLEAN :
               /\ release' = IF fits THEN r ELSE None
               /\ assetFound' = fits
               /\ heap' = KeptAfterClear \cup (IF fits THEN {r} ELSE UnfitFreed(r))
          /\ UNCHANGED startGitHubUpdate
  /\ UNCHANGED <<setupMode, upload, active, watchdog, met>>

\* processGitHubUpdate: no request, or one from a tab that shows the button of a
\* release that is gone.
NothingToFlash ==
  /\ fwPc = "update" /\ (startGitHubUpdate => ~assetFound \/ release = None)
  /\ fwPc' = "commands" /\ startGitHubUpdate' = FALSE
  /\ UNCHANGED <<setupMode, upload, active, watchdog, startCheckGitHubVersion, heap, release, assetFound, met>>

FlashBegins ==
  /\ fwPc = "update" /\ startGitHubUpdate /\ assetFound /\ release # None
  /\ fwPc' = "flash begun" /\ startGitHubUpdate' = FALSE /\ active' = TRUE
  /\ Meets(TRUE, upload # "none")
  /\ UNCHANGED <<setupMode, upload, watchdog, startCheckGitHubVersion, heap, release, assetFound>>

FlashRuns ==
  /\ fwPc = "flash begun" /\ fwPc' = "flash runs" /\ watchdog' = FALSE
  /\ UNCHANGED <<setupMode, upload, active, github, met>>

FlashEnds ==
  /\ fwPc = "flash runs" /\ fwPc' = "flash ended" /\ active' = FALSE
  /\ UNCHANGED <<setupMode, upload, watchdog, github, met>>

\* However it went: the next attempt fetches the release anew.
FlashWatched ==
  /\ fwPc = "flash ended" /\ fwPc' = "commands" /\ watchdog' = TRUE
  /\ heap' = KeptAfterClear /\ release' = None /\ assetFound' = FALSE
  /\ Meets(FALSE, upload # "none")
  /\ UNCHANGED <<setupMode, upload, active, startCheckGitHubVersion, startGitHubUpdate>>

\* The buttons of any tab, dispatched by cmdQueueCyclic.
Buttons ==
  /\ fwPc = "commands" /\ fwPc' = "pass"
  /\ startCheckGitHubVersion' \in {startCheckGitHubVersion, TRUE}
  /\ startGitHubUpdate' \in {startGitHubUpdate, TRUE}
  /\ UNCHANGED <<setupMode, upload, active, watchdog, heap, release, assetFound, met>>

-----------------------------------------------------------------------------
FwNext ==
  \/ UploadBegins \/ UploadUnwatched \/ UploadEnds \/ UploadWatched
  \/ NothingFromArduino \/ ArduinoBegins \/ ArduinoRuns \/ ArduinoWatched \/ ArduinoEnds
  \/ CheckVersion \/ NothingToFlash \/ FlashBegins \/ FlashRuns \/ FlashEnds \/ FlashWatched
  \/ Buttons

FwSpec == FwInit /\ [][FwNext]_fwVars

-----------------------------------------------------------------------------
(* What may be relied upon.                                                *)

\* When no update runs the watchdog watches again and the pages are refreshed, however
\* updates overlapped and ended; and while one alone runs, which holds up loop() or
\* writes the flash for longer than the watchdog waits, the watchdog is off (webUI.cpp:
\* 41-63, main.cpp:60-78, webUIupdates.cpp:493-535).
WatchdogFollowsUpdates ==
  /\ ~InLoop /\ upload = "none" => ~active /\ (watchdog \/ setupMode)
  /\ ~met /\ (fwPc \in {"flash runs", "arduino runs"} \/ upload = "running") => active /\ ~watchdog

\* A fetched release has one owner: whatever is asked for in whatever order, no
\* release is left behind without one, and what is flashed still holds its memory
\* (webUIupdates.cpp:407-424, 430-434 and 530-535).
ReleaseHasOneOwner ==
  /\ heap = {release} \ {None}
  /\ assetFound => release # None
=============================================================================

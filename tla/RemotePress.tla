----------------------------- MODULE RemotePress -----------------------------
(***************************************************************************)
(* What one press of a button on a wall remote becomes: the controller     *)
(* hears the remotes beside the receivers and tells the position tracker.  *)
(*                                                                         *)
(* A remote repeats its frame while a button is held.  A frame waits until *)
(* loop() takes it (RxCapture), so it may come late or, when loop() is     *)
(* held up, not at all.  The long press detector (ShadeDetector.h) turns a *)
(* held STOP into one SHADE, and the repeat filter (src/remoteMatch.cpp)   *)
(* passes on one frame of a press.  Each has its own idea of a press, the  *)
(* detector by the channel mask too, the filter without it; here they are  *)
(* compared with the presses themselves.                                   *)
(*                                                                         *)
(* The group bits of a mask are not checked (FrameCheck.h), and a frame    *)
(* that was parked may lack them (FrameDecoder.h), so any frame of a press *)
(* may show any mask.                                                      *)
(*                                                                         *)
(* Times are kept as ages, which is how the code uses them.  They stop at  *)
(* Far: that millis() wraps matters only to a pause of 49 days.  An        *)
(* operator marked "Slip" is a plausible bug in the definition below it.   *)
(***************************************************************************)
EXTENDS Integers, Sequences

CONSTANTS
  Remote,        \* the serials
  Button,        \* the functions FrameCheck lets pass
  Mask,          \* the channel masks of the frames
  Hold,          \* kHoldMs: a STOP held this long is a SHADE
  RunGap,        \* kGapMs: a longer pause ends the run of STOP frames
  RepeatGap,     \* REMOTE_REPEAT_GAP_MS: a pause this long ends the press
  MaxPresses     \* bound: presses of any two remotes in one behaviour

ASSUME ButtonAssumption == "STOP" \in Button /\ {"SHADE", "none"} \cap Button = {}
ASSUME MaskAssumption   == Mask # {}
ASSUME GapAssumption ==
  /\ Hold \in Nat /\ RunGap \in Nat /\ RepeatGap \in Nat
  /\ 0 < RepeatGap /\ RepeatGap <= RunGap /\ RunGap < Hold

Far  == Hold + 1
Ages == 0 .. Far
None == "none"

\* The mask before the first frame, which nothing looks at.
AnyMask == CHOOSE mask \in Mask : TRUE

VARIABLES
  held,          \* per remote: the button that is pressed, or None
  presses,       \* per remote: its presses so far
  slot,          \* the frame that waits for loop(), if any
  shade,         \* ShadeDetector
  filter,        \* pressValid, pressSerial, pressFunction, pressLastMs
  heard          \* per remote: what was really heard of it, see Hearing

pressVars == <<held, presses, slot, shade, filter, heard>>

Function == Button \cup {"SHADE"}
Frame == [remote : Remote, button : Button, mask : Mask, press : Nat]

\* The latest press of a remote and its latest run of STOPs, by the frames of
\* it that were taken.
Hearing == [
  press  : Nat,              \* number of the press
  button : Button,
  mask   : Mask,             \* of the latest frame
  told   : Seq(Function),    \* its reports while it was clean
  clean  : BOOLEAN,          \* heard without a pause or another remote
  fresh  : BOOLEAN,          \* nothing alike was heard just before it
  last   : Ages,             \* since the latest frame
  alone  : BOOLEAN,          \* no other remote was heard since then
  run    : BOOLEAN,          \* the latest frame is part of a run of STOPs with
  length : 0 .. Hold,        \* its mask, which has lasted this long
  shaded : BOOLEAN ]         \* and has become a SHADE

PressTypeOK ==
  /\ held \in [Remote -> Button \cup {None}] /\ presses \in [Remote -> Nat]
  /\ slot \in Seq(Frame) /\ Len(slot) <= 1
  /\ shade \in [active : BOOLEAN, reported : BOOLEAN, serial : Remote \cup {None},
               channel : Mask, start : Ages, last : Ages]
  /\ filter \in [valid : BOOLEAN, serial : Remote \cup {None}, function : Function, last : Ages]
  /\ heard \in [Remote -> Hearing]

PressInit ==
  /\ held = [r \in Remote |-> None] /\ presses = [r \in Remote |-> 0]
  /\ slot = <<>>
  /\ shade = [active |-> FALSE, reported |-> FALSE, serial |-> None, channel |-> AnyMask,
              start |-> 0, last |-> 0]
  /\ heard = [r \in Remote |->
       [press |-> 0, button |-> "STOP", mask |-> AnyMask, told |-> <<>>, clean |-> FALSE,
        fresh |-> FALSE, last |-> Far, alone |-> FALSE, run |-> FALSE, length |-> 0,
        shaded |-> FALSE]]
  /\ filter = [valid |-> FALSE, serial |-> None, function |-> "STOP", last |-> 0]

-----------------------------------------------------------------------------
(* ShadeDetector::update.                                                  *)

\* Slip: the mask is not looked at.
RunEndsByRemote(r, mask) == ~shade.active \/ shade.serial # r \/ shade.last > RunGap

RunEnds(r, mask) ==
  ~shade.active \/ shade.serial # r \/ shade.channel # mask \/ shade.last > RunGap

\* The run a STOP frame belongs to.
Run(r, mask) ==
  IF RunEnds(r, mask)
  THEN [active |-> TRUE, reported |-> FALSE, serial |-> r, channel |-> mask, start |-> 0, last |-> 0]
  ELSE [shade EXCEPT !.last = 0]

IsShade(r, button, mask) ==
  button = "STOP" /\ ~Run(r, mask).reported /\ Run(r, mask).start >= Hold

Updated(r, button, mask) ==
  IF button = "STOP" THEN [Run(r, mask) EXCEPT !.reported = @ \/ IsShade(r, button, mask)]
  ELSE [shade EXCEPT !.active = FALSE]

FunctionOf(r, button, mask) == IF IsShade(r, button, mask) THEN "SHADE" ELSE button

-----------------------------------------------------------------------------
(* remoteIsRepeat.                                                         *)

\* Slip: the STOP frames after a SHADE are a press of their own.
IsRepeatExactly(r, function) ==
  /\ filter.valid /\ filter.serial = r /\ filter.last < RepeatGap
  /\ function = filter.function

\* Slip: the button is not looked at.
IsRepeatAny(r, function) ==
  filter.valid /\ filter.serial = r /\ filter.last < RepeatGap

IsRepeat(r, function) ==
  /\ filter.valid /\ filter.serial = r /\ filter.last < RepeatGap
  /\ function = filter.function \/ (filter.function = "SHADE" /\ function = "STOP")

\* A repeat keeps the press alive, anything else starts one.
Filtered(r, function) ==
  IF IsRepeat(r, function) THEN [filter EXCEPT !.last = 0]
  ELSE [valid |-> TRUE, serial |-> r, function |-> function, last |-> 0]

-----------------------------------------------------------------------------
(* The press a frame really belongs to.                                    *)

\* The filter may take a press for the one before it.
Alike(h, frame) ==
  /\ h.last < RepeatGap
  /\ h.button = frame.button

\* One more frame of a remote is taken: the detector makes it the function, and
\* told is what is reported of it.
Hears(h, frame, function, told) ==
  LET new   == h.press # frame.press
      clean == new \/ (h.clean /\ h.alone /\ h.last < RepeatGap)
      run   == h.run /\ h.alone /\ h.mask = frame.mask /\ h.last <= RunGap
      sofar == IF h.length + h.last > Hold THEN Hold ELSE h.length + h.last
  IN [press  |-> frame.press,
      button |-> frame.button,
      mask   |-> frame.mask,
      told   |-> IF new THEN told ELSE IF clean THEN h.told \o told ELSE h.told,
      clean  |-> clean,
      fresh  |-> IF new THEN ~Alike(h, frame) ELSE h.fresh,
      last   |-> 0,
      alone  |-> TRUE,
      run    |-> frame.button = "STOP",
      length |-> IF run THEN sofar ELSE 0,
      shaded |-> (run /\ h.shaded) \/ function = "SHADE"]

-----------------------------------------------------------------------------
Press(r) ==
  /\ held[r] = None /\ \A q \in Remote \ {r} : presses[r] + presses[q] < MaxPresses
  /\ \E button \in Button : held' = [held EXCEPT ![r] = button]
  /\ presses' = [presses EXCEPT ![r] = @ + 1]
  /\ UNCHANGED <<slot, shade, filter, heard>>

Release(r) ==
  /\ held[r] # None
  /\ held' = [held EXCEPT ![r] = None]
  /\ UNCHANGED <<presses, slot, shade, filter, heard>>

\* A frame is received; one that finds the slot taken is lost.
Transmit(r) ==
  /\ held[r] # None /\ slot = <<>>
  /\ \E mask \in Mask :
       slot' = <<[remote |-> r, button |-> held[r], mask |-> mask, press |-> presses[r]]>>
  /\ UNCHANGED <<held, presses, shade, filter, heard>>

\* processRxData takes a frame and mqttSendRemote, its callback, reports it.
Take ==
  /\ slot # <<>> /\ slot' = <<>>
  /\ LET frame    == Head(slot)
         r        == frame.remote
         function == FunctionOf(r, frame.button, frame.mask)
         repeat   == IsRepeat(r, function)
     IN /\ shade' = Updated(r, frame.button, frame.mask)
        /\ filter' = Filtered(r, function)
        /\ heard' = [q \in Remote |->
             IF q = r THEN Hears(heard[r], frame, function, IF repeat THEN <<>> ELSE <<function>>)
             ELSE [heard[q] EXCEPT !.alone = FALSE]]
  /\ UNCHANGED <<held, presses>>

Older(age) == IF age = Far THEN Far ELSE age + 1

Tick ==
  /\ shade' = [shade EXCEPT !.start = Older(@), !.last = Older(@)]
  /\ filter' = [filter EXCEPT !.last = Older(@)]
  /\ heard' = [r \in Remote |-> [heard[r] EXCEPT !.last = Older(@)]]
  /\ UNCHANGED <<held, presses, slot>>

PressNext ==
  \/ \E r \in Remote : Press(r) \/ Release(r) \/ Transmit(r)
  \/ Take
  \/ Tick

PressSpec == PressInit /\ [][PressNext]_pressVars

-----------------------------------------------------------------------------
(* What may be relied upon.                                                *)

\* A press that is heard without a pause is reported at most once, and a STOP
\* perhaps a second time, as the SHADE it has become; nothing follows the SHADE
\* (remoteMatch.cpp:46-62, jarolift.cpp:145-158).
OneReportPerPress ==
  \A r \in Remote : LET h == heard[r] IN
    h.clean => h.told \in {<<>>, <<h.button>>}
                 \cup IF h.button = "STOP" THEN {<<"STOP", "SHADE">>, <<"SHADE">>} ELSE {}

\* Between the two of them the detector and the filter swallow no press: unless
\* the same button of the same remote was heard just before, its first frame is
\* reported, however late, and whatever the other remotes do.
EveryPressReported ==
  \A r \in Remote : LET h == heard[r] IN
    h.press > 0 /\ h.fresh => h.told # <<>> /\ h.told[1] \in {h.button, "SHADE"}

\* A run of STOPs of one remote with one mask becomes a SHADE exactly when it has
\* been heard for kHoldMs without a pause longer than kGapMs (ShadeDetector.h:38-68).
ShadeIsLongStop ==
  \A r \in Remote : LET h == heard[r] IN h.run => (h.shaded <=> h.length = Hold)
=============================================================================

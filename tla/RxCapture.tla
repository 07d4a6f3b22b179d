------------------------------ MODULE RxCapture ------------------------------
(***************************************************************************)
(* The capture of remote frames                                            *)
(* (src/lib/JaroliftController/JaroliftController.cpp): an interrupt on    *)
(* every edge of the radio's data line fills the pulse buffer, and loop()  *)
(* takes complete frames out of it.  A frame that ends before loop() comes *)
(* by is parked in a second buffer, the pending slot.  Both sides run      *)
(* under the spinlock rxMux_, so each of them is one step; loop() may come *)
(* by after any edge, and a transmission switches the interrupt off.       *)
(*                                                                         *)
(* The air is a series of bursts, numbered as they come: a burst begins    *)
(* with a sync pulse or after a pause.  A stored half pulse is the number  *)
(* of the burst it was heard in, a sync pulse the negative of it, and 0 is *)
(* a cleared entry: what the bits say is not told apart, where they come   *)
(* from is.  An operator marked "Slip" is a plausible bug in the           *)
(* definition below it.                                                    *)
(***************************************************************************)
EXTENDS Integers

CONSTANTS
  Least,         \* pulses of the shortest complete frame: 65 in the code
  Full,          \* FrameDecoder::kFullFrame: 73
  Most,          \* pulses of the longest complete frame: 75
  Size,          \* kPulseBufferSize: 216
  MaxBursts,     \* bound: bursts in one behaviour
  MaxMissing     \* bound: high halves out of range within them

ASSUME PulseAssumption ==
  /\ Least \in Nat /\ Full \in Nat /\ Most \in Nat /\ Size \in Nat
  /\ 1 < Least /\ Least < Full /\ Full <= Most /\ Most + 1 < Size

Captured == Full - 1                 \* FrameDecoder::kCapturedFrame
Burst    == 0 .. MaxBursts

\* A buffer; the entry after the last stands for the memory behind it.
Buffer   == [0 .. Size -> Int]
Cleared  == [i \in 0 .. Size |-> 0]

VARIABLES
  lowBuf, hiBuf, pbWrite,            \* the live buffer
  pendingLow, pendingHi,             \* the pending slot,
  pendingReady, pendingPulses,       \* which pendingReady says is in use
  snapLow, snapHi, snapPulses,       \* the frame loop() took last
  attached,      \* rxIrqAttached_
  diagFrames,    \* frames loop() has taken
  completeLost,  \* diagCompleteLost_
  wiped,         \* complete frames a transmission has wiped, which the code
                 \* counts nowhere
  burst,         \* number of the burst on the air
  sent,          \* pulses of it since its sync pulse, 0 if it had none;
                 \* counted up to one too many
  complete,      \* complete frames that have been on the air
  missing        \* so far, only to bound the model

live    == <<lowBuf, hiBuf, pbWrite>>
pending == <<pendingLow, pendingHi, pendingReady, pendingPulses>>
snap    == <<snapLow, snapHi, snapPulses>>
vars    == <<live, pending, snap, attached, diagFrames, completeLost, wiped, burst, sent, complete,
            missing>>

TypeOK ==
  /\ lowBuf \in Buffer /\ hiBuf \in Buffer /\ pbWrite \in 0 .. Size
  /\ pendingLow \in Buffer /\ pendingHi \in Buffer
  /\ pendingReady \in BOOLEAN /\ pendingPulses \in 0 .. Most
  /\ snapLow \in Buffer /\ snapHi \in Buffer /\ snapPulses \in 0 .. Most
  /\ attached \in BOOLEAN
  /\ diagFrames \in Nat /\ completeLost \in Nat /\ wiped \in Nat
  /\ complete \in Nat
  /\ burst \in Nat /\ sent \in 0 .. Most + 1 /\ missing \in Nat

\* begin() has armed the interrupt.
Init ==
  /\ lowBuf = Cleared /\ hiBuf = Cleared /\ pbWrite = 0
  /\ pendingLow = Cleared /\ pendingHi = Cleared /\ pendingReady = FALSE /\ pendingPulses = 0
  /\ snapLow = Cleared /\ snapHi = Cleared /\ snapPulses = 0
  /\ attached = TRUE
  /\ diagFrames = 0 /\ completeLost = 0 /\ wiped = 0
  /\ burst = 0 /\ sent = 0 /\ complete = 0 /\ missing = 0

-----------------------------------------------------------------------------
(* The interrupt.                                                          *)

IsSync(pulse) == pulse < 0

\* Slip: a frame without its group bits is no frame.
WholeOnlyFull == pbWrite \in Full .. Most /\ IsSync(lowBuf[0])

\* noteDiscardedFrame: what is in the live buffer is about to be thrown away.
Whole == pbWrite \in Least .. Most /\ IsSync(lowBuf[0])

NoteDiscardedFrame ==
  IF Whole /\ ~pendingReady
  THEN /\ pendingLow' = lowBuf /\ pendingHi' = hiBuf
       /\ pendingPulses' = pbWrite /\ pendingReady' = TRUE
       /\ UNCHANGED completeLost
  ELSE /\ completeLost' = IF Whole THEN completeLost + 1 ELSE completeLost
       /\ UNCHANGED pending

\* What is heard next is another burst.
NextBurst ==
  /\ burst < MaxBursts /\ burst' = burst + 1
  /\ complete' = IF sent \in Least .. Most THEN complete + 1 ELSE complete

\* A pause of more than 3.5 ms ends a burst.
BurstEnds == NextBurst /\ NoteDiscardedFrame

BurstGoesOn == UNCHANGED <<burst, complete, pending, completeLost>>

\* A low half of 3.65 to 4.3 ms, which itself is such a pause.
SyncEdge ==
  /\ BurstEnds
  /\ lowBuf' = [lowBuf EXCEPT ![0] = -burst'] /\ hiBuf' = [hiBuf EXCEPT ![1] = 0]
  /\ pbWrite' = 1 /\ sent' = 1 /\ UNCHANGED missing

\* Slip: a burst without end fills what lies behind the buffer.
PulseAtAnyway(at) ==
  /\ lowBuf' = [lowBuf EXCEPT ![at] = burst']
  /\ hiBuf' = IF at + 1 < Size THEN [hiBuf EXCEPT ![at + 1] = 0] ELSE hiBuf
  /\ pbWrite' = at + 1

\* Slip: the half that follows is not cleared.
PulseAtUncleared(at) == LET i == IF at >= Size THEN 0 ELSE at IN
  /\ lowBuf' = [lowBuf EXCEPT ![i] = burst']
  /\ hiBuf' = hiBuf
  /\ pbWrite' = i + 1

\* A low half of 0.3 to 1 ms is stored, and the high half after it cleared.
PulseAt(at) == LET i == IF at >= Size THEN 0 ELSE at IN
  /\ lowBuf' = [lowBuf EXCEPT ![i] = burst']
  /\ hiBuf' = IF i + 1 < Size THEN [hiBuf EXCEPT ![i + 1] = 0] ELSE hiBuf
  /\ pbWrite' = i + 1

\* Its high half has been stored, or was out of range.
HalfBefore ==
  IF pbWrite = Size \/ hiBuf[pbWrite] = burst THEN UNCHANGED missing
  ELSE missing < MaxMissing /\ missing' = missing + 1

PulseEdge ==
  \/ /\ BurstGoesOn /\ HalfBefore /\ PulseAt(pbWrite)
     /\ sent' = IF sent \in {0, Most + 1} THEN sent ELSE sent + 1
  \/ BurstEnds /\ PulseAt(0) /\ sent' = 0 /\ UNCHANGED missing

\* A high half of 0.3 to 1 ms is stored where its low half will be.
HalfAt(at) ==
  /\ hiBuf' = IF at < Size THEN [hiBuf EXCEPT ![at] = burst'] ELSE hiBuf
  /\ pbWrite' = at /\ UNCHANGED lowBuf

HalfEdge ==
  /\ \/ BurstGoesOn /\ HalfAt(pbWrite) /\ UNCHANGED sent
     \/ BurstEnds /\ HalfAt(0) /\ sent' = 0
  /\ UNCHANGED missing

\* Any other edge stores nothing, but it may be the first after a pause.
OtherEdge ==
  BurstEnds /\ pbWrite' = 0 /\ sent' = 0 /\ UNCHANGED <<lowBuf, hiBuf, missing>>

HandleRadioRxMeasure ==
  /\ attached
  /\ SyncEdge \/ PulseEdge \/ HalfEdge \/ OtherEdge
  /\ UNCHANGED <<snap, attached, diagFrames, wiped>>

-----------------------------------------------------------------------------
(* loop().                                                                 *)

\* Slip: a frame is taken as soon as all its low halves are there.
FrameCompleteEarly == IsSync(lowBuf[0]) /\ pbWrite \in Captured .. Most

\* A live frame is taken only when every bit of it is a whole pulse.
FrameComplete == IsSync(lowBuf[0]) /\ pbWrite \in Full .. Most

TakePending ==
  /\ pendingReady /\ pendingReady' = FALSE
  /\ snapLow' = pendingLow /\ snapHi' = pendingHi /\ snapPulses' = pendingPulses
  /\ UNCHANGED <<live, pendingLow, pendingHi, pendingPulses>>

\* Slip: the live buffer is copied and left as it is.
TakeLiveCopy ==
  /\ ~pendingReady /\ FrameComplete
  /\ snapLow' = lowBuf /\ snapHi' = hiBuf /\ snapPulses' = pbWrite
  /\ UNCHANGED <<live, pending>>

TakeLive ==
  /\ ~pendingReady /\ FrameComplete
  /\ snapLow' = lowBuf /\ snapHi' = hiBuf /\ snapPulses' = pbWrite
  /\ pbWrite' = 0 /\ lowBuf' = Cleared /\ hiBuf' = Cleared
  /\ UNCHANGED pending

\* processRxData, when there is a frame to take.
ProcessRxData ==
  /\ TakePending \/ TakeLive
  /\ diagFrames' = diagFrames + 1
  /\ UNCHANGED <<attached, completeLost, wiped, burst, sent, complete, missing>>

\* A transmission: what was being received is cut off.
DetachRxInterrupt ==
  /\ attached /\ attached' = FALSE
  /\ UNCHANGED <<live, pending, snap, diagFrames, completeLost, wiped, burst, sent, complete, missing>>

\* After it the live buffer is wiped, with a complete frame in it if there is one;
\* a parked frame stays.
AttachRxInterrupt ==
  /\ ~attached /\ attached' = TRUE
  /\ NextBurst /\ sent' = 0
  /\ pbWrite' = 0 /\ lowBuf' = [lowBuf EXCEPT ![0] = 0]
  /\ wiped' = IF Whole THEN wiped + 1 ELSE wiped
  /\ UNCHANGED <<hiBuf, pending, snap, diagFrames, completeLost, missing>>

Next ==
  HandleRadioRxMeasure \/ ProcessRxData \/ DetachRxInterrupt \/ AttachRxInterrupt

Spec == Init /\ [][Next]_vars

-----------------------------------------------------------------------------
(* What may be relied upon.                                                *)

\* The pulses FrameDecoder::decode reads of a frame with n pulses: the pairs, and
\* after Captured pulses the lone half of the last bit.
ReadsHalf(n) == 1 .. IF n = Captured THEN n ELSE n - 1

\* A frame that is decoded is one burst from its sync pulse on: no pulse and no
\* half of another burst, of an earlier frame or of noise is read as a bit of it
\* (lines 1117-1119, 659, 1163-1166).
FrameIsOneBurst ==
  snapPulses > 0 =>
    /\ IsSync(snapLow[0])
    /\ \A i \in 1 .. snapPulses - 1 : snapLow[i] = -snapLow[0]
    /\ \A i \in ReadsHalf(snapPulses) : snapHi[i] \in {0, -snapLow[0]}

\* Frames are taken in the order they were on the air, and none is taken twice,
\* although there are two ways to take one.
TakenInOrderOnce == [][diagFrames' # diagFrames => snapLow'[0] < snapLow[0]]_vars

\* A frame that is taken while it is on the air has all its pulses: the half that
\* may still come is never one decode would have read (lines 1148-1156).
NoHalfComesLate ==
  [][hiBuf' # hiBuf /\ hiBuf'[pbWrite'] = -snapLow[0] => snapPulses # Captured]_vars

\* Every complete frame on the air is taken, waits to be taken, or is counted as lost
\* (lines 681-688), however late loop() comes: but for the one way to lose a frame
\* without a trace, a transmission that begins while it is complete but neither
\* parked nor taken (lines 357-362).
NothingVanishes ==
  complete <= diagFrames + completeLost + wiped + IF pendingReady THEN 1 ELSE 0

\* However long a burst is, every index stays in its range and the memory behind
\* the buffers is not written (lines 639-655, 666-670).
BufferHolds == TypeOK /\ lowBuf[Size] = 0 /\ hiBuf[Size] = 0
=============================================================================

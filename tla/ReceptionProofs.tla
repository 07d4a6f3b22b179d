----------------------------- MODULE ReceptionProofs -----------------------------
(***************************************************************************)
(* How a remote is heard, for every frame length and buffer size, every    *)
(* set of remotes and buttons, and any number of bursts and presses.       *)
(*                                                                         *)
(* RxCapture: what is in each of the three places a frame can be in (the   *)
(* live buffer, the pending slot, the copy loop() decodes) comes from one  *)
(* burst, and the three are in the order of the air.                       *)
(*                                                                         *)
(* RemotePress: the long press detector and the repeat filter each keep    *)
(* the remote heard last, and of it what the history of that remote says;  *)
(* the detector keeps the mask of its run as well.                         *)
(***************************************************************************)
EXTENDS RxCapture, RemotePress, SequenceTheorems, TLAPS

-----------------------------------------------------------------------------
(* The capture of frames.                                                  *)

\* The first n pulses of a buffer are a sync pulse and pulses of its burst.
OneBurst(low, hi, n) ==
  /\ low[0] < 0
  /\ \A i \in 1 .. n - 1 : low[i] = -low[0]
  /\ \A i \in 1 .. n : hi[i] \in {0, -low[0]}

\* A sync pulse in the live buffer, unless it is about to be overwritten, is the
\* one of the burst on the air, and nothing of that burst has been taken.
LiveInv ==
  IsSync(lowBuf[0]) /\ pbWrite > 0 =>
    /\ OneBurst(lowBuf, hiBuf, pbWrite)
    /\ lowBuf[0] = -burst /\ -snapLow[0] < burst

\* A parked frame is older than the burst on the air and newer than the frame that
\* was taken last.
PendingInv ==
  pendingReady =>
    /\ OneBurst(pendingLow, pendingHi, pendingPulses)
    /\ pendingPulses \in Least .. Most
    /\ -snapLow[0] < -pendingLow[0] /\ -pendingLow[0] < burst

SnapInv ==
  /\ snapPulses > 0 => OneBurst(snapLow, snapHi, snapPulses)
  /\ snapPulses = 0 => snapLow[0] = 0
  /\ -snapLow[0] <= burst
  /\ snapPulses = Captured => -snapLow[0] < burst

MemoryInv == lowBuf[Size] = 0 /\ hiBuf[Size] = 0

\* The burst on the air has been taken while it was on the air.
Taken == snapPulses > 0 /\ -snapLow[0] = burst

\* A burst that was heard from its sync pulse on is in the live buffer as far as it
\* has been sent, unless it was taken or has become too long.
CountInv ==
  /\ sent > 0 /\ sent <= Most /\ ~Taken => pbWrite = sent /\ lowBuf[0] = -burst
  /\ sent > 0 => burst > 0
  /\ complete + (IF Taken THEN 1 ELSE 0)
       <= diagFrames + completeLost + wiped + IF pendingReady THEN 1 ELSE 0

CaptureInv == TypeOK /\ LiveInv /\ PendingInv /\ SnapInv /\ MemoryInv /\ CountInv

-----------------------------------------------------------------------------
LEMMA Sizes ==
  /\ Least \in Nat /\ Full \in Nat /\ Most \in Nat /\ Size \in Nat
  /\ 1 < Least /\ Least < Full /\ Full <= Most /\ Most + 1 < Size
  /\ Captured = Full - 1
  BY PulseAssumption DEF Captured

\* A cleared or overwritten buffer is a buffer.
LEMMA ClearedType == Cleared \in Buffer /\ \A i \in 0 .. Size : Cleared[i] = 0
  BY Sizes DEF Cleared, Buffer

LEMMA Overwritten ==
  ASSUME NEW b \in Buffer, NEW i \in 0 .. Size, NEW v \in Int, NEW c, c = [b EXCEPT ![i] = v]
  PROVE  /\ c \in Buffer
         /\ c[i] = v
         /\ \A j \in 0 .. Size : j # i => c[j] = b[j]
  BY DEF Buffer

LEMMA BufferEntry ==
  ASSUME NEW b \in Buffer, NEW i \in 0 .. Size
  PROVE  b[i] \in Int
  BY DEF Buffer

LEMMA InitCapture == Init => CaptureInv
<1> SUFFICES ASSUME Init PROVE CaptureInv
  OBVIOUS
<1> USE Sizes, ClearedType DEF Init
<1>1. TypeOK
  <2>1. Cleared \in Buffer
    OBVIOUS
  <2>2. 0 \in 0 .. Size /\ 0 \in 0 .. Most /\ 0 \in 0 .. Most + 1
    OBVIOUS
  <2> QED BY <2>1, <2>2, Zenon DEF TypeOK
<1>2. lowBuf[0] = 0 /\ snapLow[0] = 0
  OBVIOUS
<1>3. LiveInv /\ PendingInv /\ SnapInv /\ MemoryInv
  BY <1>2 DEF LiveInv, PendingInv, SnapInv, MemoryInv, IsSync
<1>4. CountInv
  BY <1>2 DEF CountInv, Taken
<1> QED BY <1>1, <1>3, <1>4 DEF CaptureInv

-----------------------------------------------------------------------------
(* The interrupt.                                                          *)

\* What is kept of the burst that ends: it is parked if it was whole and there was
\* room, and counted.
LEMMA BurstEndsKeeps ==
  ASSUME CaptureInv, BurstEnds, UNCHANGED snap
  PROVE  /\ burst' = burst + 1 /\ burst \in Nat /\ complete' \in Nat /\ completeLost' \in Nat
         /\ pendingLow' \in Buffer /\ pendingHi' \in Buffer
         /\ pendingReady' \in BOOLEAN /\ pendingPulses' \in 0 .. Most
         /\ PendingInv' /\ SnapInv' /\ ~Taken'
         /\ complete' <= diagFrames + completeLost' + wiped + IF pendingReady' THEN 1 ELSE 0
<1> USE Sizes
<1>1. burst' = burst + 1 /\ burst \in Nat /\ complete' \in Nat
  BY DEF BurstEnds, NextBurst, CaptureInv, TypeOK
<1>2. snapLow[0] \in Int /\ snapLow' = snapLow /\ snapHi' = snapHi /\ snapPulses' = snapPulses
      /\ lowBuf[0] \in Int /\ pendingLow[0] \in Int
  BY DEF CaptureInv, TypeOK, Buffer, snap
<1>3. SnapInv' /\ ~Taken'
  BY <1>1, <1>2 DEF CaptureInv, SnapInv, Taken, OneBurst
<1>4. complete' = IF sent \in Least .. Most THEN complete + 1 ELSE complete
  BY DEF BurstEnds, NextBurst
<1>5. sent \in Least .. Most /\ ~Taken => Whole
  BY DEF CaptureInv, CountInv, Whole, IsSync, TypeOK
<1>6. CASE Whole /\ ~pendingReady
  <2>1. pendingLow' = lowBuf /\ pendingHi' = hiBuf /\ pendingPulses' = pbWrite /\ pendingReady' = TRUE
        /\ completeLost' = completeLost
    BY <1>6 DEF BurstEnds, NextBurst, NoteDiscardedFrame
  <2>2. OneBurst(lowBuf, hiBuf, pbWrite) /\ lowBuf[0] = -burst /\ -snapLow[0] < burst
        /\ pbWrite \in Least .. Most
    BY <1>6 DEF CaptureInv, LiveInv, Whole
  <2>3. PendingInv'
    BY <1>1, <1>2, <2>1, <2>2 DEF PendingInv, OneBurst
  <2>4. complete' <= diagFrames + completeLost' + wiped + 1
    BY <1>4, <1>6, <2>1 DEF CaptureInv, CountInv, TypeOK
  <2> QED BY <1>1, <1>3, <2>1, <2>2, <2>3, <2>4 DEF CaptureInv, TypeOK
<1>7. CASE ~(Whole /\ ~pendingReady)
  <2>1. UNCHANGED pending /\ completeLost' = IF Whole THEN completeLost + 1 ELSE completeLost
    BY <1>7 DEF BurstEnds, NextBurst, NoteDiscardedFrame
  <2>2. pendingLow' = pendingLow /\ pendingHi' = pendingHi /\ pendingReady' = pendingReady
        /\ pendingPulses' = pendingPulses
    BY <2>1 DEF pending
  <2>3. PendingInv'
    BY <1>1, <1>2, <2>2 DEF CaptureInv, PendingInv, OneBurst
  <2>4. complete' <= diagFrames + completeLost' + wiped + IF pendingReady THEN 1 ELSE 0
    BY <1>4, <1>5, <1>7, <2>1 DEF CaptureInv, CountInv, TypeOK
  <2> QED BY <1>1, <1>3, <2>1, <2>2, <2>3, <2>4 DEF CaptureInv, TypeOK
<1> QED BY <1>6, <1>7

\* What a burst that goes on leaves alone.
LEMMA BurstGoesOnKeeps ==
  ASSUME CaptureInv, BurstGoesOn, UNCHANGED snap
  PROVE  /\ burst' = burst /\ burst \in Nat /\ complete' = complete /\ completeLost' = completeLost
         /\ pendingLow' \in Buffer /\ pendingHi' \in Buffer
         /\ pendingReady' = pendingReady /\ pendingPulses' \in 0 .. Most
         /\ PendingInv' /\ SnapInv' /\ (Taken' <=> Taken)
  BY DEF BurstGoesOn, CaptureInv, TypeOK, pending, snap, PendingInv, SnapInv, Taken, OneBurst

\* What the interrupt leaves alone.
LEMMA InterruptFrame ==
  ASSUME CaptureInv, HandleRadioRxMeasure
  PROVE  /\ UNCHANGED <<snap, attached, diagFrames, wiped>>
         /\ snapLow' = snapLow /\ snapHi' = snapHi /\ snapPulses' = snapPulses
         /\ snapLow' \in Buffer /\ snapHi' \in Buffer /\ snapPulses' \in 0 .. Most
         /\ attached' \in BOOLEAN /\ attached' /\ diagFrames' = diagFrames /\ diagFrames \in Nat
         /\ wiped' = wiped /\ wiped \in Nat
  BY DEF HandleRadioRxMeasure, CaptureInv, TypeOK, snap

LEMMA SyncCapture ==
  ASSUME CaptureInv, HandleRadioRxMeasure, SyncEdge
  PROVE  CaptureInv'
<1> USE Sizes
<1>1. /\ burst' = burst + 1 /\ burst \in Nat /\ complete' \in Nat /\ completeLost' \in Nat
      /\ pendingLow' \in Buffer /\ pendingHi' \in Buffer
      /\ pendingReady' \in BOOLEAN /\ pendingPulses' \in 0 .. Most
      /\ PendingInv' /\ SnapInv' /\ ~Taken'
      /\ complete' <= diagFrames + completeLost' + wiped + IF pendingReady' THEN 1 ELSE 0
  BY BurstEndsKeeps, InterruptFrame DEF SyncEdge
<1>2. lowBuf \in Buffer /\ hiBuf \in Buffer
  BY DEF CaptureInv, TypeOK
<1>3. /\ lowBuf' \in Buffer /\ hiBuf' \in Buffer
      /\ lowBuf'[0] = -burst' /\ hiBuf'[1] = 0
      /\ lowBuf'[Size] = lowBuf[Size] /\ hiBuf'[Size] = hiBuf[Size]
  <2>1. lowBuf' = [lowBuf EXCEPT ![0] = -burst'] /\ hiBuf' = [hiBuf EXCEPT ![1] = 0]
    BY DEF SyncEdge
  <2>2. -burst' \in Int /\ 0 \in 0 .. Size /\ 1 \in 0 .. Size /\ Size \in 0 .. Size /\ Size # 0 /\ Size # 1
    BY <1>1
  <2>3. lowBuf' \in Buffer /\ lowBuf'[0] = -burst' /\ lowBuf'[Size] = lowBuf[Size]
    BY <1>2, <2>1, <2>2 DEF Buffer
  <2>4. hiBuf' \in Buffer /\ hiBuf'[1] = 0 /\ hiBuf'[Size] = hiBuf[Size]
    BY <1>2, <2>1, <2>2 DEF Buffer
  <2> QED BY <2>3, <2>4
<1>4. pbWrite' = 1 /\ sent' = 1 /\ missing' = missing
  BY DEF SyncEdge
<1>5. TypeOK'
  BY <1>1, <1>3, <1>4, InterruptFrame DEF CaptureInv, TypeOK
<1>6. LiveInv'
  <2>1. snapLow'[0] \in Int /\ -snapLow'[0] < burst'
    <3>1. snapLow' = snapLow /\ snapLow \in Buffer /\ -snapLow[0] <= burst
      BY InterruptFrame DEF CaptureInv, SnapInv, TypeOK
    <3> QED BY <1>1, <3>1, BufferEntry
  <2> QED BY <1>1, <1>3, <1>4, <2>1 DEF LiveInv, OneBurst
<1>7. MemoryInv'
  BY <1>3 DEF CaptureInv, MemoryInv
<1>8. CountInv'
  BY <1>1, <1>3, <1>4, InterruptFrame DEF CountInv
<1> QED BY <1>1, <1>5, <1>6, <1>7, <1>8 DEF CaptureInv

\* A low half goes to its place in the buffer, or to the start of a full one.
LEMMA PulseEffect ==
  ASSUME lowBuf \in Buffer, hiBuf \in Buffer, burst' \in Nat, NEW at \in 0 .. Size, PulseAt(at)
  PROVE  LET i == IF at >= Size THEN 0 ELSE at IN
         /\ lowBuf' \in Buffer /\ hiBuf' \in Buffer /\ pbWrite' = i + 1 /\ pbWrite' \in 0 .. Size
         /\ lowBuf'[i] = burst' /\ \A j \in 0 .. Size : j # i => lowBuf'[j] = lowBuf[j]
         /\ i + 1 < Size => hiBuf'[i + 1] = 0
         /\ i + 1 = Size => hiBuf' = hiBuf
         /\ \A j \in 0 .. Size : j # i + 1 => hiBuf'[j] = hiBuf[j]
<1> DEFINE i == IF at >= Size THEN 0 ELSE at
<1>1. i \in 0 .. Size - 1
  BY Sizes
<1>2. /\ lowBuf' = [lowBuf EXCEPT ![i] = burst']
      /\ hiBuf' = IF i + 1 < Size THEN [hiBuf EXCEPT ![i + 1] = 0] ELSE hiBuf
      /\ pbWrite' = i + 1
  BY DEF PulseAt
<1> HIDE DEF i
<1>3. lowBuf' \in Buffer /\ lowBuf'[i] = burst' /\ \A j \in 0 .. Size : j # i => lowBuf'[j] = lowBuf[j]
  BY <1>1, <1>2, Sizes DEF Buffer
<1>4. CASE i + 1 < Size
  BY <1>1, <1>2, <1>3, <1>4, Sizes DEF Buffer, i
<1>5. CASE i + 1 = Size
  BY <1>1, <1>2, <1>3, <1>5, Sizes DEF Buffer, i
<1> QED BY <1>1, <1>4, <1>5, Sizes DEF i

\* The memory behind the buffers is out of the reach of both halves.
LEMMA PulseMemory ==
  ASSUME lowBuf \in Buffer, hiBuf \in Buffer, burst' \in Nat, NEW at \in 0 .. Size, PulseAt(at), MemoryInv
  PROVE  MemoryInv'
<1> DEFINE i == IF at >= Size THEN 0 ELSE at
<1>1. i \in 0 .. Size - 1 /\ Size \in 0 .. Size /\ Size # i
  BY Sizes
<1>2. /\ \A j \in 0 .. Size : j # i => lowBuf'[j] = lowBuf[j]
      /\ i + 1 = Size => hiBuf' = hiBuf
      /\ \A j \in 0 .. Size : j # i + 1 => hiBuf'[j] = hiBuf[j]
  BY PulseEffect
<1> HIDE DEF i
<1> QED BY <1>1, <1>2 DEF MemoryInv

LEMMA PulseGoesOnCapture ==
  ASSUME CaptureInv, HandleRadioRxMeasure, BurstGoesOn, HalfBefore, PulseAt(pbWrite),
         sent' = IF sent \in {0, Most + 1} THEN sent ELSE sent + 1
  PROVE  CaptureInv'
<1> USE Sizes
<1>1. /\ burst' = burst /\ burst \in Nat /\ complete' = complete /\ completeLost' = completeLost
      /\ pendingLow' \in Buffer /\ pendingHi' \in Buffer
      /\ pendingReady' = pendingReady /\ pendingPulses' \in 0 .. Most
      /\ PendingInv' /\ SnapInv' /\ (Taken' <=> Taken)
  BY BurstGoesOnKeeps, InterruptFrame
<1>2. lowBuf \in Buffer /\ hiBuf \in Buffer /\ pbWrite \in 0 .. Size /\ burst' \in Nat
  BY <1>1 DEF CaptureInv, TypeOK
<1> DEFINE i == IF pbWrite >= Size THEN 0 ELSE pbWrite
<1>3. /\ lowBuf' \in Buffer /\ hiBuf' \in Buffer /\ pbWrite' = i + 1 /\ pbWrite' \in 0 .. Size
      /\ lowBuf'[i] = burst' /\ \A j \in 0 .. Size : j # i => lowBuf'[j] = lowBuf[j]
      /\ i + 1 < Size => hiBuf'[i + 1] = 0
      /\ i + 1 = Size => hiBuf' = hiBuf
      /\ \A j \in 0 .. Size : j # i + 1 => hiBuf'[j] = hiBuf[j]
  BY <1>2, PulseEffect
<1>4. i \in 0 .. Size - 1 /\ (pbWrite < Size => i = pbWrite) /\ (pbWrite = Size => i = 0)
  BY <1>2
<1> HIDE DEF i
<1>5. TypeOK'
  <2>1. sent' \in 0 .. Most + 1 /\ missing' \in Nat
    BY DEF CaptureInv, TypeOK, HalfBefore
  <2> QED BY <1>1, <1>3, <2>1, InterruptFrame DEF CaptureInv, TypeOK
<1>6. LiveInv'
  <2>1. CASE i = 0
    BY <1>1, <1>3, <2>1 DEF LiveInv, IsSync
  <2>2. CASE i > 0
    <3>1. pbWrite = i /\ lowBuf'[0] = lowBuf[0]
      BY <1>3, <1>4, <1>2, <2>2
    <3> SUFFICES ASSUME IsSync(lowBuf[0]) PROVE LiveInv'
      BY <3>1 DEF LiveInv
    <3>2. OneBurst(lowBuf, hiBuf, i) /\ lowBuf[0] = -burst /\ -snapLow[0] < burst
      BY <2>2, <3>1 DEF CaptureInv, LiveInv
    <3>3. \A j \in 1 .. i : lowBuf'[j] = -lowBuf'[0]
      BY <1>1, <1>3, <1>4, <3>1, <3>2 DEF OneBurst
    <3>4. hiBuf'[i + 1] = 0
      BY <1>3, <1>4 DEF CaptureInv, MemoryInv
    <3>5. \A j \in 1 .. i : hiBuf'[j] \in {0, -lowBuf'[0]}
      BY <1>3, <1>4, <3>1, <3>2 DEF OneBurst
    <3>6. OneBurst(lowBuf', hiBuf', i + 1)
      <4>1. lowBuf'[0] < 0
        BY <3>1, <3>2 DEF OneBurst
      <4>2. \A j \in 1 .. (i + 1) - 1 : lowBuf'[j] = -lowBuf'[0]
        BY <1>4, <3>3
      <4>3. ASSUME NEW j \in 1 .. i + 1 PROVE hiBuf'[j] \in {0, -lowBuf'[0]}
        <5>1. j \in 1 .. i \/ j = i + 1
          BY <1>4
        <5> QED BY <3>4, <3>5, <5>1
      <4> QED BY <4>1, <4>2, <4>3 DEF OneBurst
    <3> QED BY <1>1, <1>3, <3>1, <3>2, <3>6, InterruptFrame DEF LiveInv
  <2> QED BY <1>4, <2>1, <2>2
<1>7. MemoryInv'
  BY <1>2, PulseMemory DEF CaptureInv
<1>8. CountInv'
  <2>1. sent \in 0 .. Most + 1
    BY DEF CaptureInv, TypeOK
  <2>2. ASSUME sent' > 0, sent' <= Most, ~Taken'
        PROVE  pbWrite' = sent' /\ lowBuf'[0] = -burst'
    <3>1. sent > 0 /\ sent < Most /\ sent' = sent + 1
      BY <2>1, <2>2
    <3>2. pbWrite = sent /\ lowBuf[0] = -burst
      BY <1>1, <2>2, <3>1 DEF CaptureInv, CountInv
    <3>3. i = sent /\ 0 # i /\ 0 \in 0 .. Size
      BY <1>4, <3>1, <3>2
    <3> QED BY <1>1, <1>3, <3>1, <3>2, <3>3
  <2>3. sent' > 0 => sent > 0
    BY <2>1
  <2> QED BY <1>1, <2>2, <2>3, InterruptFrame DEF CaptureInv, CountInv
<1> QED BY <1>1, <1>5, <1>6, <1>7, <1>8 DEF CaptureInv

\* A pulse after a pause: the buffer holds no sync pulse until the next one.
LEMMA PulseStartsCapture ==
  ASSUME CaptureInv, HandleRadioRxMeasure, BurstEnds, PulseAt(0), sent' = 0, UNCHANGED missing
  PROVE  CaptureInv'
<1> USE Sizes
<1>1. /\ burst' = burst + 1 /\ burst \in Nat /\ complete' \in Nat /\ completeLost' \in Nat
      /\ pendingLow' \in Buffer /\ pendingHi' \in Buffer
      /\ pendingReady' \in BOOLEAN /\ pendingPulses' \in 0 .. Most
      /\ PendingInv' /\ SnapInv' /\ ~Taken'
      /\ complete' <= diagFrames + completeLost' + wiped + IF pendingReady' THEN 1 ELSE 0
  BY BurstEndsKeeps, InterruptFrame
<1>2. lowBuf \in Buffer /\ hiBuf \in Buffer /\ burst' \in Nat /\ 0 \in 0 .. Size
  BY <1>1 DEF CaptureInv, TypeOK
<1>3. lowBuf' \in Buffer /\ hiBuf' \in Buffer /\ pbWrite' \in 0 .. Size /\ lowBuf'[0] = burst'
  BY <1>2, PulseEffect
<1>4. TypeOK'
  BY <1>1, <1>3, InterruptFrame DEF CaptureInv, TypeOK
<1>5. LiveInv'
  BY <1>1, <1>3 DEF LiveInv, IsSync
<1>6. MemoryInv'
  BY <1>2, PulseMemory DEF CaptureInv
<1>7. CountInv'
  BY <1>1, InterruptFrame DEF CountInv
<1> QED BY <1>1, <1>4, <1>5, <1>6, <1>7 DEF CaptureInv

\* A high half goes to where its low half will be.
LEMMA HalfEffect ==
  ASSUME lowBuf \in Buffer, hiBuf \in Buffer, burst' \in Nat, NEW at \in 0 .. Size, HalfAt(at)
  PROVE  /\ lowBuf' = lowBuf /\ pbWrite' = at /\ hiBuf' \in Buffer
         /\ at < Size => hiBuf'[at] = burst'
         /\ \A j \in 0 .. Size : j # at \/ j = Size => hiBuf'[j] = hiBuf[j]
<1>1. /\ lowBuf' = lowBuf /\ pbWrite' = at
      /\ hiBuf' = IF at < Size THEN [hiBuf EXCEPT ![at] = burst'] ELSE hiBuf
  BY DEF HalfAt
<1>2. CASE at < Size
  BY <1>1, <1>2, Sizes DEF Buffer
<1>3. CASE at = Size
  BY <1>1, <1>3, Sizes DEF Buffer
<1> QED BY <1>2, <1>3, Sizes

LEMMA HalfGoesOnCapture ==
  ASSUME CaptureInv, HandleRadioRxMeasure, BurstGoesOn, HalfAt(pbWrite), UNCHANGED <<sent, missing>>
  PROVE  CaptureInv'
<1> USE Sizes
<1>1. /\ burst' = burst /\ burst \in Nat /\ complete' = complete /\ completeLost' = completeLost
      /\ pendingLow' \in Buffer /\ pendingHi' \in Buffer
      /\ pendingReady' = pendingReady /\ pendingPulses' \in 0 .. Most
      /\ PendingInv' /\ SnapInv' /\ (Taken' <=> Taken)
  BY BurstGoesOnKeeps, InterruptFrame
<1>2. lowBuf \in Buffer /\ hiBuf \in Buffer /\ pbWrite \in 0 .. Size /\ burst' \in Nat
  BY <1>1 DEF CaptureInv, TypeOK
<1>3. /\ lowBuf' = lowBuf /\ pbWrite' = pbWrite /\ hiBuf' \in Buffer
      /\ pbWrite < Size => hiBuf'[pbWrite] = burst'
      /\ \A j \in 0 .. Size : j # pbWrite \/ j = Size => hiBuf'[j] = hiBuf[j]
  BY <1>2, HalfEffect
<1>4. TypeOK'
  BY <1>1, <1>2, <1>3, InterruptFrame DEF CaptureInv, TypeOK
<1>5. LiveInv'
  <2> SUFFICES ASSUME IsSync(lowBuf[0]), pbWrite > 0 PROVE LiveInv'
    BY <1>3 DEF LiveInv
  <2>1. OneBurst(lowBuf, hiBuf, pbWrite) /\ lowBuf[0] = -burst /\ -snapLow[0] < burst
    BY DEF CaptureInv, LiveInv
  <2>2. ASSUME NEW j \in 1 .. pbWrite PROVE hiBuf'[j] \in {0, -lowBuf[0]}
    <3>1. hiBuf[j] \in {0, -lowBuf[0]}
      BY <2>1 DEF OneBurst
    <3>2. CASE j = pbWrite /\ j < Size
      BY <1>1, <1>3, <2>1, <3>2
    <3>3. CASE j # pbWrite \/ j = Size
      BY <1>2, <1>3, <3>1, <3>3
    <3> QED BY <1>2, <3>2, <3>3
  <2>3. OneBurst(lowBuf', hiBuf', pbWrite)
    BY <1>3, <2>1, <2>2 DEF OneBurst
  <2> QED BY <1>1, <1>3, <2>1, <2>3, InterruptFrame DEF LiveInv
<1>6. MemoryInv'
  BY <1>3 DEF CaptureInv, MemoryInv
<1>7. CountInv'
  BY <1>1, <1>3, InterruptFrame DEF CaptureInv, CountInv
<1> QED BY <1>1, <1>4, <1>5, <1>6, <1>7 DEF CaptureInv

\* A pause after which the buffer is empty, whether or not a high half was stored.
LEMMA PauseCapture ==
  ASSUME CaptureInv, HandleRadioRxMeasure, BurstEnds, lowBuf' = lowBuf, pbWrite' = 0, sent' = 0,
         missing' = missing, hiBuf' \in Buffer, hiBuf'[Size] = hiBuf[Size]
  PROVE  CaptureInv'
<1> USE Sizes
<1>1. /\ burst' = burst + 1 /\ burst \in Nat /\ complete' \in Nat /\ completeLost' \in Nat
      /\ pendingLow' \in Buffer /\ pendingHi' \in Buffer
      /\ pendingReady' \in BOOLEAN /\ pendingPulses' \in 0 .. Most
      /\ PendingInv' /\ SnapInv' /\ ~Taken'
      /\ complete' <= diagFrames + completeLost' + wiped + IF pendingReady' THEN 1 ELSE 0
  BY BurstEndsKeeps, InterruptFrame
<1>2. TypeOK'
  BY <1>1, InterruptFrame DEF CaptureInv, TypeOK
<1>3. LiveInv' /\ MemoryInv'
  BY DEF CaptureInv, LiveInv, MemoryInv
<1>4. CountInv'
  BY <1>1, InterruptFrame DEF CountInv
<1> QED BY <1>1, <1>2, <1>3, <1>4 DEF CaptureInv

LEMMA InterruptCapture ==
  ASSUME CaptureInv, HandleRadioRxMeasure
  PROVE  CaptureInv'
<1>1. CASE SyncEdge
  BY <1>1, SyncCapture
<1>2. CASE PulseEdge
  BY <1>2, PulseGoesOnCapture, PulseStartsCapture DEF PulseEdge
<1>3. CASE HalfEdge
  <2>1. CASE BurstGoesOn /\ HalfAt(pbWrite) /\ UNCHANGED sent
    BY <1>3, <2>1, HalfGoesOnCapture DEF HalfEdge
  <2>2. CASE BurstEnds /\ HalfAt(0) /\ sent' = 0
    <3>1. burst' \in Nat /\ lowBuf \in Buffer /\ hiBuf \in Buffer
      BY <2>2, BurstEndsKeeps, InterruptFrame DEF CaptureInv, TypeOK
    <3>2. 0 \in 0 .. Size /\ Size \in 0 .. Size
      BY Sizes
    <3>3. lowBuf' = lowBuf /\ pbWrite' = 0 /\ hiBuf' \in Buffer /\ hiBuf'[Size] = hiBuf[Size]
      BY <2>2, <3>1, <3>2, HalfEffect
    <3> QED BY <1>3, <2>2, <3>3, PauseCapture DEF HalfEdge
  <2> QED BY <1>3, <2>1, <2>2 DEF HalfEdge
<1>4. CASE OtherEdge
  <2>1. hiBuf \in Buffer
    BY DEF CaptureInv, TypeOK
  <2> QED BY <1>4, <2>1, PauseCapture DEF OtherEdge
<1> QED BY <1>1, <1>2, <1>3, <1>4 DEF HandleRadioRxMeasure

-----------------------------------------------------------------------------
(* loop().                                                                 *)

\* What every step of loop() leaves alone.
LEMMA LoopFrame ==
  ASSUME CaptureInv, ProcessRxData
  PROVE  /\ diagFrames' = diagFrames + 1 /\ diagFrames \in Nat /\ completeLost \in Nat
         /\ attached' = attached /\ completeLost' = completeLost /\ wiped' = wiped /\ wiped \in Nat
         /\ burst' = burst /\ burst \in Nat
         /\ sent' = sent /\ complete' = complete /\ missing' = missing /\ complete \in Nat
         /\ snapLow[0] \in Int /\ lowBuf[0] \in Int /\ pendingLow[0] \in Int
  BY Sizes DEF ProcessRxData, CaptureInv, TypeOK, Buffer

LEMMA TakePendingCapture ==
  ASSUME CaptureInv, ProcessRxData, TakePending
  PROVE  CaptureInv' /\ snapLow'[0] < snapLow[0]
<1> USE Sizes
<1>1. /\ pendingReady /\ pendingReady' = FALSE
      /\ snapLow' = pendingLow /\ snapHi' = pendingHi /\ snapPulses' = pendingPulses
      /\ lowBuf' = lowBuf /\ hiBuf' = hiBuf /\ pbWrite' = pbWrite
      /\ pendingLow' = pendingLow /\ pendingHi' = pendingHi /\ pendingPulses' = pendingPulses
  BY DEF TakePending, live
<1>2. /\ OneBurst(pendingLow, pendingHi, pendingPulses) /\ pendingPulses \in Least .. Most
      /\ -snapLow[0] < -pendingLow[0] /\ -pendingLow[0] < burst
  BY <1>1 DEF CaptureInv, PendingInv
<1>3. snapLow'[0] < snapLow[0] /\ -snapLow'[0] < burst
  BY <1>1, <1>2, LoopFrame
<1>4. ~Taken /\ ~Taken'
  BY <1>2, <1>3, LoopFrame DEF Taken
<1>5. TypeOK'
  <2>1. pendingPulses \in 0 .. Most /\ pendingLow \in Buffer /\ pendingHi \in Buffer
    BY DEF CaptureInv, TypeOK
  <2>2. pendingReady' \in BOOLEAN
    BY <1>1, Zenon
  <2>3. diagFrames' \in Nat
    BY LoopFrame
  <2> QED BY <1>1, <2>1, <2>2, <2>3, LoopFrame, Zenon DEF CaptureInv, TypeOK
<1>6. LiveInv'
  BY <1>1, <1>3, LoopFrame DEF CaptureInv, LiveInv, OneBurst
<1>7. PendingInv'
  BY <1>1 DEF PendingInv
<1>8. SnapInv'
  BY <1>1, <1>2, <1>3, LoopFrame DEF SnapInv, OneBurst
<1>9. MemoryInv'
  BY <1>1 DEF CaptureInv, MemoryInv
<1>10. CountInv'
  BY <1>1, <1>4, LoopFrame DEF CaptureInv, CountInv
<1> QED BY <1>3, <1>5, <1>6, <1>7, <1>8, <1>9, <1>10 DEF CaptureInv

LEMMA TakeLiveCapture ==
  ASSUME CaptureInv, ProcessRxData, TakeLive
  PROVE  CaptureInv' /\ snapLow'[0] < snapLow[0]
<1> USE Sizes
<1>1. /\ ~pendingReady /\ pendingReady' = pendingReady
      /\ snapLow' = lowBuf /\ snapHi' = hiBuf /\ snapPulses' = pbWrite
      /\ lowBuf' = Cleared /\ hiBuf' = Cleared /\ pbWrite' = 0
      /\ pendingLow' = pendingLow /\ pendingHi' = pendingHi /\ pendingPulses' = pendingPulses
  BY DEF TakeLive, pending
<1>2. pbWrite \in Full .. Most
  BY DEF TakeLive, FrameComplete
<1>3. OneBurst(lowBuf, hiBuf, pbWrite) /\ lowBuf[0] = -burst /\ -snapLow[0] < burst
  BY <1>2 DEF TakeLive, FrameComplete, CaptureInv, LiveInv
<1>4. snapLow'[0] < snapLow[0] /\ -snapLow'[0] = burst
  BY <1>1, <1>3, LoopFrame
<1>5. ~Taken /\ Taken'
  BY <1>1, <1>2, <1>3, <1>4, LoopFrame DEF Taken
<1>6. TypeOK'
  BY <1>1, <1>2, ClearedType, LoopFrame DEF CaptureInv, TypeOK
<1>7. LiveInv' /\ PendingInv'
  BY <1>1 DEF LiveInv, PendingInv
<1>8. SnapInv'
  BY <1>1, <1>2, <1>3, <1>4, LoopFrame DEF SnapInv, OneBurst
<1>9. MemoryInv'
  BY <1>1, ClearedType DEF MemoryInv
<1>10. CountInv'
  BY <1>1, <1>5, LoopFrame DEF CaptureInv, CountInv
<1> QED BY <1>4, <1>6, <1>7, <1>8, <1>9, <1>10 DEF CaptureInv

LEMMA DetachCapture == CaptureInv /\ DetachRxInterrupt => CaptureInv'
<1> SUFFICES ASSUME CaptureInv, DetachRxInterrupt PROVE CaptureInv'
  OBVIOUS
<1>1. /\ UNCHANGED <<live, pending, snap, diagFrames, completeLost, wiped, burst, sent, complete, missing>>
      /\ attached' = FALSE
  BY DEF DetachRxInterrupt
<1>2. TypeOK'
  <2>1. attached' \in BOOLEAN
    BY <1>1, Zenon
  <2> QED BY <1>1, <2>1, Zenon DEF CaptureInv, TypeOK, live, pending, snap
<1>3. LiveInv' /\ PendingInv' /\ SnapInv' /\ MemoryInv'
  BY <1>1 DEF CaptureInv, LiveInv, PendingInv, SnapInv, MemoryInv, OneBurst, live, pending, snap
<1>4. CountInv'
  BY <1>1 DEF CaptureInv, CountInv, Taken, live, pending, snap
<1> QED BY <1>2, <1>3, <1>4 DEF CaptureInv

LEMMA AttachCapture == CaptureInv /\ AttachRxInterrupt => CaptureInv'
<1> SUFFICES ASSUME CaptureInv, AttachRxInterrupt PROVE CaptureInv'
  OBVIOUS
<1> USE Sizes
<1>1. /\ UNCHANGED <<hiBuf, pending, snap, diagFrames, completeLost, missing>>
      /\ ~attached /\ attached' = TRUE /\ burst' = burst + 1 /\ pbWrite' = 0 /\ sent' = 0
      /\ lowBuf' = [lowBuf EXCEPT ![0] = 0]
      /\ complete' = IF sent \in Least .. Most THEN complete + 1 ELSE complete
      /\ wiped' = IF Whole THEN wiped + 1 ELSE wiped
  BY DEF AttachRxInterrupt, NextBurst
<1>2. /\ burst \in Nat /\ snapLow[0] \in Int /\ pendingLow[0] \in Int
      /\ complete \in Nat /\ diagFrames \in Nat /\ completeLost \in Nat /\ wiped \in Nat
      /\ sent \in 0 .. Most + 1
  BY DEF CaptureInv, TypeOK, Buffer
<1>3. lowBuf' \in Buffer /\ lowBuf'[Size] = lowBuf[Size]
  <2>1. lowBuf \in Buffer
    BY DEF CaptureInv, TypeOK
  <2> QED BY <1>1, <2>1 DEF Buffer
<1>4. TypeOK'
  <2>1. complete' \in Nat /\ wiped' \in Nat /\ sent' \in 0 .. Most + 1
    BY <1>1, <1>2
  <2> QED BY <1>1, <1>2, <1>3, <2>1 DEF CaptureInv, TypeOK, pending, snap
<1>5. LiveInv' /\ MemoryInv'
  BY <1>1, <1>3 DEF CaptureInv, LiveInv, MemoryInv
<1>6. PendingInv'
  BY <1>1, <1>2 DEF CaptureInv, PendingInv, OneBurst, pending, snap
<1>7. SnapInv' /\ ~Taken'
  BY <1>1, <1>2 DEF CaptureInv, SnapInv, Taken, OneBurst, snap
\* A complete frame of the burst that was cut off is in the live buffer and wiped, or
\* was taken.
<1>8. CountInv'
  <2>1. sent \in Least .. Most /\ ~Taken => Whole
    <3> SUFFICES ASSUME sent \in Least .. Most, ~Taken PROVE Whole
      OBVIOUS
    <3>1. pbWrite = sent /\ lowBuf[0] = -burst /\ burst > 0
      BY <1>2 DEF CaptureInv, CountInv
    <3> QED BY <1>2, <3>1 DEF Whole, IsSync
  <2>2. complete + (IF Taken THEN 1 ELSE 0)
          <= diagFrames + completeLost + wiped + IF pendingReady THEN 1 ELSE 0
    BY DEF CaptureInv, CountInv
  <2>3. complete' <= diagFrames + completeLost + wiped' + IF pendingReady THEN 1 ELSE 0
    BY <1>1, <1>2, <2>1, <2>2
  <2>4. complete' + (IF Taken' THEN 1 ELSE 0) = complete'
    BY <1>1, <1>2, <1>7
  <2>5. diagFrames' = diagFrames /\ completeLost' = completeLost /\ pendingReady' = pendingReady
    BY <1>1 DEF pending
  <2> QED BY <1>1, <2>3, <2>4, <2>5 DEF CountInv
<1> QED BY <1>4, <1>5, <1>6, <1>7, <1>8 DEF CaptureInv

LEMMA StepCapture == CaptureInv /\ [Next]_vars => CaptureInv'
<1> SUFFICES ASSUME CaptureInv, [Next]_vars PROVE CaptureInv'
  OBVIOUS
<1>1. CASE HandleRadioRxMeasure
  BY <1>1, InterruptCapture
<1>2. CASE ProcessRxData
  BY <1>2, TakePendingCapture, TakeLiveCapture DEF ProcessRxData
<1>3. CASE UNCHANGED vars
  <2>1. UNCHANGED <<live, pending, snap, attached, diagFrames, completeLost, wiped, burst, sent,
                  complete, missing>>
    BY <1>3 DEF vars
  <2>2. TypeOK'
    BY <2>1 DEF CaptureInv, TypeOK, live, pending, snap
  <2>3. LiveInv' /\ PendingInv' /\ SnapInv' /\ MemoryInv' /\ CountInv'
    BY <2>1 DEF CaptureInv, LiveInv, PendingInv, SnapInv, MemoryInv, CountInv, Taken, OneBurst,
                live, pending, snap
  <2> QED BY <2>2, <2>3 DEF CaptureInv
<1> QED BY <1>1, <1>2, <1>3, DetachCapture, AttachCapture DEF Next

-----------------------------------------------------------------------------
(* What may be relied upon.                                                *)

LEMMA Reach == Spec => []CaptureInv
<1> QED BY InitCapture, StepCapture, PTL DEF Spec

\* Every frame that is decoded is one burst from its sync pulse on, whatever the
\* length of a frame and the size of the buffer (snapshot and decode, lines
\* 1117-1119, 659, 1163-1166).
THEOREM OneBurstTaken == Spec => []FrameIsOneBurst
<1>1. CaptureInv => FrameIsOneBurst
  <2> SUFFICES ASSUME CaptureInv, snapPulses > 0 PROVE FrameIsOneBurst
    BY DEF FrameIsOneBurst
  <2>1. OneBurst(snapLow, snapHi, snapPulses) /\ snapPulses \in 0 .. Most
    BY DEF CaptureInv, SnapInv, TypeOK
  <2>2. ReadsHalf(snapPulses) \subseteq 1 .. snapPulses
    BY <2>1, Sizes DEF ReadsHalf
  <2> QED BY <2>1, <2>2 DEF FrameIsOneBurst, OneBurst, IsSync
<1> QED BY <1>1, Reach, PTL

\* No complete frame is lost without being counted, but one a transmission wipes: for
\* any number of bursts and any time loop() takes to come by (noteDiscardedFrame, lines
\* 681-688, and attachRxInterrupt, lines 357-362).
THEOREM Accounted == Spec => []NothingVanishes
<1>1. CaptureInv => NothingVanishes
  BY DEF CaptureInv, TypeOK, CountInv, NothingVanishes
<1> QED BY <1>1, Reach, PTL

\* No index leaves its buffer and nothing is written behind one (lines 639-655,
\* 666-670).
THEOREM InBounds == Spec => []BufferHolds
<1>1. CaptureInv => BufferHolds
  BY DEF CaptureInv, MemoryInv, BufferHolds
<1> QED BY <1>1, Reach, PTL

\* Of the two ways to take a frame each gives a newer one than the last: the order
\* of the air is kept and no frame is decoded twice (lines 1128-1157).
THEOREM InOrderOnce == Spec => TakenInOrderOnce
<1>1. CaptureInv /\ [Next]_vars => [diagFrames' # diagFrames => snapLow'[0] < snapLow[0]]_vars
  <2> SUFFICES ASSUME CaptureInv, Next, diagFrames' # diagFrames PROVE snapLow'[0] < snapLow[0]
    OBVIOUS
  <2>1. ProcessRxData
    BY DEF Next, HandleRadioRxMeasure, DetachRxInterrupt, AttachRxInterrupt
  <2> QED BY <2>1, TakePendingCapture, TakeLiveCapture DEF ProcessRxData
<1> QED BY <1>1, Reach, PTL DEF Spec, TakenInOrderOnce

\* A half that is stored is of the burst on the air; an entry that is cleared is 0.
LEMMA HalfIsNew ==
  ASSUME CaptureInv, HandleRadioRxMeasure, hiBuf' # hiBuf
  PROVE  hiBuf'[pbWrite'] \in {0, burst'} /\ burst' \in Nat /\ burst' >= burst
<1> USE Sizes
<1>1. lowBuf \in Buffer /\ hiBuf \in Buffer /\ pbWrite \in 0 .. Size /\ burst \in Nat
  BY DEF CaptureInv, TypeOK
<1>2. BurstEnds \/ BurstGoesOn
  BY DEF HandleRadioRxMeasure, SyncEdge, PulseEdge, HalfEdge, OtherEdge
<1>3. burst' \in Nat /\ burst' >= burst
  BY <1>1, <1>2 DEF BurstEnds, NextBurst, BurstGoesOn
<1>4. ASSUME NEW at \in 0 .. Size, PulseAt(at) PROVE hiBuf'[pbWrite'] \in {0, burst'}
  <2> DEFINE i == IF at >= Size THEN 0 ELSE at
  <2>1. /\ pbWrite' = i + 1
        /\ i + 1 < Size => hiBuf'[i + 1] = 0
        /\ i + 1 = Size => hiBuf' = hiBuf
    BY <1>1, <1>3, <1>4, PulseEffect
  <2>2. i + 1 \in 0 .. Size
    OBVIOUS
  <2> HIDE DEF i
  <2> QED BY <2>1, <2>2
<1>5. ASSUME NEW at \in 0 .. Size, HalfAt(at) PROVE hiBuf'[pbWrite'] \in {0, burst'}
  <2>1. hiBuf' = IF at < Size THEN [hiBuf EXCEPT ![at] = burst'] ELSE hiBuf
    BY <1>5 DEF HalfAt
  <2>2. at < Size /\ pbWrite' = at
    BY <1>5, <2>1 DEF HalfAt
  <2> QED BY <1>1, <2>1, <2>2 DEF Buffer
<1>6. CASE SyncEdge
  <2>1. hiBuf' = [hiBuf EXCEPT ![1] = 0] /\ pbWrite' = 1
    BY <1>6 DEF SyncEdge
  <2> QED BY <1>1, <1>3, <2>1 DEF Buffer
<1>7. CASE PulseEdge
  <2>1. PICK at \in 0 .. Size : PulseAt(at)
    <3>1. 0 \in 0 .. Size
      OBVIOUS
    <3> QED BY <1>1, <1>7, <3>1 DEF PulseEdge
  <2> QED BY <1>3, <2>1, <1>4
<1>8. CASE HalfEdge
  <2>1. PICK at \in 0 .. Size : HalfAt(at)
    <3>1. 0 \in 0 .. Size
      OBVIOUS
    <3> QED BY <1>1, <1>8, <3>1 DEF HalfEdge
  <2> QED BY <1>3, <2>1, <1>5
<1>9. CASE OtherEdge
  BY <1>9 DEF OtherEdge
<1> QED BY <1>3, <1>6, <1>7, <1>8, <1>9 DEF HandleRadioRxMeasure

\* When a frame of Captured pulses has been taken its burst is over, so no half of
\* it can be stored any more; a frame taken while it is on the air is longer and has
\* every half decode reads (lines 1148-1156).
THEOREM NoLateHalf == Spec => NoHalfComesLate
<1>1. CaptureInv /\ [Next]_vars =>
        [hiBuf' # hiBuf /\ hiBuf'[pbWrite'] = -snapLow[0] => snapPulses # Captured]_vars
  <2> SUFFICES ASSUME CaptureInv, Next, hiBuf' # hiBuf, snapPulses = Captured
               PROVE  hiBuf'[pbWrite'] # -snapLow[0]
    OBVIOUS
  <2>1. burst \in Nat /\ snapLow[0] \in Int
    BY Sizes DEF CaptureInv, TypeOK, Buffer
  <2>2. snapLow[0] < 0 /\ -snapLow[0] < burst
    BY Sizes DEF CaptureInv, SnapInv, OneBurst
  <2>3. CASE HandleRadioRxMeasure
    BY <2>1, <2>2, <2>3, HalfIsNew
  <2>4. CASE ProcessRxData
    <3>1. hiBuf' = Cleared /\ pbWrite' = 0
      BY <2>4 DEF ProcessRxData, TakePending, TakeLive, live
    <3>2. 0 \in 0 .. Size
      BY Sizes
    <3> QED BY <2>1, <2>2, <3>1, <3>2, ClearedType
  <2> QED BY <2>3, <2>4 DEF Next, DetachRxInterrupt, AttachRxInterrupt, live
<1> QED BY <1>1, Reach, PTL DEF Spec, NoHalfComesLate

-----------------------------------------------------------------------------
(* The presses.                                                            *)

\* A button is held as long as a press lasts, so the frames of a press are alike.
PressesConsistent ==
  /\ \A r \in Remote :
       /\ heard[r].press <= presses[r]
       /\ held[r] # None /\ heard[r].press = presses[r] => held[r] = heard[r].button
  /\ slot # <<>> =>
       LET f == slot[1] IN
         /\ f.press <= presses[f.remote]
         /\ held[f.remote] # None /\ f.press = presses[f.remote] => held[f.remote] = f.button
         /\ f.press = heard[f.remote].press => f.button = heard[f.remote].button

\* What the detector's record may be.
Detector == [active : BOOLEAN, reported : BOOLEAN, serial : Remote \cup {None}, channel : Mask,
             start : Ages, last : Ages]

\* What a function may stand for.
Of(function, button) == function = button \/ (function = "SHADE" /\ button = "STOP")

\* The filter holds the remote heard last, and of it what was reported last.
FilterKnows ==
  \A r \in Remote : LET h == heard[r] IN
    /\ (filter.valid /\ filter.serial = r) <=> h.alone
    /\ h.alone => filter.last = h.last /\ Of(filter.function, h.button)
    /\ h.alone /\ h.clean /\ filter.function = "STOP" => h.told \in {<<>>, <<"STOP">>}

\* How long a run of STOPs has lasted, up to kHoldMs, when the next frame comes now.
Lasted(h) == IF h.length + h.last > Hold THEN Hold ELSE h.length + h.last

\* The detector is in a run of the remote heard last, if that is in one.
ShadeKnows ==
  \A r \in Remote : LET h == heard[r] IN
    /\ (shade.active /\ shade.serial = r) <=> (h.run /\ h.alone)
    /\ h.run /\ h.alone =>
         /\ shade.last = h.last /\ shade.channel = h.mask
         /\ shade.reported <=> h.shaded
         /\ shade.start >= Hold <=> Lasted(h) = Hold
         /\ shade.start < Hold => Lasted(h) = shade.start

PressInv ==
  /\ PressTypeOK /\ PressesConsistent /\ FilterKnows /\ ShadeKnows
  /\ OneReportPerPress /\ EveryPressReported /\ ShadeIsLongStop

LEMMA Gaps ==
  /\ Hold \in Nat /\ RunGap \in Nat /\ RepeatGap \in Nat /\ Far \in Nat
  /\ 0 < RepeatGap /\ RepeatGap <= RunGap /\ RunGap < Hold /\ Far = Hold + 1
  /\ "STOP" \in Button /\ "SHADE" \notin Button /\ None \notin Button
  BY GapAssumption, ButtonAssumption DEF Far, None

LEMMA AnyIsMask == AnyMask \in Mask
  BY MaskAssumption DEF AnyMask

\* An age that has grown is an age.
LEMMA OlderStill ==
  ASSUME NEW age \in Ages
  PROVE  Older(age) \in Ages /\ Older(age) = IF age <= Hold THEN age + 1 ELSE age
  BY Gaps DEF Older, Ages

\* A report more: what a clean press can have been told becomes what it can be told.
LEMMA ToldMore ==
  /\ <<>> \o <<"SHADE">> = <<"SHADE">>
  /\ <<"STOP">> \o <<"SHADE">> = <<"STOP", "SHADE">>
<1>1. /\ <<"STOP">> \in Seq({"STOP", "SHADE"}) /\ <<"SHADE">> \in Seq({"STOP", "SHADE"}) /\ <<"STOP", "SHADE">> \in Seq({"STOP", "SHADE"})
      /\ Len(<<"STOP">>) = 1 /\ Len(<<"SHADE">>) = 1 /\ Len(<<"STOP", "SHADE">>) = 2
      /\ <<"STOP">>[1] = "STOP" /\ <<"SHADE">>[1] = "SHADE"
      /\ <<"STOP", "SHADE">>[1] = "STOP" /\ <<"STOP", "SHADE">>[2] = "SHADE"
  OBVIOUS
<1>2. <<>> \o <<"SHADE">> = <<"SHADE">>
  BY <1>1, ConcatEmptySeq
<1> DEFINE both == <<"STOP">> \o <<"SHADE">>
<1>3. both \in Seq({"STOP", "SHADE"}) /\ Len(both) = 2 /\ both[1] = "STOP" /\ both[2] = "SHADE"
  BY <1>1, ConcatProperties
<1>4. \A i \in 1 .. 2 : both[i] = <<"STOP", "SHADE">>[i]
  BY <1>1, <1>3
<1>5. both = <<"STOP", "SHADE">>
  BY <1>1, <1>3, <1>4, SeqEqual
<1> QED
  BY <1>2, <1>5

\* A report more or none does not change the first one.
LEMMA FirstStays ==
  ASSUME NEW told \in Seq(Function), NEW more \in Seq(Function), told # <<>>
  PROVE  told \o more # <<>> /\ (told \o more)[1] = told[1]
  OBVIOUS

\* What becomes of the history of a remote that is heard is a history.
LEMMA HearsTyped ==
  ASSUME NEW h \in Hearing, NEW frame \in Frame, NEW function, NEW told \in Seq(Function)
  PROVE  Hears(h, frame, function, told) \in Hearing
<1> DEFINE new   == h.press # frame.press
           clean == new \/ (h.clean /\ h.alone /\ h.last < RepeatGap)
           run   == h.run /\ h.alone /\ h.mask = frame.mask /\ h.last <= RunGap
           tells == IF new THEN told ELSE IF clean THEN h.told \o told ELSE h.told
           length == IF run THEN Lasted(h) ELSE 0
<1>1. frame.press \in Nat /\ frame.button \in Button /\ frame.mask \in Mask
  BY DEF Frame
<1>2. tells \in Seq(Function)
  BY DEF Hearing
<1>3. length \in 0 .. Hold /\ 0 \in Ages
  BY Gaps DEF Hearing, Lasted, Ages
<1>4. clean \in BOOLEAN /\ (IF new THEN ~Alike(h, frame) ELSE h.fresh) \in BOOLEAN
      /\ (frame.button = "STOP") \in BOOLEAN /\ ((run /\ h.shaded) \/ function = "SHADE") \in BOOLEAN
  BY DEF Hearing, Alike
<1> QED
  BY <1>1, <1>2, <1>3, <1>4 DEF Hears, Hearing, Lasted

\* A history that is only older is a history.
LEMMA AgedTyped ==
  ASSUME NEW h \in Hearing, NEW age \in Ages
  PROVE  [h EXCEPT !.last = age] \in Hearing
  BY DEF Hearing

\* The frame that waits.
LEMMA SlotTyped ==
  ASSUME PressTypeOK, slot # <<>>
  PROVE  /\ Head(slot) = slot[1] /\ slot[1] \in Frame
         /\ slot[1].remote \in Remote /\ slot[1].button \in Button /\ slot[1].mask \in Mask /\ slot[1].press \in Nat
<1>1. Head(slot) = slot[1] /\ slot[1] \in Frame
  BY DEF PressTypeOK
<1> QED
  BY <1>1 DEF Frame

LEMMA PressStarts == PressInit => PressInv
<1> SUFFICES ASSUME PressInit PROVE PressInv
  OBVIOUS
<1> USE Gaps, AnyIsMask
<1>1. \A r \in Remote :
        /\ heard[r] = [press |-> 0, button |-> "STOP", mask |-> AnyMask, told |-> <<>>,
                       clean |-> FALSE, fresh |-> FALSE, last |-> Far, alone |-> FALSE,
                       run |-> FALSE, length |-> 0, shaded |-> FALSE]
        /\ heard[r] \in Hearing
        /\ held[r] = None /\ presses[r] = 0
  BY DEF PressInit, Hearing, Ages
<1>2. PressTypeOK
  <2>1. held \in [Remote -> Button \cup {None}] /\ presses \in [Remote -> Nat]
        /\ slot \in Seq(Frame) /\ Len(slot) <= 1
    BY DEF PressInit
  <2>2. heard \in [Remote -> Hearing]
    BY <1>1 DEF PressInit
  <2>3. /\ shade \in Detector
        /\ filter \in [valid : BOOLEAN, serial : Remote \cup {None}, function : Function, last : Ages]
    BY DEF PressInit, Ages, Function, Detector
  <2> QED BY <2>1, <2>2, <2>3 DEF PressTypeOK, Detector
<1>3. PressesConsistent
  BY <1>1 DEF PressInit, PressesConsistent
<1>4. FilterKnows /\ ShadeKnows
  BY <1>1 DEF PressInit, FilterKnows, ShadeKnows
<1>5. OneReportPerPress /\ EveryPressReported /\ ShadeIsLongStop
  BY <1>1 DEF OneReportPerPress, EveryPressReported, ShadeIsLongStop
<1> QED
  BY <1>2, <1>3, <1>4, <1>5 DEF PressInv

\* What the controller has heard is not changed by what happens at the remotes.
LEMMA RemotesOnly ==
  ASSUME PressInv, PressTypeOK', PressesConsistent', UNCHANGED <<shade, filter, heard>>
  PROVE  PressInv'
  BY DEF PressInv, FilterKnows, ShadeKnows, Of, Lasted, OneReportPerPress, EveryPressReported, ShadeIsLongStop

LEMMA AtRemotes ==
  ASSUME PressInv, NEW r \in Remote, Press(r) \/ Release(r) \/ Transmit(r)
  PROVE  PressInv'
<1>a. PressTypeOK /\ PressesConsistent
  BY DEF PressInv
<1>1. CASE Press(r)
  <2>1. PICK button \in Button : held' = [held EXCEPT ![r] = button]
    BY <1>1 DEF Press
  <2>2. presses' = [presses EXCEPT ![r] = @ + 1] /\ UNCHANGED <<slot, shade, filter, heard>>
    BY <1>1 DEF Press
  <2>3. PressTypeOK'
    BY <1>a, <2>1, <2>2 DEF PressTypeOK
  <2>b. presses[r] \in Nat /\ presses'[r] = presses[r] + 1 /\ heard[r].press \in Nat
    BY <1>a, <2>2 DEF PressTypeOK, Hearing
  <2>c. \A q \in Remote : q # r => presses'[q] = presses[q] /\ held'[q] = held[q]
    BY <1>a, <2>1, <2>2 DEF PressTypeOK
  <2>d. slot # <<>> => slot[1] \in Frame
    BY <1>a DEF PressTypeOK
  <2>4. PressesConsistent'
    <3>1. ASSUME NEW q \in Remote
          PROVE  /\ heard'[q].press <= presses'[q]
                 /\ held'[q] # None /\ heard'[q].press = presses'[q] => held'[q] = heard'[q].button
      BY <1>a, <2>2, <2>b, <2>c DEF PressesConsistent
    <3>2. ASSUME slot' # <<>>
          PROVE  LET f == slot'[1] IN
                   /\ f.press <= presses'[f.remote]
                   /\ held'[f.remote] # None /\ f.press = presses'[f.remote] => held'[f.remote] = f.button
                   /\ f.press = heard'[f.remote].press => f.button = heard'[f.remote].button
      <4> DEFINE f == slot[1]
      <4>1. f.remote \in Remote /\ f.press \in Nat /\ slot # <<>> /\ slot' = slot
        BY <2>2, <2>d, <3>2 DEF Frame
      <4>2. f.press <= presses[f.remote]
        BY <1>a, <4>1 DEF PressesConsistent
      <4>3. CASE f.remote = r
        BY <1>a, <2>2, <2>b, <4>1, <4>2, <4>3 DEF PressesConsistent
      <4>4. CASE f.remote # r
        BY <1>a, <2>2, <2>c, <4>1, <4>4 DEF PressesConsistent
      <4> QED BY <4>3, <4>4
    <3> QED BY <3>1, <3>2 DEF PressesConsistent
  <2> QED BY <2>2, <2>3, <2>4, RemotesOnly
<1>2. CASE Release(r)
  <2>1. held' = [held EXCEPT ![r] = None] /\ UNCHANGED <<presses, slot, shade, filter, heard>>
    BY <1>2 DEF Release
  <2>2. PressTypeOK'
    BY <1>a, <2>1 DEF PressTypeOK
  <2>3. \A q \in Remote : held'[q] = None \/ held'[q] = held[q]
    BY <1>a, <2>1 DEF PressTypeOK
  <2>4. slot # <<>> => slot[1].remote \in Remote
    BY <1>a, SlotTyped
  <2>5. PressesConsistent'
    BY <1>a, <2>1, <2>3, <2>4 DEF PressesConsistent
  <2> QED BY <2>1, <2>2, <2>5, RemotesOnly
<1>3. CASE Transmit(r)
  <2>a. PICK mask \in Mask :
          slot' = <<[remote |-> r, button |-> held[r], mask |-> mask, press |-> presses[r]]>>
    BY <1>3 DEF Transmit
  <2> DEFINE f == [remote |-> r, button |-> held[r], mask |-> mask, press |-> presses[r]]
  <2>1. held[r] # None /\ slot' = <<f>> /\ UNCHANGED <<held, presses, shade, filter, heard>>
    BY <1>3, <2>a DEF Transmit
  <2>2. f \in Frame
    BY <1>a, <2>1 DEF PressTypeOK, Frame
  <2>3. PressTypeOK'
    BY <1>a, <2>1, <2>2 DEF PressTypeOK
  <2>4. slot' # <<>> /\ slot'[1] = f /\ presses[r] \in Nat
    BY <1>a, <2>1 DEF PressTypeOK
  <2>5. PressesConsistent'
    BY <1>a, <2>1, <2>4 DEF PressesConsistent
  <2> QED BY <2>1, <2>3, <2>5, RemotesOnly
<1> QED
  BY <1>1, <1>2, <1>3

\* Time passes alike for the filter, the detector and the history of both.
LEMMA TickKeeps == PressInv /\ Tick => PressInv'
<1> SUFFICES ASSUME PressInv, Tick PROVE PressInv'
  OBVIOUS
<1> USE Gaps
<1>a. PressTypeOK
  BY DEF PressInv
<1>b. /\ shade' = [shade EXCEPT !.start = Older(shade.start), !.last = Older(shade.last)]
      /\ filter' = [filter EXCEPT !.last = Older(filter.last)]
      /\ \A r \in Remote : heard'[r] = [heard[r] EXCEPT !.last = Older(heard[r].last)]
      /\ UNCHANGED <<held, presses, slot>>
  BY DEF Tick
<1>c. /\ shade.start \in Ages /\ shade.last \in Ages /\ filter.last \in Ages
      /\ \A r \in Remote : heard[r] \in Hearing /\ heard[r].last \in Ages
  BY <1>a DEF PressTypeOK, Hearing
<1>d. /\ shade'.start = Older(shade.start) /\ shade'.last = Older(shade.last)
      /\ shade'.active = shade.active /\ shade'.serial = shade.serial /\ shade'.reported = shade.reported
      /\ shade'.channel = shade.channel
  BY <1>a, <1>b DEF PressTypeOK
<1>e. /\ filter'.last = Older(filter.last) /\ filter'.valid = filter.valid
      /\ filter'.serial = filter.serial /\ filter'.function = filter.function
  BY <1>a, <1>b DEF PressTypeOK
<1>f. \A r \in Remote :
        /\ heard'[r].last = Older(heard[r].last)
        /\ heard'[r].press = heard[r].press /\ heard'[r].button = heard[r].button
        /\ heard'[r].told = heard[r].told /\ heard'[r].clean = heard[r].clean
        /\ heard'[r].fresh = heard[r].fresh /\ heard'[r].alone = heard[r].alone
        /\ heard'[r].run = heard[r].run /\ heard'[r].length = heard[r].length
        /\ heard'[r].shaded = heard[r].shaded /\ heard'[r].mask = heard[r].mask
  BY <1>b, <1>c DEF Hearing
<1>1. PressTypeOK'
  <2>1. ASSUME NEW r \in Remote PROVE heard'[r] \in Hearing
    <3>1. heard[r] \in Hearing /\ Older(heard[r].last) \in Ages
      BY <1>c, OlderStill
    <3> QED BY <1>b, <3>1, AgedTyped
  <2>2. heard' \in [Remote -> Hearing]
    BY <2>1 DEF Tick
  <2>3. /\ shade' \in Detector
        /\ filter' \in [valid : BOOLEAN, serial : Remote \cup {None}, function : Function, last : Ages]
    BY <1>a, <1>b, <1>c, OlderStill DEF PressTypeOK, Detector
  <2> QED BY <1>a, <1>b, <2>2, <2>3 DEF PressTypeOK, Detector
<1>2. PressesConsistent'
  <2>1. slot # <<>> => slot[1].remote \in Remote
    BY <1>a, SlotTyped
  <2> QED BY <1>b, <1>f, <2>1 DEF PressInv, PressesConsistent
<1>3. FilterKnows'
  BY <1>e, <1>f DEF PressInv, FilterKnows, Of
<1>4. ShadeKnows'
  <2>1. ASSUME NEW r \in Remote, heard[r].run, heard[r].alone
        PROVE  /\ shade'.last = heard'[r].last /\ shade'.channel = heard'[r].mask
               /\ shade'.reported <=> heard'[r].shaded
               /\ shade'.start >= Hold <=> Lasted(heard'[r]) = Hold
               /\ shade'.start < Hold => Lasted(heard'[r]) = shade'.start
    <3> DEFINE l == heard[r].length
               a == heard[r].last
    <3>1. l \in 0 .. Hold /\ a \in Ages /\ shade.start \in Ages
      BY <1>c DEF Hearing
    <3>2. /\ shade.last = a /\ shade.channel = heard[r].mask /\ (shade.reported <=> heard[r].shaded)
          /\ shade.start >= Hold <=> Lasted(heard[r]) = Hold
          /\ shade.start < Hold => Lasted(heard[r]) = shade.start
      BY <2>1 DEF PressInv, ShadeKnows
    <3>3. Older(a) = (IF a <= Hold THEN a + 1 ELSE a)
          /\ Older(shade.start) = (IF shade.start <= Hold THEN shade.start + 1 ELSE shade.start)
      BY <3>1, OlderStill
    <3>4. Lasted(heard[r]) = (IF l + a > Hold THEN Hold ELSE l + a)
          /\ Lasted(heard'[r]) = (IF l + Older(a) > Hold THEN Hold ELSE l + Older(a))
      BY <1>f DEF Lasted
    <3>5. shade'.start >= Hold <=> Lasted(heard'[r]) = Hold
      BY <1>d, <3>1, <3>2, <3>3, <3>4 DEF Ages
    <3>6. shade'.start < Hold => Lasted(heard'[r]) = shade'.start
      BY <1>d, <3>1, <3>2, <3>3, <3>4 DEF Ages
    <3> QED BY <1>d, <1>f, <3>2, <3>5, <3>6
  <2>2. \A r \in Remote : (shade'.active /\ shade'.serial = r) <=> (heard'[r].run /\ heard'[r].alone)
    BY <1>d, <1>f DEF PressInv, ShadeKnows
  <2> QED BY <1>f, <2>1, <2>2 DEF ShadeKnows
<1>5. OneReportPerPress' /\ EveryPressReported' /\ ShadeIsLongStop'
  BY <1>f DEF PressInv, OneReportPerPress, EveryPressReported, ShadeIsLongStop
<1> QED
  BY <1>1, <1>2, <1>3, <1>4, <1>5 DEF PressInv

\* A STOP frame that goes on with the run of the detector.
GoesOn(r, mask) ==
  shade.active /\ shade.serial = r /\ shade.channel = mask /\ shade.last <= RunGap

\* ShadeDetector::update, member by member.
LEMMA DetectorStep ==
  ASSUME PressTypeOK, NEW r \in Remote, NEW button \in Button, NEW mask \in Mask
  PROVE  /\ Updated(r, button, mask) \in Detector
         /\ button = "STOP" =>
              /\ Updated(r, button, mask).channel = mask
              /\ Updated(r, button, mask).active /\ Updated(r, button, mask).serial = r /\ Updated(r, button, mask).last = 0
              /\ GoesOn(r, mask) => /\ Updated(r, button, mask).start = shade.start
                                    /\ Updated(r, button, mask).reported <=> (shade.reported \/ shade.start >= Hold)
                                    /\ IsShade(r, button, mask) <=> (~shade.reported /\ shade.start >= Hold)
              /\ ~GoesOn(r, mask) => /\ Updated(r, button, mask).start = 0 /\ ~Updated(r, button, mask).reported
                                     /\ ~IsShade(r, button, mask)
         /\ button # "STOP" => ~Updated(r, button, mask).active /\ ~IsShade(r, button, mask)
<1> USE Gaps
<1>a. shade \in Detector
      /\ 0 \in Ages /\ shade.last \in 0 .. Far /\ shade.start \in 0 .. Far
  BY DEF PressTypeOK, Detector, Ages
<1>1. CASE button # "STOP"
  BY <1>a, <1>1 DEF Updated, IsShade, Detector
<1>2. CASE button = "STOP" /\ GoesOn(r, mask)
  <2>1. ~RunEnds(r, mask)
    BY <1>a, <1>2 DEF RunEnds, GoesOn
  <2>2. Run(r, mask) = [shade EXCEPT !.last = 0]
    BY <2>1 DEF Run
  <2>3. Run(r, mask).reported = shade.reported /\ Run(r, mask).start = shade.start /\ Run(r, mask).active
        /\ Run(r, mask).serial = r /\ Run(r, mask).last = 0 /\ Run(r, mask).channel = mask
        /\ Run(r, mask) \in Detector
    BY <1>a, <1>2, <2>2 DEF GoesOn, Detector
  <2>4. IsShade(r, button, mask) <=> (~shade.reported /\ shade.start >= Hold)
    BY <1>2, <2>3 DEF IsShade
  <2>5. Updated(r, button, mask) = [Run(r, mask) EXCEPT !.reported = Run(r, mask).reported \/ IsShade(r, button, mask)]
    BY <1>2 DEF Updated
  <2>6. (Run(r, mask).reported \/ IsShade(r, button, mask)) \in BOOLEAN
    OBVIOUS
  <2> HIDE DEF GoesOn
  <2>7. /\ Updated(r, button, mask).channel = mask
        /\ Updated(r, button, mask).active /\ Updated(r, button, mask).serial = r /\ Updated(r, button, mask).last = 0
        /\ Updated(r, button, mask).start = shade.start
        /\ Updated(r, button, mask).reported <=> (shade.reported \/ IsShade(r, button, mask))
        /\ Updated(r, button, mask) \in Detector
    BY <2>3, <2>5, <2>6 DEF Detector
  <2> QED BY <1>2, <2>4, <2>7
<1>3. CASE button = "STOP" /\ ~GoesOn(r, mask)
  <2>1. RunEnds(r, mask)
    BY <1>a, <1>3 DEF RunEnds, GoesOn
  <2>2. Run(r, mask) = [active |-> TRUE, reported |-> FALSE, serial |-> r, channel |-> mask, start |-> 0, last |-> 0]
    BY <2>1 DEF Run
  <2>3. ~IsShade(r, button, mask)
    BY <2>2 DEF IsShade
  <2>4. ~Run(r, mask).reported /\ Run(r, mask).start = 0 /\ Run(r, mask).active /\ Run(r, mask).serial = r
        /\ Run(r, mask).last = 0 /\ Run(r, mask).channel = mask
        /\ Run(r, mask) \in Detector
    BY <1>a, <2>2 DEF Detector
  <2>5. Updated(r, button, mask) = [Run(r, mask) EXCEPT !.reported = Run(r, mask).reported \/ IsShade(r, button, mask)]
    BY <1>3 DEF Updated
  <2>6. (Run(r, mask).reported \/ IsShade(r, button, mask)) = FALSE
    BY <2>3, <2>4
  <2> HIDE DEF GoesOn
  <2>7. /\ Updated(r, button, mask).channel = mask
        /\ Updated(r, button, mask).active /\ Updated(r, button, mask).serial = r /\ Updated(r, button, mask).last = 0
        /\ Updated(r, button, mask).start = 0 /\ ~Updated(r, button, mask).reported
        /\ Updated(r, button, mask) \in Detector
    BY <2>4, <2>5, <2>6 DEF Detector
  <2> QED BY <1>3, <2>3, <2>7
<1> QED
  BY <1>1, <1>2, <1>3

\* The repeat filter, member by member.
LEMMA FilterStep ==
  ASSUME PressTypeOK, NEW r \in Remote, NEW function \in Function
  PROVE  /\ Filtered(r, function) \in [valid : BOOLEAN, serial : Remote \cup {None}, function : Function, last : Ages]
         /\ Filtered(r, function).valid /\ Filtered(r, function).serial = r /\ Filtered(r, function).last = 0
         /\ Filtered(r, function).function = IF IsRepeat(r, function) THEN filter.function ELSE function
<1>a. filter \in [valid : BOOLEAN, serial : Remote \cup {None}, function : Function, last : Ages] /\ 0 \in Ages
  BY Gaps DEF PressTypeOK, Ages
<1>1. CASE IsRepeat(r, function)
  BY <1>a, <1>1 DEF Filtered, IsRepeat
<1>2. CASE ~IsRepeat(r, function)
  BY <1>a, <1>2 DEF Filtered
<1> QED BY <1>1, <1>2

\* The history of a remote that is heard, member by member.
LEMMA HearsStep ==
  ASSUME NEW h, NEW frame, NEW function, NEW told
  PROVE  LET after == Hears(h, frame, function, told) IN
         /\ after.press = frame.press /\ after.button = frame.button /\ after.mask = frame.mask
         /\ after.last = 0 /\ after.alone
         /\ after.run <=> frame.button = "STOP"
         /\ h.press # frame.press =>
              after.told = told /\ after.clean /\ (after.fresh <=> ~Alike(h, frame))
         /\ h.press = frame.press =>
              /\ after.clean <=> (h.clean /\ h.alone /\ h.last < RepeatGap)
              /\ after.told = IF after.clean THEN h.told \o told ELSE h.told
              /\ after.fresh = h.fresh
  BY DEF Hears

\* What becomes of its run of STOPs.
LEMMA HearsRun ==
  ASSUME NEW h, NEW frame, NEW function, NEW told
  PROVE  /\ h.run /\ h.alone /\ h.mask = frame.mask /\ h.last <= RunGap =>
              /\ Hears(h, frame, function, told).length = Lasted(h)
              /\ Hears(h, frame, function, told).shaded <=> (h.shaded \/ function = "SHADE")
         /\ ~(h.run /\ h.alone /\ h.mask = frame.mask /\ h.last <= RunGap) =>
              /\ Hears(h, frame, function, told).length = 0
              /\ Hears(h, frame, function, told).shaded <=> function = "SHADE"
  BY DEF Hears, Lasted

\* A frame is taken: the detector and the filter judge it as the history of its remote
\* does, so that what is passed on of a press is what may be.
LEMMA TakeKeeps == PressInv /\ Take => PressInv'
<1> SUFFICES ASSUME PressInv, Take PROVE PressInv'
  OBVIOUS
<1> USE Gaps
<1>a. /\ PressTypeOK /\ PressesConsistent /\ FilterKnows /\ ShadeKnows
      /\ OneReportPerPress /\ EveryPressReported /\ ShadeIsLongStop
  BY DEF PressInv
<1> DEFINE f == slot[1]
           r == f.remote
           b == f.button
           m == f.mask
           h == heard[r]
           function == FunctionOf(r, b, m)
           repeat == IsRepeat(r, function)
           told == IF repeat THEN <<>> ELSE <<function>>
<1>b. slot # <<>> /\ Head(slot) = f /\ f \in Frame /\ r \in Remote /\ b \in Button /\ m \in Mask
      /\ f.press \in Nat
  BY <1>a, SlotTyped DEF Take
<1>c. /\ slot' = <<>> /\ shade' = Updated(r, b, m) /\ filter' = Filtered(r, function)
      /\ UNCHANGED <<held, presses>>
      /\ heard' = [q \in Remote |-> IF q = r THEN Hears(h, f, function, told) ELSE [heard[q] EXCEPT !.alone = FALSE]]
  BY <1>b DEF Take
<1>d. \A q \in Remote : heard[q] \in Hearing
  BY <1>a DEF PressTypeOK
<1>e. /\ h.press \in Nat /\ h.button \in Button /\ h.told \in Seq(Function) /\ h.last \in 0 .. Far
      /\ h.length \in 0 .. Hold /\ shade.start \in 0 .. Far /\ filter.function \in Function
  BY <1>a, <1>b, <1>d DEF Hearing, Ages, PressTypeOK
<1>f. \A q \in Remote : q # r =>
        /\ heard'[q].press = heard[q].press /\ heard'[q].button = heard[q].button
        /\ heard'[q].told = heard[q].told /\ heard'[q].clean = heard[q].clean
        /\ heard'[q].fresh = heard[q].fresh /\ ~heard'[q].alone
        /\ heard'[q].run = heard[q].run /\ heard'[q].length = heard[q].length
        /\ heard'[q].shaded = heard[q].shaded /\ heard'[q].mask = heard[q].mask
        /\ heard'[q] \in Hearing
  BY <1>c, <1>d DEF Hearing
<1>g. heard'[r] = Hears(h, f, function, told)
  BY <1>b, <1>c
<1>h. /\ function = (IF IsShade(r, b, m) THEN "SHADE" ELSE b)
      /\ Of(function, b) /\ function \in Function
      /\ function = "SHADE" <=> IsShade(r, b, m)
  BY <1>b DEF FunctionOf, Of, Function, IsShade
<1>i. repeat <=> /\ filter.valid /\ filter.serial = r /\ filter.last < RepeatGap
                 /\ function = filter.function \/ (filter.function = "SHADE" /\ function = "STOP")
  BY DEF IsRepeat
<1>j. told \in Seq(Function)
  BY <1>h
<1> HIDE DEF function, repeat
\* A frame of the press heard last shows the button of that press.
<1>k. h.press = f.press => b = h.button
  BY <1>a, <1>b DEF PressesConsistent
\* What the filter takes for a repeat is like the frame heard last.
<1>l. repeat => Alike(h, f) /\ h.alone /\ filter.last = h.last
  <2> SUFFICES ASSUME repeat PROVE Alike(h, f) /\ h.alone /\ filter.last = h.last
    OBVIOUS
  <2>1. h.alone /\ filter.last = h.last /\ Of(filter.function, h.button) /\ h.last < RepeatGap
    BY <1>a, <1>b, <1>i DEF FilterKnows
  <2>2. b = h.button
    BY <1>b, <1>e, <1>h, <1>i, <2>1 DEF Of
  <2> QED BY <2>1, <2>2 DEF Alike
\* The detector and the history agree on whether the run goes on.
<1>m. GoesOn(r, m) <=> (h.run /\ h.alone /\ h.mask = m /\ h.last <= RunGap)
  BY <1>a, <1>b DEF ShadeKnows, GoesOn
\* Within a clean press only a SHADE after a STOP is passed on.
<1>o. h.press = f.press /\ h.clean /\ h.alone /\ h.last < RepeatGap /\ ~repeat
        => function = "SHADE" /\ b = "STOP" /\ filter.function = "STOP" /\ h.told \in {<<>>, <<"STOP">>}
  <2> SUFFICES ASSUME h.press = f.press, h.clean, h.alone, h.last < RepeatGap, ~repeat
               PROVE  function = "SHADE" /\ b = "STOP" /\ filter.function = "STOP" /\ h.told \in {<<>>, <<"STOP">>}
    OBVIOUS
  <2>1. filter.valid /\ filter.serial = r /\ filter.last = h.last /\ Of(filter.function, b)
    BY <1>a, <1>b, <1>k DEF FilterKnows
  <2>2. function # filter.function /\ ~(filter.function = "SHADE" /\ function = "STOP")
    BY <1>i, <2>1
  <2>3. function = "SHADE" /\ b = "STOP" /\ filter.function = "STOP"
    BY <1>h, <2>1, <2>2 DEF Of
  <2> QED BY <1>a, <1>b, <2>3 DEF FilterKnows
<1>p. h.told \o <<>> = h.told
  BY <1>e, ConcatEmptySeq
<1>1. PressTypeOK'
  <2>1. heard'[r] \in Hearing
    BY <1>b, <1>d, <1>g, <1>j, HearsTyped
  <2>2. heard' \in [Remote -> Hearing]
    BY <1>c, <1>f, <2>1
  <2>3. /\ shade' \in Detector
        /\ filter' \in [valid : BOOLEAN, serial : Remote \cup {None}, function : Function, last : Ages]
    BY <1>a, <1>b, <1>c, <1>h, DetectorStep, FilterStep
  <2>4. slot' \in Seq(Frame) /\ Len(slot') = 0
    BY <1>c
  <2> QED BY <1>a, <1>c, <2>2, <2>3, <2>4 DEF PressTypeOK, Detector
<1>q. /\ heard'[r].press = f.press /\ heard'[r].button = b /\ heard'[r].mask = m
      /\ heard'[r].last = 0 /\ heard'[r].alone
      /\ heard'[r].run <=> b = "STOP"
  BY <1>g, HearsStep
<1>r. h.press # f.press =>
        heard'[r].told = told /\ heard'[r].clean /\ (heard'[r].fresh <=> ~Alike(h, f))
  BY <1>g, HearsStep
<1>s. h.press = f.press =>
        /\ heard'[r].clean <=> (h.clean /\ h.alone /\ h.last < RepeatGap)
        /\ heard'[r].told = IF heard'[r].clean THEN h.told \o told ELSE h.told
        /\ heard'[r].fresh = h.fresh
  BY <1>g, HearsStep
<1>t. /\ GoesOn(r, m) => heard'[r].length = Lasted(h) /\ (heard'[r].shaded <=> (h.shaded \/ IsShade(r, b, m)))
      /\ ~GoesOn(r, m) => heard'[r].length = 0 /\ (heard'[r].shaded <=> IsShade(r, b, m))
  <2> HIDE DEF GoesOn, told
  <2>1. /\ h.run /\ h.alone /\ h.mask = m /\ h.last <= RunGap =>
               heard'[r].length = Lasted(h) /\ (heard'[r].shaded <=> (h.shaded \/ function = "SHADE"))
        /\ ~(h.run /\ h.alone /\ h.mask = m /\ h.last <= RunGap) =>
               heard'[r].length = 0 /\ (heard'[r].shaded <=> function = "SHADE")
    BY <1>g, HearsRun
  <2> QED BY <1>h, <1>m, <2>1
<1>u. /\ filter'.valid /\ filter'.serial = r /\ filter'.last = 0
      /\ filter'.function = IF repeat THEN filter.function ELSE function
  BY <1>a, <1>b, <1>c, <1>h, FilterStep DEF repeat
<1> HIDE DEF told
<1>v. told = IF repeat THEN <<>> ELSE <<function>>
  BY DEF told
<1>2. PressesConsistent'
  <2>1. ASSUME NEW q \in Remote
        PROVE  /\ heard'[q].press <= presses[q]
               /\ held[q] # None /\ heard'[q].press = presses[q] => held[q] = heard'[q].button
    <3>1. CASE q = r
      BY <1>a, <1>b, <1>q, <3>1 DEF PressesConsistent
    <3>2. CASE q # r
      BY <1>a, <1>f, <3>2 DEF PressesConsistent
    <3> QED BY <3>1, <3>2
  <2> QED BY <1>c, <2>1 DEF PressesConsistent
<1>3. FilterKnows'
  <2>1. Of(filter'.function, b)
    BY <1>b, <1>h, <1>i, <1>u DEF Of
  <2>2. ASSUME heard'[r].clean, filter'.function = "STOP"
        PROVE  heard'[r].told \in {<<>>, <<"STOP">>}
    <3>1. CASE h.press # f.press
      BY <1>r, <1>u, <1>v, <2>2, <3>1
    <3>2. CASE h.press = f.press
      <4>1. h.clean /\ h.alone /\ h.last < RepeatGap
        BY <1>s, <2>2, <3>2
      <4>2. repeat
        BY <1>o, <1>u, <2>2, <3>2, <4>1
      <4>3. heard'[r].told = h.told
        BY <1>p, <1>s, <1>v, <2>2, <3>2, <4>2
      <4> QED BY <1>a, <1>b, <1>u, <2>2, <4>1, <4>2, <4>3 DEF FilterKnows
    <3> QED BY <3>1, <3>2
  <2>3. ASSUME NEW q \in Remote
        PROVE  LET g == heard'[q] IN
                 /\ (filter'.valid /\ filter'.serial = q) <=> g.alone
                 /\ g.alone => filter'.last = g.last /\ Of(filter'.function, g.button)
                 /\ g.alone /\ g.clean /\ filter'.function = "STOP" => g.told \in {<<>>, <<"STOP">>}
    <3>1. CASE q = r
      BY <1>q, <1>u, <2>1, <2>2, <3>1
    <3>2. CASE q # r
      BY <1>f, <1>u, <3>2
    <3> QED BY <3>1, <3>2
  <2> QED BY <2>3 DEF FilterKnows, Of
<1>4. OneReportPerPress'
  <2>1. ASSUME NEW q \in Remote, heard'[q].clean
        PROVE  heard'[q].told \in {<<>>, <<heard'[q].button>>}
                 \cup IF heard'[q].button = "STOP" THEN {<<"STOP", "SHADE">>, <<"SHADE">>} ELSE {}
    <3>1. CASE q # r
      BY <1>a, <1>f, <2>1, <3>1 DEF OneReportPerPress
    <3>2. CASE q = r /\ h.press # f.press
      BY <1>h, <1>q, <1>r, <1>v, <3>2 DEF Of
    <3>3. CASE q = r /\ h.press = f.press
      <4>1. h.clean /\ h.alone /\ h.last < RepeatGap /\ b = h.button /\ heard'[r].told = h.told \o told
        BY <1>k, <1>s, <2>1, <3>3
      <4>2. CASE repeat
        BY <1>a, <1>b, <1>p, <1>q, <1>v, <3>3, <4>1, <4>2 DEF OneReportPerPress
      <4>3. CASE ~repeat
        <5>1. told = <<"SHADE">> /\ b = "STOP" /\ h.told \in {<<>>, <<"STOP">>}
          BY <1>o, <1>v, <3>3, <4>1, <4>3
        <5>2. heard'[r].told \in {<<"STOP", "SHADE">>, <<"SHADE">>}
          BY <4>1, <5>1, ToldMore
        <5> QED BY <1>q, <3>3, <5>1, <5>2
      <4> QED BY <4>2, <4>3
    <3> QED BY <3>1, <3>2, <3>3
  <2> QED BY <2>1 DEF OneReportPerPress
<1>5. EveryPressReported'
  <2>1. ASSUME NEW q \in Remote, heard'[q].press > 0, heard'[q].fresh
        PROVE  heard'[q].told # <<>> /\ heard'[q].told[1] \in {heard'[q].button, "SHADE"}
    <3>1. CASE q # r
      BY <1>a, <1>f, <2>1, <3>1 DEF EveryPressReported
    <3>2. CASE q = r /\ h.press # f.press
      <4>1. ~repeat /\ heard'[r].told = <<function>>
        BY <1>l, <1>r, <1>v, <2>1, <3>2
      <4> QED BY <1>h, <1>q, <3>2, <4>1 DEF Of
    <3>3. CASE q = r /\ h.press = f.press
      <4>1. h.told # <<>> /\ h.told[1] \in {h.button, "SHADE"} /\ b = h.button
        BY <1>a, <1>b, <1>k, <1>q, <1>s, <2>1, <3>3 DEF EveryPressReported
      <4>2. h.told \o told # <<>> /\ (h.told \o told)[1] = h.told[1]
        BY <1>e, <1>j, <4>1, FirstStays
      <4> QED BY <1>q, <1>s, <3>3, <4>1, <4>2
    <3> QED BY <3>1, <3>2, <3>3
  <2> QED BY <2>1 DEF EveryPressReported
\* How the detector stands after a STOP.
<1>w. b = "STOP" =>
        /\ shade'.active /\ shade'.serial = r /\ shade'.channel = m /\ shade'.last = 0
        /\ GoesOn(r, m) => /\ shade'.start = shade.start
                           /\ shade'.reported <=> (shade.reported \/ shade.start >= Hold)
                           /\ IsShade(r, b, m) <=> (~shade.reported /\ shade.start >= Hold)
        /\ ~GoesOn(r, m) => shade'.start = 0 /\ ~shade'.reported /\ ~IsShade(r, b, m)
  BY <1>a, <1>b, <1>c, DetectorStep
<1>x. b # "STOP" => ~shade'.active /\ ~IsShade(r, b, m)
  BY <1>a, <1>b, <1>c, DetectorStep
\* What it knows of a run that goes on.
<1>y. GoesOn(r, m) => /\ h.run /\ shade.last = h.last
                      /\ shade.reported <=> h.shaded
                      /\ shade.start >= Hold <=> Lasted(h) = Hold
                      /\ shade.start < Hold => Lasted(h) = shade.start
  BY <1>a, <1>b, <1>m DEF ShadeKnows
<1> HIDE DEF GoesOn
<1>z. heard'[r].length \in 0 .. Hold /\ Lasted(heard'[r]) = heard'[r].length
  <2>1. heard'[r].length \in 0 .. Hold
    BY <1>b, <1>1 DEF PressTypeOK, Hearing
  <2> QED BY <1>q, <2>1 DEF Lasted
<1>6. ShadeKnows'
  <2>1. ASSUME b = "STOP"
        PROVE  /\ shade'.reported <=> heard'[r].shaded
               /\ shade'.start >= Hold <=> heard'[r].length = Hold
               /\ shade'.start < Hold => heard'[r].length = shade'.start
    <3>1. CASE GoesOn(r, m)
      BY <1>t, <1>w, <1>y, <2>1, <3>1
    <3>2. CASE ~GoesOn(r, m)
      BY <1>t, <1>w, <2>1, <3>2
    <3> QED BY <3>1, <3>2
  <2>2. ASSUME NEW q \in Remote
        PROVE  LET g == heard'[q] IN
                 /\ (shade'.active /\ shade'.serial = q) <=> (g.run /\ g.alone)
                 /\ g.run /\ g.alone =>
                      /\ shade'.last = g.last /\ shade'.channel = g.mask
                      /\ shade'.reported <=> g.shaded
                      /\ shade'.start >= Hold <=> Lasted(g) = Hold
                      /\ shade'.start < Hold => Lasted(g) = shade'.start
    <3>1. CASE q # r
      BY <1>f, <1>w, <1>x, <3>1
    <3>2. CASE q = r /\ b = "STOP"
      BY <1>q, <1>w, <1>z, <2>1, <3>2
    <3>3. CASE q = r /\ b # "STOP"
      BY <1>q, <1>x, <3>3
    <3> QED BY <3>1, <3>2, <3>3
  <2> QED BY <2>2 DEF ShadeKnows, Lasted
<1>7. ShadeIsLongStop'
  <2>1. ASSUME NEW q \in Remote, heard'[q].run
        PROVE  heard'[q].shaded <=> heard'[q].length = Hold
    <3>1. CASE q # r
      BY <1>a, <1>f, <2>1, <3>1 DEF ShadeIsLongStop
    <3>2. CASE q = r /\ GoesOn(r, m)
      <4>1. b = "STOP"
        BY <1>q, <2>1, <3>2
      <4>2. h.shaded => Lasted(h) = Hold
        BY <1>a, <1>b, <1>e, <1>y, <3>2 DEF ShadeIsLongStop, Lasted
      <4> QED BY <1>t, <1>w, <1>y, <3>2, <4>1, <4>2
    <3>3. CASE q = r /\ ~GoesOn(r, m)
      BY <1>q, <1>t, <1>w, <2>1, <3>3
    <3> QED BY <3>1, <3>2, <3>3
  <2> QED BY <2>1 DEF ShadeIsLongStop
<1> QED
  BY <1>1, <1>2, <1>3, <1>4, <1>5, <1>6, <1>7 DEF PressInv

LEMMA PressInductive == PressInv /\ [PressNext]_pressVars => PressInv'
<1>1. ASSUME PressInv, UNCHANGED pressVars PROVE PressInv'
  BY <1>1, RemotesOnly DEF pressVars, PressInv, PressTypeOK, PressesConsistent
<1> QED
  BY <1>1, AtRemotes, TakeKeeps, TickKeeps DEF PressNext

LEMMA PressReach == PressSpec => []PressInv
  BY PressStarts, PressInductive, PTL DEF PressSpec

\* A press that is heard without a pause is reported once, and a STOP that becomes a
\* SHADE as both or as the SHADE, for any number of remotes and buttons and for every
\* order of the three times (remoteMatch.cpp:46-62, jarolift.cpp:145-158).
THEOREM OneReport == PressSpec => []OneReportPerPress
  BY PressReach, PTL DEF PressInv

\* A press unlike what was heard of its remote just before is reported with its first
\* frame, however late that is taken and whatever the other remotes do.
THEOREM PressReported == PressSpec => []EveryPressReported
  BY PressReach, PTL DEF PressInv

\* A run of STOPs of one remote with one mask becomes a SHADE exactly when it has lasted
\* kHoldMs (ShadeDetector.h:38-68), whatever the other remotes send and however often the
\* mask of the frames changes; a change of the mask ends the run.
THEOREM LongStop == PressSpec => []ShadeIsLongStop
  BY PressReach, PTL DEF PressInv
=============================================================================

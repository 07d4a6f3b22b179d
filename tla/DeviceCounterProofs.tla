------------------------- MODULE DeviceCounterProofs -------------------------
(***************************************************************************)
(* Proofs about DeviceCounter for every counter width, receiver window and *)
(* set of commands, and for behaviours of any length.                      *)
(***************************************************************************)
EXTENDS DeviceCounter, TLAPS

\* The assumptions on the constants the proofs use.
LEMMA Widths == /\ W \in Nat /\ W > 3
                /\ Window \in Nat /\ Window >= 2 /\ Window < W
  BY CounterAssumption, WindowAssumption

\* uint16_t arithmetic stays in the counter's range, and the two successors of
\* a counter are different from it and within reach of a receiver.
LEMMA Successors ==
  ASSUME NEW n \in Counter
  PROVE  /\ Succ(n) \in Counter /\ Succ(Succ(n)) \in Counter
         /\ Succ(n) # n /\ Succ(Succ(n)) # n
         /\ Gap(n, n) = 0 /\ Gap(n, Succ(n)) = 1 /\ Gap(n, Succ(Succ(n))) = 2
  BY Widths DEF Counter, Succ, Gap

\* 0 and 1 are counters.
LEMMA SmallCounters == 0 \in Counter /\ 1 \in Counter
  BY Widths DEF Counter

\* The state of the counter, as Memory sees it.
LEMMA CurrentMemory ==
  ASSUME devCount \in Counter, devCountValid \in BOOLEAN, flash \in Counter \cup {Missing}
  PROVE  Current \in Memory
  BY Zenon DEF Current, Memory

\* What the operations on the counter return is of the right type.
LEMMA MemoryTyping ==
  ASSUME NEW m \in Memory, NEW n \in Counter, NEW reads \in BOOLEAN, NEW writes \in BOOLEAN,
         eeprom \in Counter
  PROVE  /\ Stored(m, n, writes) \in Memory
         /\ Fetched(m, reads, writes) \in Memory
         /\ Advanced(m, reads, writes) \in Memory
<1>1. \A k \in Memory, c \in Counter : Stored(k, c, writes) \in Memory
  BY DEF Stored, Memory
<1>2. Fetched(m, reads, writes) \in Memory
  BY <1>1, SmallCounters DEF Fetched, Memory
<1>3. Fetched(m, reads, writes).value \in Counter
  BY <1>2 DEF Memory
<1>4. Advanced(m, reads, writes) \in Memory
  BY <1>1, <1>2, <1>3, Successors DEF Advanced
<1> QED
  BY <1>1, <1>2, <1>4

\* An operation on the counter leaves the three variables in their types.
LEMMA BecomesTyping ==
  ASSUME NEW m \in Memory, Becomes(m)
  PROVE  devCount' \in Counter /\ devCountValid' \in BOOLEAN /\ flash' \in Counter \cup {Missing}
  BY DEF Becomes, Memory

\* An access counts as a fault or it does not; while no fault has been counted
\* there was none.
LEMMA AccessTyping ==
  ASSUME NEW reads \in BOOLEAN, NEW writes \in BOOLEAN, Access(reads, writes),
         badReads \in Nat, badWrites \in Nat
  PROVE  /\ badReads' \in Nat /\ badWrites' \in Nat
         /\ badReads' = 0 => badReads = 0 /\ reads = TRUE
         /\ badWrites' = 0 => badWrites = 0 /\ writes = TRUE
  BY DEF Access

(* Type correctness.                                                       *)

\* Every initial state is of the right type.
LEMMA InitTyped == CounterInit => CounterTypeOK
<1>1. CounterInit => devCountValid \in BOOLEAN
  BY Zenon DEF CounterInit
<1>2. CounterInit => flash \in Counter \cup {Missing}
  BY Zenon DEF CounterInit
<1>3. CounterInit => byHand \in BOOLEAN
  BY Zenon DEF CounterInit
<1> QED
  BY <1>1, <1>2, <1>3, SmallCounters DEF CounterInit, CounterTypeOK

\* Every step keeps every variable in its type.
LEMMA StepTyped ==
  ASSUME CounterTypeOK, [CounterNext]_counterVars
  PROVE  CounterTypeOK'
<1>0. Current \in Memory /\ eeprom \in Counter /\ badReads \in Nat /\ badWrites \in Nat
  BY CurrentMemory DEF CounterTypeOK
<1>1. CASE Begin
  <2>1. PICK reads, writes \in BOOLEAN :
          Access(reads, writes) /\ Becomes(Fetched(Current, reads, writes))
    BY <1>1 DEF Begin
  <2>2. devCount' \in Counter /\ devCountValid' \in BOOLEAN /\ flash' \in Counter \cup {Missing}
    BY <2>1, <1>0, MemoryTyping, BecomesTyping, SmallCounters
  <2>3. badReads' \in Nat /\ badWrites' \in Nat
    BY <2>1, <1>0, AccessTyping
  <2> QED
    BY <1>1, <2>2, <2>3 DEF Begin, CounterTypeOK
<1>2. CASE Command
  <2>1. /\ devCount' \in Counter /\ devCountValid' \in BOOLEAN /\ flash' \in Counter \cup {Missing}
        /\ badReads' \in Nat /\ badWrites' \in Nat
    <3>1. CASE UNCHANGED <<devCount, devCountValid, flash, faultVars>>
      BY <3>1 DEF faultVars, CounterTypeOK
    <3>2. CASE \E reads, writes \in BOOLEAN :
                 Access(reads, writes) /\ Becomes(Fetched(Current, reads, writes))
      BY <3>2, <1>0, MemoryTyping, BecomesTyping, AccessTyping, SmallCounters
    <3> QED
      BY <1>2, <3>1, <3>2 DEF Command
  <2> QED
    BY <1>2, <2>1, BurstsAssumption DEF Command, CounterTypeOK
<1>3. CASE Encrypt
  <2>1. PICK reads, writes \in BOOLEAN :
          /\ Access(reads, writes) /\ Becomes(Fetched(Current, reads, writes))
          /\ hop' = Fetched(Current, reads, writes).value
    BY <1>3 DEF Encrypt
  <2>2. Fetched(Current, reads, writes) \in Memory
    BY <1>0, MemoryTyping, SmallCounters
  <2>3. devCount' \in Counter /\ devCountValid' \in BOOLEAN /\ flash' \in Counter \cup {Missing}
    BY <2>1, <2>2, BecomesTyping
  <2>4. badReads' \in Nat /\ badWrites' \in Nat /\ hop' \in Counter
    BY <2>1, <2>2, <1>0, AccessTyping DEF Memory
  <2> QED
    BY <1>3, <2>3, <2>4 DEF Encrypt, CounterTypeOK
<1>4. CASE RadioTx
  BY <1>4 DEF RadioTx, faultVars, CounterTypeOK
<1>5. CASE Update
  <2>1. PICK reads, writes \in BOOLEAN :
          Access(reads, writes) /\ Becomes(Advanced(Current, reads, writes))
    BY <1>5 DEF Update
  <2>2. devCount' \in Counter /\ devCountValid' \in BOOLEAN /\ flash' \in Counter \cup {Missing}
    BY <2>1, <1>0, MemoryTyping, BecomesTyping, SmallCounters
  <2>3. badReads' \in Nat /\ badWrites' \in Nat
    BY <2>1, <1>0, AccessTyping
  <2> QED
    BY <1>5, <2>2, <2>3 DEF Update, CounterTypeOK
<1>6. CASE SetByHand
  <2>1. PICK n \in SetTo, writes \in BOOLEAN :
          Access(TRUE, writes) /\ Becomes(Stored(Current, n, writes))
    BY <1>6 DEF SetByHand
  <2>0. byHand' \in BOOLEAN
    BY <1>6, Zenon DEF SetByHand
  <2>2. devCount' \in Counter /\ devCountValid' \in BOOLEAN /\ flash' \in Counter \cup {Missing}
    BY <2>1, <1>0, MemoryTyping, BecomesTyping, SetAssumption DEF Counter
  <2>3. badReads' \in Nat /\ badWrites' \in Nat
    BY <2>1, <1>0, AccessTyping
  <2> QED
    BY <1>6, <2>0, <2>2, <2>3 DEF SetByHand, CounterTypeOK
<1>7. CASE Crash
  <2>1. devCountValid' \in BOOLEAN
    BY <1>7, Zenon DEF Crash
  <2> QED
    BY <1>7, <2>1, SmallCounters DEF Crash, faultVars, CounterTypeOK
<1>8. CASE UNCHANGED counterVars
  BY <1>8 DEF counterVars, faultVars, CounterTypeOK
<1> QED
  BY <1>1, <1>2, <1>3, <1>4, <1>5, <1>6, <1>7, <1>8 DEF CounterNext

\* Every variable keeps its type, whatever fails and whenever the power does.
THEOREM TypeCorrect == CounterSpec => []CounterTypeOK
<1>1. CounterTypeOK /\ [CounterNext]_counterVars => CounterTypeOK'
  BY StepTyped
<1> QED
  BY <1>1, InitTyped, PTL DEF CounterSpec

(* The cache and the flash.                                                *)

\* A memory whose cache, if it is valid, is the stored counter.
InStep(m) == m.valid => m.nvs = m.ram

\* Writes that succeed keep cache and flash in step.
LEMMA StepsTogether ==
  ASSUME NEW m \in Memory, NEW n \in Counter, NEW reads \in BOOLEAN, InStep(m), eeprom \in Counter
  PROVE  InStep(Stored(m, n, TRUE)) /\ InStep(Fetched(m, reads, TRUE)) /\ InStep(Advanced(m, reads, TRUE))
<1>1. \A k \in Memory, c \in Counter : InStep(Stored(k, c, TRUE))
  BY DEF Stored, Memory, InStep
<1>2. InStep(Fetched(m, reads, TRUE))
  BY <1>1, SmallCounters DEF Fetched, Memory, InStep
<1>3. Fetched(m, reads, TRUE) \in Memory
  BY MemoryTyping
<1>4. Succ(Fetched(m, reads, TRUE).value) \in Counter
  BY <1>3, Successors DEF Memory
<1> QED
  BY <1>1, <1>2, <1>3, <1>4 DEF Advanced

\* What an operation that is in step becomes is CacheIsStored.
LEMMA BecomesStored ==
  ASSUME NEW m \in Memory, InStep(m), Becomes(m)
  PROVE  CacheIsStored'
  BY DEF InStep, Becomes, CacheIsStored, Memory

\* While no write has been refused the cached counter is the stored one: reading,
\* failing to read, migrating, transmitting, setting by hand and crashing in any
\* order never leave RAM ahead of the flash.
THEOREM CacheStored == CounterSpec => []CacheIsStored
<1>1. CounterInit => CacheIsStored
  BY DEF CounterInit, CacheIsStored
<1>2. CounterTypeOK /\ CacheIsStored /\ [CounterNext]_counterVars => CacheIsStored'
  <2> SUFFICES ASSUME CounterTypeOK, CacheIsStored, [CounterNext]_counterVars, badWrites' = 0
               PROVE  CacheIsStored'
    BY DEF CacheIsStored
  <2>0. Current \in Memory /\ eeprom \in Counter /\ badReads \in Nat /\ badWrites \in Nat
    BY CurrentMemory DEF CounterTypeOK
  <2>1. badWrites = 0 => InStep(Current)
    BY DEF InStep, Current, CacheIsStored
  <2>2. ASSUME UNCHANGED <<devCount, devCountValid, flash, faultVars>>
        PROVE  CacheIsStored'
    BY <2>2 DEF CacheIsStored, faultVars
  <2>3. ASSUME NEW reads \in BOOLEAN, NEW writes \in BOOLEAN, Access(reads, writes),
               \/ Becomes(Fetched(Current, reads, writes))
               \/ Becomes(Advanced(Current, reads, writes))
        PROVE  CacheIsStored'
    <3>1. writes = TRUE /\ badWrites = 0
      BY <2>0, <2>3, AccessTyping
    <3>2. /\ Fetched(Current, reads, TRUE) \in Memory /\ InStep(Fetched(Current, reads, TRUE))
          /\ Advanced(Current, reads, TRUE) \in Memory /\ InStep(Advanced(Current, reads, TRUE))
      BY <2>0, <2>1, <3>1, MemoryTyping, StepsTogether, SmallCounters
    <3> QED
      BY <2>3, <3>1, <3>2, BecomesStored
  <2>4. CASE Begin
    BY <2>3, <2>4 DEF Begin
  <2>5. CASE Command
    BY <2>2, <2>3, <2>5 DEF Command
  <2>6. CASE Encrypt
    BY <2>3, <2>6 DEF Encrypt
  <2>7. CASE RadioTx
    BY <2>2, <2>7 DEF RadioTx
  <2>8. CASE Update
    BY <2>3, <2>8 DEF Update
  <2>9. CASE SetByHand
    <3>1. PICK n \in SetTo, writes \in BOOLEAN :
            Access(TRUE, writes) /\ Becomes(Stored(Current, n, writes))
      BY <2>9 DEF SetByHand
    <3>2. writes = TRUE /\ badWrites = 0 /\ n \in Counter
      BY <2>0, <3>1, AccessTyping, SetAssumption DEF Counter
    <3>3. Stored(Current, n, TRUE) \in Memory /\ InStep(Stored(Current, n, TRUE))
      BY <2>0, <2>1, <3>2, MemoryTyping, StepsTogether
    <3> QED
      BY <3>1, <3>2, <3>3, BecomesStored
  <2>10. CASE Crash
    BY <2>10 DEF Crash, CacheIsStored
  <2>11. CASE UNCHANGED counterVars
    BY <2>2, <2>11 DEF counterVars
  <2> QED
    BY <2>4, <2>5, <2>6, <2>7, <2>8, <2>9, <2>10, <2>11 DEF CounterNext
<1> QED
  BY <1>1, <1>2, TypeCorrect, PTL DEF CounterSpec

(* The price of a crash.                                                   *)

\* The counter a restart would find.
OnFlash == IF flash = Missing THEN eeprom ELSE flash

\* 1 when the next burst repeats a counter the receivers have heard already.
Debt == IF pc # "update" /\ OnFlash = accepted THEN 1 ELSE 0

\* The inductive invariant behind CrashCostsOneBurst: the stored counter is the
\* one the receivers heard last, the next, or the one after when 0 was skipped,
\* and it is the one heard last only after a crash that has not been paid for.
Paid ==
  /\ pc # "begin" => devCountValid /\ flash = devCount
  /\ pc = "begin" => ~devCountValid
  /\ pc = "radioTx" => hop = flash
  /\ pc = "update" => accepted = flash
  /\ OnFlash \in {accepted, Succ(accepted), Succ(Succ(accepted))}
  /\ OnFlash = Succ(Succ(accepted)) => OnFlash # 0
  /\ ignored + Debt <= crashes

\* It holds until NVS fails or somebody sets the counter.
Untouched == badReads = 0 /\ badWrites = 0 /\ ~byHand
CrashInv  == CounterTypeOK /\ (Untouched => Paid)

\* A crash at any point costs at most one ignored burst, for every counter
\* width, window and command, while NVS works and nobody sets the counter.
THEOREM CrashCosts == CounterSpec => []CrashCostsOneBurst
<1>1. CounterInit => CrashInv
  <2> SUFFICES ASSUME CounterInit
               PROVE  CrashInv
    OBVIOUS
  <2>1. CounterTypeOK
    BY InitTyped
  <2>2. accepted \in Counter /\ OnFlash = Succ(accepted)
    BY DEF CounterInit, OnFlash
  <2>3. Succ(accepted) # accepted /\ Succ(Succ(accepted)) # Succ(accepted)
    BY <2>2, Successors
  <2> QED
    BY <2>1, <2>2, <2>3 DEF CounterInit, CrashInv, Paid, Debt
<1>2. CrashInv /\ [CounterNext]_counterVars => CrashInv'
  <2> SUFFICES ASSUME CrashInv, [CounterNext]_counterVars, Untouched'
               PROVE  Paid'
    BY StepTyped DEF CrashInv
  <2>1. CounterTypeOK /\ CounterTypeOK'
    BY StepTyped DEF CrashInv
  <2>2. ASSUME NEW reads \in BOOLEAN, NEW writes \in BOOLEAN, Access(reads, writes)
        PROVE  reads = TRUE /\ writes = TRUE
    BY <2>1, <2>2, AccessTyping DEF Untouched, CounterTypeOK
  <2>0. Untouched
    <3>1. ASSUME NEW reads \in BOOLEAN, NEW writes \in BOOLEAN, Access(reads, writes)
          PROVE  badReads = 0 /\ badWrites = 0
      BY <2>1, <3>1, AccessTyping DEF Untouched, CounterTypeOK
    <3>2. badReads = 0 /\ badWrites = 0
      BY <3>1, Zenon DEF CounterNext, Begin, Command, Encrypt, RadioTx, Update, SetByHand, Crash,
                    counterVars, faultVars, Untouched
    <3>3. ~byHand
      BY Zenon DEF CounterNext, Begin, Command, Encrypt, RadioTx, Update, SetByHand, Crash, counterVars,
                  Untouched
    <3> QED
      BY <3>2, <3>3 DEF Untouched
  <2> Paid
    BY <2>0 DEF CrashInv
  <2>3. /\ accepted \in Counter /\ OnFlash \in Counter /\ ignored \in Nat /\ crashes \in Nat
        /\ Succ(accepted) \in Counter /\ Succ(Succ(accepted)) \in Counter
        /\ Succ(accepted) # accepted /\ Succ(Succ(accepted)) # Succ(accepted)
        /\ Debt \in {0, 1}
    BY <2>1, Successors DEF CounterTypeOK, OnFlash, Debt
  <2>4. ASSUME devCountValid, Becomes(Fetched(Current, TRUE, TRUE))
        PROVE  UNCHANGED <<devCount, devCountValid, flash>>
              /\ Fetched(Current, TRUE, TRUE).value = devCount
    BY <2>1, <2>4 DEF Becomes, Fetched, Current, CounterTypeOK
  <2>5. CASE Begin
    <3>1. Becomes(Fetched(Current, TRUE, TRUE))
      BY <2>2, <2>5 DEF Begin
    <3>2. ~devCountValid
      BY <2>5 DEF Begin, Paid
    <3>3. /\ devCountValid' /\ flash' = devCount'
          /\ flash' = IF OnFlash = 0 THEN 1 ELSE OnFlash
      BY <2>1, <3>1, <3>2 DEF Becomes, Fetched, Stored, Current, OnFlash, CounterTypeOK, Counter, Missing
    <3>4. OnFlash' = flash'
      BY <2>3, <3>3, Widths DEF OnFlash, Counter, Missing
    <3>5. OnFlash = 0 => flash' = Succ(OnFlash)
      BY <3>3, Widths DEF Succ
    <3>6. pc' = "idle" /\ UNCHANGED <<accepted, ignored, crashes, eeprom>>
      BY <2>5 DEF Begin
    <3>7. OnFlash' \in {accepted, Succ(accepted), Succ(Succ(accepted))} /\ OnFlash' # 0
      BY <2>3, <3>3, <3>4, <3>5 DEF Paid
    <3>8. OnFlash' = accepted => OnFlash = accepted
      BY <2>3, <3>3, <3>4, <3>5, <3>7, Widths, Successors DEF Paid, Succ, Counter
    <3>9. Debt' <= Debt
      BY <2>5, <3>6, <3>8 DEF Debt, Begin
    <3> QED
      BY <2>1, <2>3, <3>3, <3>6, <3>7, <3>9 DEF Paid, Debt
  <2>6. CASE Command
    <3>1. UNCHANGED <<devCount, devCountValid, flash>>
      <4>1. devCountValid
        BY <2>6 DEF Command, Paid
      <4> QED
        BY <2>2, <2>4, <2>6, <4>1 DEF Command
    <3> QED
      BY <2>1, <2>6, <3>1 DEF Command, Paid, OnFlash, Debt
  <2>7. CASE Encrypt
    <3>1. devCountValid /\ flash = devCount
      BY <2>7 DEF Encrypt, Paid
    <3>2. Becomes(Fetched(Current, TRUE, TRUE)) /\ hop' = Fetched(Current, TRUE, TRUE).value
      BY <2>2, <2>7 DEF Encrypt
    <3>3. UNCHANGED <<devCount, devCountValid, flash>> /\ hop' = flash
      BY <2>4, <3>1, <3>2
    <3> QED
      BY <2>1, <2>7, <3>1, <3>3 DEF Encrypt, Paid, OnFlash, Debt
  <2>8. CASE RadioTx
    <3>1. hop = flash /\ flash = devCount /\ devCountValid /\ OnFlash = flash
      BY <2>1, <2>8 DEF RadioTx, Paid, OnFlash, CounterTypeOK, Counter, Missing
    <3>2. Accepts(hop) <=> OnFlash # accepted
      BY <2>3, <3>1, Widths, Successors DEF Accepts, Paid
    <3>3. accepted' = flash /\ UNCHANGED <<flash, eeprom, devCount, devCountValid, crashes>>
      BY <2>8, <3>1, <3>2 DEF RadioTx
    <3>4. pc' = "update" /\ OnFlash' = accepted'
      BY <2>8, <3>1, <3>3 DEF RadioTx, OnFlash
    <3>5. ignored' <= crashes
      BY <2>3, <2>8, <3>1, <3>2 DEF RadioTx, Paid, Debt
    <3>6. Debt' = 0
      BY <3>4 DEF Debt
    <3>7. Succ(accepted') # accepted' /\ Succ(Succ(accepted')) # accepted'
      BY <2>1, Successors DEF CounterTypeOK
    <3>8. devCountValid' /\ flash' = devCount'
      BY <3>1, <3>3
    <3>9. ignored' + Debt' <= crashes'
      <4>1. ignored' \in Nat /\ crashes' = crashes
        BY <2>1, <3>3 DEF CounterTypeOK
      <4> QED
        BY <3>5, <3>6, <4>1
    <3>10. OnFlash' \in {accepted', Succ(accepted'), Succ(Succ(accepted'))}
           /\ OnFlash' # Succ(Succ(accepted'))
      BY <3>4, <3>7
    <3>11. pc' # "begin" /\ pc' # "radioTx"
      BY <3>4
    <3> QED
      BY <2>1, <3>3, <3>8, <3>9, <3>10, <3>11 DEF Paid
  <2>9. CASE Update
    <3>1. devCountValid /\ flash = devCount /\ accepted = flash /\ Debt = 0
      BY <2>9 DEF Update, Paid, Debt
    <3>2. Becomes(Advanced(Current, TRUE, TRUE))
      BY <2>2, <2>9 DEF Update
    <3>3. devCountValid' /\ flash' = Succ(accepted) /\ devCount' = flash'
      BY <2>1, <3>1, <3>2 DEF Becomes, Advanced, Fetched, Stored, Current, CounterTypeOK
    <3>4. pc' \in {"idle", "encrypt"} /\ UNCHANGED <<accepted, ignored, crashes, eeprom>>
      BY <2>9 DEF Update
    <3>5. OnFlash' = Succ(accepted)
      BY <2>3, <3>3 DEF OnFlash, Counter, Missing
    <3>6. Debt' = 0
      BY <2>3, <3>4, <3>5 DEF Debt
    <3> QED
      BY <2>1, <2>3, <3>1, <3>3, <3>4, <3>5, <3>6 DEF Paid
  <2>10. CASE SetByHand
    BY <2>10 DEF SetByHand, Untouched
  <2>11. CASE Crash
    <3>1. Debt' <= 1 /\ crashes' = crashes + 1 /\ UNCHANGED <<flash, eeprom, accepted, ignored>>
      BY <2>11 DEF Crash, Debt
    <3>2. ignored <= crashes
      BY <2>3 DEF Paid
    <3>3. ~devCountValid' /\ pc' = "begin"
      BY <2>11 DEF Crash
    <3>4. OnFlash' = OnFlash
      BY <3>1 DEF OnFlash
    <3> QED
      BY <2>1, <2>3, <3>1, <3>2, <3>3, <3>4 DEF Paid, Debt
  <2>12. CASE UNCHANGED counterVars
    BY <2>1, <2>12 DEF counterVars, Paid, OnFlash, Debt
  <2> QED
    BY <2>5, <2>6, <2>7, <2>8, <2>9, <2>10, <2>11, <2>12 DEF CounterNext
<1>3. CrashInv => CrashCostsOneBurst
  <2> SUFFICES ASSUME CrashInv, Untouched
               PROVE  ignored <= crashes
    BY DEF CrashCostsOneBurst, Untouched
  <2>1. ignored \in Nat /\ crashes \in Nat /\ Debt \in {0, 1}
    BY DEF CrashInv, CounterTypeOK, Debt
  <2> QED
    BY <2>1 DEF CrashInv, Paid
<1> QED
  BY <1>1, <1>2, <1>3, PTL DEF CounterSpec

(* The price of refused writes.                                            *)

\* A counter that has wrapped any number of times.
Unwrapped(x, n) == n \in Counter /\ \E turns \in Int : x = n + turns * W

\* A multiple of the width is nothing or a whole turn.
LEMMA WholeTurns ==
  ASSUME NEW turns \in Int, turns # 0
  PROVE  turns * W >= W \/ turns * W <= 0 - W
<1>1. W \in Nat /\ W > 3
  BY Widths
<1>2. CASE turns >= 1
  <2>1. (turns - 1) * W >= 0
    BY <1>1, <1>2
  <2> QED BY <1>1, <2>1
<1>3. CASE turns <= 0 - 1
  <2>1. (0 - turns - 1) * W >= 0
    BY <1>1, <1>3
  <2> QED BY <1>1, <2>1
<1> QED BY <1>2, <1>3

\* The next counter, wrapped or not.
LEMMA UnwrappedSucc ==
  ASSUME NEW x \in Int, NEW n, Unwrapped(x, n)
  PROVE  Unwrapped(x + 1, Succ(n))
<1>1. PICK turns \in Int : x = n + turns * W
  BY DEF Unwrapped
<1>2. n \in Counter /\ Succ(n) \in Counter
  BY Successors DEF Unwrapped
<1>3. CASE n = W - 1
  <2>1. (turns + 1) * W = turns * W + W /\ turns + 1 \in Int
    BY Widths
  <2>2. x + 1 = Succ(n) + (turns + 1) * W
    BY <1>1, <1>3, <2>1, Widths DEF Succ
  <2> QED BY <1>2, <2>1, <2>2 DEF Unwrapped
<1>4. CASE n # W - 1
  <2>1. x + 1 = Succ(n) + turns * W
    BY <1>1, <1>2, <1>4, Widths DEF Succ, Counter
  <2> QED BY <1>2, <2>1 DEF Unwrapped
<1> QED BY <1>3, <1>4

\* What wraps to a counter wraps to no other.
LEMMA UnwrappedOnce ==
  ASSUME NEW x \in Int, NEW n, NEW m, Unwrapped(x, n), Unwrapped(x, m)
  PROVE  n = m
<1>1. PICK p \in Int : x = n + p * W
  BY DEF Unwrapped
<1>2. PICK q \in Int : x = m + q * W
  BY DEF Unwrapped
<1>3. n \in 0 .. W - 1 /\ m \in 0 .. W - 1 /\ W \in Nat
  BY Widths DEF Unwrapped, Counter
<1>4. (p - q) * W = m - n
  BY <1>1, <1>2, <1>3
<1>5. p - q = 0
  <2> SUFFICES ASSUME p - q # 0
               PROVE  FALSE
    OBVIOUS
  <2>1. (p - q) * W >= W \/ (p - q) * W <= 0 - W
    BY WholeTurns
  <2> QED BY <1>3, <1>4, <2>1
<1> QED BY <1>1, <1>2, <1>3, <1>5

\* What a crash and a refused write are allowed to cost.
LEMMA Budget ==
  ASSUME NEW c \in Nat, NEW b \in Nat
  PROVE  /\ c * (1 + b) \in Nat
         /\ (c + 1) * (1 + b) = c * (1 + b) + 1 + b
         /\ c * (1 + (b + 1)) >= c * (1 + b)
  OBVIOUS

\* How far things have drifted apart, in counters that do not wrap: of the flash, of
\* the next burst and of the receivers.  Neither RAM nor the receivers are further
\* ahead of the flash than writes were refused, the receivers are at most two counters
\* behind, and what they have yet to ignore before they hear again is paid for.
Behind(ram, air) == IF pc = "update" THEN air - ram ELSE air + 1 - ram
Allowed == crashes * (1 + badWrites)
Drift(nvs, ram, air) ==
  /\ Unwrapped(nvs, OnFlash) /\ Unwrapped(air, accepted)
  /\ pc # "begin" => devCountValid /\ Unwrapped(ram, devCount)
  /\ pc = "begin" => ~devCountValid /\ ram = nvs
  /\ pc = "radioTx" => hop = devCount
  /\ nvs <= ram /\ ram <= nvs + badWrites
  /\ nvs <= air + 2 /\ ram <= air + 2 /\ (OnFlash = 0 => nvs <= air + 1)
  /\ air <= nvs + badWrites
  /\ pc = "update" => ram <= air
  /\ ignored <= Allowed /\ ignored + Behind(ram, air) <= Allowed

\* It holds until a read fails or somebody sets the counter.
DriftInv == CounterTypeOK /\ (badReads = 0 /\ ~byHand => \E nvs, ram, air \in Int : Drift(nvs, ram, air))

\* A refused write allows more, and never less.
LEMMA AllowedGrows ==
  ASSUME badWrites \in Nat, crashes \in Nat, badWrites' \in {badWrites, badWrites + 1}, crashes' = crashes
  PROVE  Allowed \in Nat /\ Allowed' \in Nat /\ Allowed <= Allowed'
<1>1. PICK old \in Nat : old = crashes * (1 + badWrites)
  BY Budget
<1>2. PICK new \in Nat : new = crashes * (1 + (badWrites + 1))
  BY Budget
<1>3. new >= old
  BY <1>1, <1>2, Budget
<1>4. Allowed = old /\ Allowed' \in {old, new}
  BY <1>1, <1>2 DEF Allowed
<1> QED BY <1>3, <1>4

\* A counter read from a valid cache changes nothing.
LEMMA CachedFetch ==
  ASSUME CounterTypeOK, devCountValid, NEW writes \in BOOLEAN, Becomes(Fetched(Current, TRUE, writes))
  PROVE  UNCHANGED <<devCount, devCountValid, flash>> /\ Fetched(Current, TRUE, writes).value = devCount
  BY DEF CounterTypeOK, Becomes, Fetched, Current

\* The same state with another count of refused writes.
LEMMA DriftStays ==
  ASSUME CounterTypeOK, badWrites' \in {badWrites, badWrites + 1},
         UNCHANGED <<devCount, devCountValid, flash, eeprom, accepted, ignored, crashes>>,
         pc # "begin", pc # "update", pc' # "begin", pc' # "update", pc' = "radioTx" => hop' = devCount,
         NEW nvs \in Int, NEW ram \in Int, NEW air \in Int, Drift(nvs, ram, air)
  PROVE  Drift(nvs, ram, air)'
<1>1. badWrites \in Nat /\ badWrites' \in Nat /\ badWrites <= badWrites' /\ ignored \in Nat /\ crashes \in Nat
  BY DEF CounterTypeOK
<1>2. Allowed \in Nat /\ Allowed' \in Nat /\ Allowed <= Allowed'
  BY <1>1, AllowedGrows
<1>3. OnFlash' = OnFlash
  BY DEF OnFlash
<1>4. Behind(ram, air)' = Behind(ram, air) /\ Behind(ram, air) = air + 1 - ram
  BY DEF Behind
<1> HIDE DEF Allowed
<1>5. Unwrapped(nvs, OnFlash') /\ Unwrapped(air, accepted') /\ Unwrapped(ram, devCount') /\ devCountValid'
  BY <1>3 DEF Drift
<1>6. ignored' <= Allowed' /\ ignored' + Behind(ram, air)' <= Allowed'
  BY <1>1, <1>2, <1>4 DEF Drift
<1>7. ram <= nvs + badWrites' /\ air <= nvs + badWrites'
  <2>1. ram <= nvs + badWrites /\ air <= nvs + badWrites
    BY DEF Drift
  <2>2. \A old, new, x \in Int : x <= nvs + old /\ old <= new => x <= nvs + new
    OBVIOUS
  <2>3. badWrites \in Int /\ badWrites' \in Int /\ badWrites <= badWrites'
    BY <1>1
  <2> QED BY <2>1, <2>2, <2>3, Zenon
<1> QED
  BY <1>3, <1>5, <1>6, <1>7 DEF Drift

\* begin() finds the stored counter, or 1 for a stored 0.
LEMMA BeginDrift ==
  ASSUME CounterTypeOK, CounterTypeOK', Begin, badReads' = 0,
         NEW nvs \in Int, NEW ram \in Int, NEW air \in Int, Drift(nvs, ram, air)
  PROVE  \E nvs2, ram2 \in Int : Drift(nvs2, ram2, air)'
<1>1. PICK reads, writes \in BOOLEAN : Access(reads, writes) /\ Becomes(Fetched(Current, reads, writes))
  BY DEF Begin
<1>2. reads = TRUE
  BY <1>1, AccessTyping DEF CounterTypeOK
<1>3. /\ pc = "begin" /\ pc' = "idle" /\ UNCHANGED <<eeprom, accepted, ignored, crashes>>
      /\ ~devCountValid /\ ram = nvs
  BY DEF Begin, Drift
<1>4. /\ badWrites' = IF writes THEN badWrites ELSE badWrites + 1
      /\ badWrites \in Nat /\ badWrites' \in Nat /\ ignored \in Nat /\ crashes \in Nat
  BY <1>1 DEF Access, CounterTypeOK
<1>5. Allowed \in Nat /\ Allowed' \in Nat /\ Allowed <= Allowed'
  BY <1>3, <1>4, AllowedGrows
<1>6. /\ devCountValid' /\ devCount' = IF OnFlash = 0 THEN 1 ELSE OnFlash
      /\ OnFlash' = IF OnFlash = 0 /\ writes THEN 1 ELSE OnFlash
  BY <1>1, <1>2, <1>3, Widths DEF Becomes, Fetched, Stored, Current, OnFlash, CounterTypeOK, Counter, Missing
<1>7. Unwrapped(nvs, OnFlash) /\ Unwrapped(air, accepted')
  BY <1>3 DEF Drift
<1>8. OnFlash = 0 => Succ(OnFlash) = 1
  BY Widths DEF Succ
<1>9. OnFlash = 0 => Unwrapped(nvs + 1, 1)
  BY <1>7, <1>8, UnwrappedSucc
<1>a. PICK nvs2 \in Int : nvs2 = IF OnFlash = 0 /\ writes THEN nvs + 1 ELSE nvs
  OBVIOUS
<1>b. PICK ram2 \in Int : ram2 = IF OnFlash = 0 THEN nvs + 1 ELSE nvs
  OBVIOUS
<1>10. Unwrapped(nvs2, OnFlash') /\ Unwrapped(ram2, devCount')
  BY <1>6, <1>7, <1>9, <1>a, <1>b
<1>11. Behind(ram2, air)' = air + 1 - ram2 /\ Behind(ram, air) = air + 1 - nvs
  BY <1>3 DEF Behind
<1> HIDE DEF Allowed
<1>12. /\ nvs2 \in Int /\ ram2 \in Int /\ nvs <= ram2 /\ nvs2 <= ram2 /\ ram2 <= nvs2 + badWrites'
       /\ nvs2 <= air + 2 /\ ram2 <= air + 2
       /\ air <= nvs2 + badWrites'
       /\ (OnFlash' = 0 => nvs2 <= air + 1)
  BY <1>3, <1>4, <1>6, <1>a, <1>b DEF Drift
<1>13. ignored' <= Allowed' /\ ignored' + Behind(ram2, air)' <= Allowed'
  BY <1>3, <1>4, <1>5, <1>11, <1>12 DEF Drift
<1>14. Drift(nvs2, ram2, air)'
  BY <1>3, <1>6, <1>7, <1>10, <1>12, <1>13 DEF Drift
<1> QED BY <1>12, <1>14

\* The receivers hear a burst, or are to ignore one less.
LEMMA RadioTxDrift ==
  ASSUME CounterTypeOK, CounterTypeOK', RadioTx,
         NEW nvs \in Int, NEW ram \in Int, NEW air \in Int, Drift(nvs, ram, air)
  PROVE  \E air2 \in Int : Drift(nvs, ram, air2)'
<1>1. /\ pc = "radioTx" /\ pc' = "update" /\ hop = devCount /\ devCountValid
      /\ UNCHANGED <<devCount, devCountValid, flash, eeprom, crashes, badWrites>>
      /\ IF Accepts(hop) THEN accepted' = hop /\ ignored' = ignored
                         ELSE ignored' = ignored + 1 /\ accepted' = accepted
  BY DEF RadioTx, faultVars, Drift
<1>2. badWrites \in Nat /\ ignored \in Nat /\ crashes \in Nat /\ accepted \in Counter
  BY DEF CounterTypeOK
<1>3. Allowed \in Nat /\ Allowed' = Allowed /\ OnFlash' = OnFlash
  BY <1>1, <1>2, Budget DEF Allowed, OnFlash
<1>4. Unwrapped(nvs, OnFlash') /\ Unwrapped(ram, devCount')
  BY <1>1, <1>3 DEF Drift
<1> HIDE DEF Allowed
<1>5. CASE Accepts(hop)
  <2>1. Unwrapped(ram, accepted')
    BY <1>1, <1>4, <1>5
  <2>2. Behind(ram, ram)' = 0
    BY <1>1 DEF Behind
  <2>3. ignored' <= Allowed' /\ ignored' + Behind(ram, ram)' <= Allowed'
    BY <1>1, <1>2, <1>3, <1>5, <2>2 DEF Drift
  <2>4. /\ nvs <= ram /\ ram <= nvs + badWrites' /\ nvs <= ram + 2 /\ ram <= ram + 2
        /\ nvs <= ram + 1 /\ ram <= ram
    BY <1>1, <1>2 DEF Drift
  <2>5. Drift(nvs, ram, ram)'
    BY <1>1, <1>4, <2>1, <2>3, <2>4 DEF Drift
  <2> QED BY <2>5
<1>6. CASE ~Accepts(hop)
  <2>1. ram <= air
    <3> SUFFICES ASSUME ram > air
                 PROVE  FALSE
      BY DEF Drift
    <3>1. ram = air + 1 \/ ram = (air + 1) + 1
      BY DEF Drift
    <3>2. /\ Unwrapped(air, accepted) /\ Unwrapped(air + 1, Succ(accepted))
          /\ Unwrapped((air + 1) + 1, Succ(Succ(accepted)))
      BY UnwrappedSucc DEF Drift
    <3>3. Unwrapped(ram, hop)
      BY <1>1, <1>4
    <3>4. hop = Succ(accepted) \/ hop = Succ(Succ(accepted))
      BY <3>1, <3>2, <3>3, UnwrappedOnce
    <3>5. Accepts(hop)
      BY <1>2, <3>4, Successors, Widths DEF Accepts
    <3> QED BY <1>6, <3>5
  <2>2. Behind(ram, air)' = air - ram /\ Behind(ram, air) = air + 1 - ram
    BY <1>1 DEF Behind
  <2>3. ignored' <= Allowed' /\ ignored' + Behind(ram, air)' <= Allowed'
    BY <1>1, <1>2, <1>3, <1>6, <2>1, <2>2 DEF Drift
  <2>4. Drift(nvs, ram, air)'
    BY <1>1, <1>3, <1>4, <1>6, <2>1, <2>3 DEF Drift
  <2> QED BY <2>4
<1> QED BY <1>5, <1>6

\* The counter is stored, or the flash lags by one more.
LEMMA UpdateDrift ==
  ASSUME CounterTypeOK, CounterTypeOK', Update, badReads' = 0,
         NEW nvs \in Int, NEW ram \in Int, NEW air \in Int, Drift(nvs, ram, air)
  PROVE  \E nvs2, ram2 \in Int : Drift(nvs2, ram2, air)'
<1>1. PICK reads, writes \in BOOLEAN : Access(reads, writes) /\ Becomes(Advanced(Current, reads, writes))
  BY DEF Update
<1>2. reads = TRUE
  BY <1>1, AccessTyping DEF CounterTypeOK
<1>3. /\ pc = "update" /\ pc' \in {"idle", "encrypt"} /\ UNCHANGED <<eeprom, accepted, ignored, crashes>>
      /\ devCountValid /\ Unwrapped(ram, devCount) /\ ram <= air
  BY DEF Update, Drift
<1>4. /\ badWrites' = IF writes THEN badWrites ELSE badWrites + 1
      /\ badWrites \in Nat /\ badWrites' \in Nat /\ ignored \in Nat /\ crashes \in Nat
  BY <1>1 DEF Access, CounterTypeOK
<1>5. Allowed \in Nat /\ Allowed' \in Nat /\ Allowed <= Allowed'
  BY <1>3, <1>4, AllowedGrows
<1>6. /\ devCountValid' /\ devCount' = Succ(devCount)
      /\ flash' = IF writes THEN Succ(devCount) ELSE flash
  BY <1>1, <1>2, <1>3 DEF Becomes, Advanced, Fetched, Stored, Current, CounterTypeOK
<1>7. Succ(devCount) \in Counter /\ Missing \notin Counter
  BY Successors DEF CounterTypeOK, Missing, Counter
<1>8. OnFlash' = IF writes THEN Succ(devCount) ELSE OnFlash
  BY <1>3, <1>6, <1>7 DEF OnFlash
<1>9. PICK nvs2 \in Int : nvs2 = IF writes THEN ram + 1 ELSE nvs
  OBVIOUS
<1>10. PICK ram2 \in Int : ram2 = ram + 1
  OBVIOUS
<1>11. Unwrapped(ram2, devCount') /\ Unwrapped(air, accepted')
  BY <1>3, <1>6, <1>10, UnwrappedSucc DEF Drift
<1>12. Unwrapped(nvs2, OnFlash')
  BY <1>6, <1>8, <1>9, <1>10, <1>11 DEF Drift
<1>13. Behind(ram2, air)' = air + 1 - ram2 /\ Behind(ram, air) = air - ram
  BY <1>3 DEF Behind
<1> HIDE DEF Allowed
<1>14. /\ nvs2 <= ram2 /\ ram2 <= nvs2 + badWrites' /\ nvs2 <= air + 1 /\ ram2 <= air + 2
       /\ air <= nvs2 + badWrites' /\ nvs2 <= air + 2
  <2>1. nvs <= ram /\ ram <= nvs + badWrites /\ air <= nvs + badWrites
    BY DEF Drift
  <2> QED BY <1>3, <1>4, <1>9, <1>10, <2>1
<1>15. ignored' <= Allowed' /\ ignored' + Behind(ram2, air)' <= Allowed'
  BY <1>3, <1>4, <1>5, <1>10, <1>13 DEF Drift
<1>16. Drift(nvs2, ram2, air)'
  BY <1>3, <1>6, <1>11, <1>12, <1>14, <1>15 DEF Drift
<1> QED BY <1>16

\* A restart begins again with what is in the flash.
LEMMA CrashDrift ==
  ASSUME CounterTypeOK, Crash, NEW nvs \in Int, NEW ram \in Int, NEW air \in Int, Drift(nvs, ram, air)
  PROVE  Drift(nvs, nvs, air)'
<1>1. /\ pc' = "begin" /\ ~devCountValid' /\ crashes' = crashes + 1
      /\ UNCHANGED <<flash, eeprom, accepted, ignored, badWrites>>
  BY DEF Crash, faultVars
<1>2. badWrites \in Nat /\ ignored \in Nat /\ crashes \in Nat
  BY DEF CounterTypeOK
<1>3. OnFlash' = OnFlash
  BY <1>1 DEF OnFlash
<1>4. PICK spent \in Nat : spent = crashes * (1 + badWrites)
  BY <1>2, Budget
<1>5. (crashes + 1) * (1 + badWrites) = spent + 1 + badWrites
  BY <1>2, <1>4, Budget
<1>6. Allowed = spent /\ Allowed' = spent + 1 + badWrites
  BY <1>1, <1>4, <1>5 DEF Allowed
<1> HIDE DEF Allowed
<1>7. Behind(nvs, air)' = air + 1 - nvs
  BY <1>1 DEF Behind
<1>8. ignored' <= Allowed' /\ ignored' + Behind(nvs, air)' <= Allowed'
  <2>1. ignored <= spent /\ air <= nvs + badWrites
    BY <1>6 DEF Drift
  <2> QED BY <1>1, <1>2, <1>6, <1>7, <2>1
<1>9. nvs <= nvs /\ nvs <= nvs + badWrites'
  BY <1>1, <1>2
<1> QED
  BY <1>1, <1>3, <1>8, <1>9 DEF Drift

\* A refused write lets the flash lag by one more, and the lag does not add up once a
\* write succeeds: over every behaviour, of any length, the receivers ignore at most one
\* burst more at each crash than writes were refused, for every counter width, window
\* and set of commands, while reads succeed and nobody sets the counter.
THEOREM RefusedWrites == CounterSpec => []RefusedWritesAddUp
<1>1. CounterInit => DriftInv
  <2> SUFFICES ASSUME CounterInit
               PROVE  DriftInv
    OBVIOUS
  <2>1. CounterTypeOK
    BY InitTyped
  <2>2. accepted \in Counter /\ OnFlash = Succ(accepted) /\ W \in Nat
    BY Widths DEF CounterInit, OnFlash
  <2>3. accepted \in Int /\ accepted = accepted + 0 * W /\ 0 \in Int
    BY <2>2 DEF Counter
  <2>4. Unwrapped(accepted, accepted) /\ Unwrapped(accepted + 1, OnFlash)
    BY <2>2, <2>3, UnwrappedSucc DEF Unwrapped
  <2>5. Allowed = 0 /\ Behind(accepted + 1, accepted) = 0
    BY <2>3 DEF Allowed, Behind, CounterInit
  <2> HIDE DEF Allowed, Behind
  <2>6. Drift(accepted + 1, accepted + 1, accepted)
    BY <2>3, <2>4, <2>5 DEF Drift, CounterInit
  <2>7. accepted + 1 \in Int
    BY <2>3
  <2> QED BY <2>1, <2>3, <2>6, <2>7 DEF DriftInv
<1>2. DriftInv /\ [CounterNext]_counterVars => DriftInv'
  <2> SUFFICES ASSUME DriftInv, [CounterNext]_counterVars, badReads' = 0, ~byHand'
               PROVE  \E nvs, ram, air \in Int : Drift(nvs, ram, air)'
    BY StepTyped DEF DriftInv
  <2>1. CounterTypeOK /\ CounterTypeOK'
    BY StepTyped DEF DriftInv
  <2>2. badReads \in Nat /\ badWrites \in Nat
    BY <2>1 DEF CounterTypeOK
  <2>3. badReads = 0 /\ ~byHand
    <3>1. ASSUME NEW reads \in BOOLEAN, NEW writes \in BOOLEAN, Access(reads, writes)
          PROVE  badReads = 0
      BY <2>2, <3>1, AccessTyping
    <3>2. badReads = 0
      BY <3>1, Zenon DEF CounterNext, Begin, Command, Encrypt, RadioTx, Update, SetByHand, Crash,
                    counterVars, faultVars
    <3>3. ~byHand
      BY Zenon DEF CounterNext, Begin, Command, Encrypt, RadioTx, Update, SetByHand, Crash, counterVars
    <3> QED BY <3>2, <3>3
  <2>4. PICK nvs, ram, air \in Int : Drift(nvs, ram, air)
    BY <2>3 DEF DriftInv
  <2>5. ASSUME NEW reads \in BOOLEAN, NEW writes \in BOOLEAN, Access(reads, writes)
        PROVE  reads = TRUE /\ badWrites' \in {badWrites, badWrites + 1}
    BY <2>2, <2>5, AccessTyping DEF Access
  <2>6. CASE Begin
    BY <2>1, <2>4, <2>6, BeginDrift
  <2>7. CASE Command
    <3>1. pc # "begin" /\ pc # "update" /\ pc' # "begin" /\ pc' # "update" /\ pc' # "radioTx" /\ devCountValid
      BY <2>4, <2>7 DEF Command, Drift
    <3>2. UNCHANGED <<devCount, devCountValid, flash>> /\ badWrites' \in {badWrites, badWrites + 1}
      <4>1. CASE UNCHANGED <<devCount, devCountValid, flash, faultVars>>
        BY <4>1 DEF faultVars
      <4>2. CASE \E reads, writes \in BOOLEAN :
                   Access(reads, writes) /\ Becomes(Fetched(Current, reads, writes))
        BY <2>1, <2>5, <3>1, <4>2, CachedFetch
      <4> QED BY <2>7, <4>1, <4>2 DEF Command
    <3>3. UNCHANGED <<eeprom, accepted, ignored, crashes>>
      BY <2>7 DEF Command
    <3> QED BY <2>1, <2>4, <3>1, <3>2, <3>3, DriftStays
  <2>8. CASE Encrypt
    <3>1. pc # "begin" /\ pc # "update" /\ pc' # "begin" /\ pc' # "update" /\ devCountValid
      BY <2>4, <2>8 DEF Encrypt, Drift
    <3>2. PICK reads, writes \in BOOLEAN :
            /\ Access(reads, writes) /\ Becomes(Fetched(Current, reads, writes))
            /\ hop' = Fetched(Current, reads, writes).value
      BY <2>8 DEF Encrypt
    <3>3. /\ UNCHANGED <<devCount, devCountValid, flash>> /\ hop' = devCount
          /\ badWrites' \in {badWrites, badWrites + 1}
      BY <2>1, <2>5, <3>1, <3>2, CachedFetch
    <3>4. UNCHANGED <<eeprom, accepted, ignored, crashes>>
      BY <2>8 DEF Encrypt
    <3> QED BY <2>1, <2>4, <3>1, <3>3, <3>4, DriftStays
  <2>9. CASE RadioTx
    BY <2>1, <2>4, <2>9, RadioTxDrift
  <2>10. CASE Update
    BY <2>1, <2>4, <2>10, UpdateDrift
  <2>11. CASE SetByHand
    BY <2>11 DEF SetByHand
  <2>12. CASE Crash
    BY <2>1, <2>4, <2>12, CrashDrift
  <2>13. CASE UNCHANGED counterVars
    <3>1. Drift(nvs, ram, air)'
      BY <2>4, <2>13 DEF counterVars, faultVars, Drift, OnFlash, Behind, Allowed
    <3> QED BY <3>1
  <2> QED
    BY <2>6, <2>7, <2>8, <2>9, <2>10, <2>11, <2>12, <2>13 DEF CounterNext
<1>3. DriftInv => RefusedWritesAddUp
  BY DEF DriftInv, Drift, RefusedWritesAddUp, Allowed
<1> QED
  BY <1>1, <1>2, <1>3, PTL DEF CounterSpec
=============================================================================

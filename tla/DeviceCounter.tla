---------------------------- MODULE DeviceCounter ----------------------------
(***************************************************************************)
(* The KeeLoq rolling counter of the controller                            *)
(* (src/lib/JaroliftController/JaroliftController.cpp): its copy in RAM,   *)
(* its master copy in flash (NVS, once migrated from the EEPROM) and, on   *)
(* the other side of the air, the highest counter the paired receivers     *)
(* have accepted.  A receiver accepts a telegram only when its counter     *)
(* lies ahead of that, so the flash must never fall behind.                *)
(*                                                                         *)
(* Every command is a series of bursts, and every burst encrypts the       *)
(* counter, transmits and then stores the next counter.  The controller    *)
(* may lose power between any two of these steps, and NVS may refuse to    *)
(* read or to write.  An operator marked "Slip" is a plausible bug in the  *)
(* definition below it; no specification uses it.                          *)
(***************************************************************************)
EXTENDS Integers

CONSTANTS
  W,             \* the counter is a uint16_t: 65536 in the code
  Window,        \* how far ahead a receiver accepts a counter
  Bursts,        \* the burst counts of the commands: 1, 2, 4, 6 and 8
  SetTo,         \* counters an operator may set by hand
  MaxCommands,   \* bound: commands and manual changes in one behaviour
  MaxCrashes,    \* bound: crashes in one behaviour
  MaxFaults      \* bound: NVS faults in one behaviour

ASSUME CounterAssumption == W \in Nat /\ W > 3
ASSUME WindowAssumption  == Window \in 2 .. W - 1
ASSUME BurstsAssumption  == Bursts \subseteq Nat \ {0}
ASSUME SetAssumption     == SetTo \subseteq 0 .. W - 1

Counter == 0 .. W - 1
Missing == -1                        \* ESP_ERR_NVS_NOT_FOUND

VARIABLES
  devCount,      \* devCount_
  devCountValid, \* devCountValid_
  flash,         \* "devcnt" in NVS
  eeprom,        \* the counter firmware 1.x kept in the EEPROM
  pc,            \* what comes next
  left,          \* bursts of the running command that are still to come
  hop,           \* the counter in encrypted_
  accepted,      \* highest counter the receivers accepted
  ignored,       \* bursts the receivers ignored
  crashes,       \* so far
  badReads, badWrites,             \* NVS accesses that failed so far
  byHand,        \* the counter has been changed by hand
  commands       \* so far, only to bound the model

faultVars == <<badReads, badWrites>>
counterVars == <<devCount, devCountValid, flash, eeprom, pc, left, hop, accepted,
                 ignored, crashes, faultVars, byHand, commands>>

CounterTypeOK ==
  /\ devCount \in Counter /\ devCountValid \in BOOLEAN
  /\ flash \in Counter \cup {Missing} /\ eeprom \in Counter
  /\ pc \in {"begin", "idle", "encrypt", "radioTx", "update"}
  /\ left \in Nat /\ (pc \in {"encrypt", "radioTx", "update"} => left > 0)
  /\ hop \in Counter /\ accepted \in Counter
  /\ ignored \in Nat /\ crashes \in Nat /\ commands \in Nat
  /\ badReads \in Nat /\ badWrites \in Nat /\ byHand \in BOOLEAN

\* uint16_t arithmetic.
Succ(n) == IF n = W - 1 THEN 0 ELSE n + 1
Gap(from, to) == IF to >= from THEN to - from ELSE to - from + W

\* A receiver's test, by the KeeLoq application notes the code refers to.
Accepts(n) == Gap(accepted, n) \in 1 .. Window

\* A controller whose receivers have heard everything it sent before; a new one
\* counts from 0, and an old one still has its counter in the EEPROM.
CounterInit ==
  /\ devCount = 0 /\ devCountValid = FALSE
  /\ eeprom \in Counter
  /\ flash \in {eeprom, Missing}
  /\ pc = "begin" /\ left = 0 /\ hop = 0
  /\ accepted \in Counter /\ Succ(accepted) = eeprom
  /\ ignored = 0 /\ crashes = 0 /\ commands = 0
  /\ badReads = 0 /\ badWrites = 0 /\ byHand = FALSE

-----------------------------------------------------------------------------
(* Access to the counter.  A state of the counter is a record of the two   *)
(* members and the flash, and what the caller is given.                    *)

Memory == [value : Counter, ram : Counter, valid : BOOLEAN, nvs : Counter \cup {Missing}]

\* setDeviceCounter: RAM first, then set and commit.
Stored(m, n, writes) ==
  [m EXCEPT !.value = n, !.ram = n, !.valid = TRUE, !.nvs = IF writes THEN n ELSE m.nvs]

Current == [value |-> devCount, ram |-> devCount, valid |-> devCountValid, nvs |-> flash]

\* Slip: the cache is taken for granted after a failed read, too.
FetchedCaching(m, reads, writes) ==
  IF m.valid THEN [m EXCEPT !.value = m.ram]
  ELSE IF ~reads THEN [m EXCEPT !.value = 0, !.ram = 0, !.valid = TRUE]
  ELSE IF m.nvs # Missing /\ m.nvs # 0
  THEN [m EXCEPT !.value = m.nvs, !.ram = m.nvs, !.valid = TRUE]
  ELSE IF m.nvs = Missing /\ eeprom # 0 THEN Stored(m, eeprom, writes)
  ELSE Stored(m, 1, writes)

\* getDeviceCounter.  A failed read yields 0 and is not cached, but every caller
\* assigns the result to devCount_.
Fetched(m, reads, writes) ==
  IF m.valid THEN [m EXCEPT !.value = m.ram]
  ELSE IF ~reads THEN [m EXCEPT !.value = 0, !.ram = 0]
  ELSE IF m.nvs # Missing /\ m.nvs # 0
  THEN [m EXCEPT !.value = m.nvs, !.ram = m.nvs, !.valid = TRUE]
  ELSE IF m.nvs = Missing /\ eeprom # 0 THEN Stored(m, eeprom, writes)
  ELSE Stored(m, 1, writes)

\* Slip: the counter is incremented in RAM, but not stored.
AdvancedInRam(m, reads, writes) ==
  LET f == Fetched(m, reads, writes) IN [f EXCEPT !.ram = Succ(f.value)]

\* updateDeviceCounter(true).
Advanced(m, reads, writes) ==
  LET f == Fetched(m, reads, writes) IN Stored(f, Succ(f.value), writes)

Becomes(m) == devCount' = m.ram /\ devCountValid' = m.valid /\ flash' = m.nvs

\* One access to NVS, with or without a fault.
Access(reads, writes) ==
  /\ ~(reads /\ writes) => badReads + badWrites < MaxFaults
  /\ badReads' = IF reads THEN badReads ELSE badReads + 1
  /\ badWrites' = IF writes THEN badWrites ELSE badWrites + 1

-----------------------------------------------------------------------------
\* begin() reads the counter before the radio is set up.
Begin ==
  /\ pc = "begin" /\ pc' = "idle"
  /\ \E reads, writes \in BOOLEAN :
       Access(reads, writes) /\ Becomes(Fetched(Current, reads, writes))
  /\ UNCHANGED <<eeprom, left, hop, accepted, ignored, crashes, byHand, commands>>

\* A command is taken up: most read the counter once for the log.
Command ==
  /\ pc = "idle" /\ pc' = "encrypt"
  /\ commands < MaxCommands /\ commands' = commands + 1
  /\ left' \in Bursts
  /\ \/ \E reads, writes \in BOOLEAN :
          Access(reads, writes) /\ Becomes(Fetched(Current, reads, writes))
     \/ UNCHANGED <<devCount, devCountValid, flash, faultVars>>
  /\ UNCHANGED <<eeprom, hop, accepted, ignored, crashes, byHand>>

\* generateEncrypted.
Encrypt ==
  /\ pc = "encrypt" /\ pc' = "radioTx"
  /\ \E reads, writes \in BOOLEAN : LET f == Fetched(Current, reads, writes) IN
       Access(reads, writes) /\ Becomes(f) /\ hop' = f.value
  /\ UNCHANGED <<eeprom, left, accepted, ignored, crashes, byHand, commands>>

\* radioTx: two to twenty frames with one counter; the receivers act on it once.
RadioTx ==
  /\ pc = "radioTx" /\ pc' = "update"
  /\ IF Accepts(hop) THEN accepted' = hop /\ UNCHANGED ignored
                     ELSE ignored' = ignored + 1 /\ UNCHANGED accepted
  /\ UNCHANGED <<devCount, devCountValid, flash, eeprom, left, hop, crashes, faultVars, byHand, commands>>

\* updateDeviceCounter; service commands go on with the next burst.
Update ==
  /\ pc = "update"
  /\ pc' = IF left = 1 THEN "idle" ELSE "encrypt"
  /\ left' = left - 1
  /\ \E reads, writes \in BOOLEAN :
       Access(reads, writes) /\ Becomes(Advanced(Current, reads, writes))
  /\ UNCHANGED <<eeprom, hop, accepted, ignored, crashes, byHand, commands>>

\* jaroCmdSetDevCnt from the webUI or telnet, between two commands.
SetByHand ==
  /\ pc = "idle"
  /\ commands < MaxCommands /\ commands' = commands + 1
  /\ byHand' = TRUE
  /\ \E n \in SetTo, writes \in BOOLEAN :
       Access(TRUE, writes) /\ Becomes(Stored(Current, n, writes))
  /\ UNCHANGED <<eeprom, pc, left, hop, accepted, ignored, crashes>>

\* A restart, a watchdog reset or a power failure at any point.
Crash ==
  /\ crashes < MaxCrashes /\ crashes' = crashes + 1
  /\ pc # "begin" /\ pc' = "begin"
  /\ devCount' = 0 /\ devCountValid' = FALSE
  /\ left' = 0 /\ hop' = 0
  /\ UNCHANGED <<flash, eeprom, accepted, ignored, faultVars, byHand, commands>>

CounterNext == Begin \/ Command \/ Encrypt \/ RadioTx \/ Update \/ SetByHand \/ Crash

CounterSpec == CounterInit /\ [][CounterNext]_counterVars

-----------------------------------------------------------------------------
(* What may be relied upon.                                                *)

\* A crash at any point, also between the two halves of a service command and
\* at the wrap of the counter, costs at most one burst that the receivers
\* ignore: the stored counter never lags by more than the burst under way
\* (lines 157-161, 182-184, 200-204 and the order in every command).
CrashCostsOneBurst ==
  badReads = 0 /\ badWrites = 0 /\ ~byHand => ignored <= crashes

\* The same with an NVS that refuses some writes: a refused write lets the
\* flash lag by one more, and the lag does not add up once a write succeeds.
RefusedWritesAddUp ==
  badReads = 0 /\ ~byHand => ignored <= crashes * (1 + badWrites)

\* Unless a write was refused, the cached counter is the stored one: no order of
\* reads, failed reads, migration, transmissions and manual changes leaves RAM
\* ahead of the flash for the next power failure to reveal (lines 161, 180-184,
\* 195-200, 225-228).
CacheIsStored == badWrites = 0 /\ devCountValid => flash = devCount
=============================================================================

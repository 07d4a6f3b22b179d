------------------------------- MODULE MCRadio -------------------------------
(* The controller's end of the radio, checked in one run.                     *)
(*   capture: frames heard, of two to five pulses in a buffer of seven;       *)
(*   press:   the presses of two remotes made of them, with one or another    *)
(*            channel mask, where a tick is half a second and the gaps keep   *)
(*            their order: a run of STOPs lasts longer than a repeat;         *)
(*   counter: what is sent, with a counter that wraps at 6, commands of one   *)
(*            burst and of three, receivers that accept half a turn ahead.    *)
(* They share no variable: a behaviour follows one of them from any of its    *)
(* initial states, the others rest in a state of their own.                   *)
EXTENDS RxCapture, RemotePress, DeviceCounter, TLC

VARIABLE part

radioVars == <<part, vars, pressVars, counterVars>>

RemoteSymmetry == Permutations(Remote)
MCBursts == {1, 3}
MCByHand == {0, 2, 5}

\* Where the counter rests.
CounterRests == CounterInit /\ eeprom = 0 /\ flash = Missing

RadioInit ==
  /\ part \in {"capture", "press", "counter"}
  /\ Init /\ PressInit
  /\ IF part = "counter" THEN CounterInit ELSE CounterRests

RadioNext ==
  \/ part = "capture" /\ Next /\ UNCHANGED <<part, pressVars, counterVars>>
  \/ part = "press" /\ PressNext /\ UNCHANGED <<part, vars, counterVars>>
  \/ part = "counter" /\ CounterNext /\ UNCHANGED <<part, vars, pressVars>>

RadioSpec == RadioInit /\ [][RadioNext]_radioVars
=============================================================================

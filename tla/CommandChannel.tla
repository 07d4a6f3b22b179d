--------------------------- MODULE CommandChannel ---------------------------
(***************************************************************************)
(* What the cross-task command queue (src/include/cmdQueue.h) promises to  *)
(* the producers in the AsyncTCP task and to loop(): a command that was    *)
(* accepted is handled exactly once, in the order of acceptance, and is    *)
(* handled eventually.  Only a restart of the controller loses it.         *)
(***************************************************************************)
EXTENDS Sequences

CONSTANT Cmd     \* the commands that can be accepted

VARIABLES
  waiting,       \* accepted, not yet handled
  handled        \* handled since the controller started

channelVars == <<waiting, handled>>

Init == waiting = <<>> /\ handled = <<>>

Accept == \E cmd \in Cmd : waiting' = Append(waiting, cmd) /\ UNCHANGED handled

Handle ==
  /\ waiting # <<>>
  /\ handled' = Append(handled, Head(waiting))
  /\ waiting' = Tail(waiting)

Restart == waiting' = <<>> /\ handled' = <<>>

Next == Accept \/ Handle \/ Restart

SafeSpec == Init /\ [][Next]_channelVars
Spec     == SafeSpec /\ WF_channelVars(Handle)
=============================================================================

---------------------------- MODULE ShutterClaims ----------------------------
(***************************************************************************)
(* What two comments of the repository say about the tracker and the code  *)
(* does not do; a run for each exhibits the behaviour.                     *)
(***************************************************************************)
EXTENDS ShutterPos

\* "An end-stop request is still worth sending even when the estimate already
\* says we are there" (shutterPos.cpp:319): the telegram of an end-stop request
\* drives towards that end-stop.
EndStopRequestGoesThere ==
  [][\A c \in Channel, pct \in Ends :
       SetTarget(c, pct) /\ jaroCmdQueue' # jaroCmdQueue
         => jaroCmdQueue'[Len(jaroCmdQueue')] = DriveCmd(pct = 0, c)]_vars

\* Every press is heard, and made only when no other press still waits.
PressHeard ==
  \A fn \in Fns, to \in SUBSET Channel : RemotePress(fn, to) => heard = <<>> /\ heard' # <<>>

RemoteSpec == Init /\ [][Next /\ PressHeard]_vars

\* "A physical remote moves the shutter just as much as this controller does, so
\* the estimate has to follow it" (jarolift.cpp:170): a frame of a remote that is
\* taken, however late, leaves the tracker with the direction its channels move in.
EstimateFollowsRemote ==
  [][RadioLoop /\ heard' # heard =>
       \A c \in Head(heard).to :
         shutter'[c].moving => motor'[c] \in {Direction(shutter'[c]), "SHADE"}]_vars
=============================================================================

---------------------------- MODULE PositionClaims ----------------------------
(***************************************************************************)
(* What a comment of the repository says about position requests and the   *)
(* code does not do; its run exhibits the behaviour.  The variable asked   *)
(* remembers the position that was requested of a channel and accepted,    *)
(* until anything else is done to the channel.                             *)
(***************************************************************************)
EXTENDS ShutterPos

VARIABLE asked

NotAsked == -1

\* The request is not refused (an unknown position is no place to start from), and
\* needs a timed stop.
Accepted(c, pct) == pct \in Between /\ shutter[c].pos # UNKNOWN

\* An end-stop is asked for only to find out where the shutter is.
Requests(c, pct) ==
  /\ pct \in Ends => jaroCmdQueue = <<>> /\ shutter[c].pos = UNKNOWN /\ ~shutter[c].moving
  /\ SetTarget(c, pct)
  /\ asked' = [asked EXCEPT ![c] = IF Accepted(c, pct) THEN pct ELSE NotAsked]

\* The loop and the clock go on.
Goes == (CyclicPass \/ SendPass \/ RadioLoop \/ Tick \/ SessionUp) /\ UNCHANGED asked

ClaimInit == Init /\ asked = [c \in Channel |-> NotAsked]
ClaimNext == Goes \/ \E c \in Channel, pct \in Position : Requests(c, pct)
ClaimSpec == ClaimInit /\ [][ClaimNext]_<<vars, asked>>

\* "Drive to an absolute position" (shutterPos.h:41): a channel that was given nothing
\* but position requests, and has come to rest with none of them waiting, takes itself
\* to be where the latest accepted one sent it.
StopsWhereAsked ==
  \A c \in Channel :
    asked[c] # NotAsked /\ jaroCmdQueue = <<>> /\ ~shutter[c].moving /\ c \notin dropped
      => shutter[c].pos = asked[c]
=============================================================================

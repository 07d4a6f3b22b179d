--------------------------- MODULE MCShutterClaims ---------------------------
(* The instance of ShutterClaims: one calibrated channel, no faults. *)
EXTENDS ShutterClaims

MCOneTravel == {<<3, 3>>}
MCNoUpload  == {}
=============================================================================

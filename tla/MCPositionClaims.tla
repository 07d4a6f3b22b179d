--------------------------- MODULE MCPositionClaims ---------------------------
(* The instance of PositionClaims: one calibrated channel, no faults. *)
EXTENDS PositionClaims

MCOneTravel == {<<3, 3>>}
MCNoUpload  == {}
=============================================================================

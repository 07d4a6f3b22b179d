--------------------------- MODULE MCShutterWorld ---------------------------
(* ShutterWorld with shutters that need as many ticks as there are positions. *)
EXTENDS ShutterWorld

MCRealTravel == {<<3, 3>>}
MCNoUpload   == {}

\* The hypothesis of theorem WithinLatency, of this instance.
ASSUME RealTravelAssumption == RealTravel
=============================================================================

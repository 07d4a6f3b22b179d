---------------------------- MODULE MCShutterPos ----------------------------
(* Small instances of ShutterPos: positions in thirds. *)
EXTENDS ShutterPos, TLC

MCTravel   == {<<3, 3>>, <<2, 0>>, <<0, 0>>}
MCOneTravel == {<<3, 3>>}
MCNoUpload == {}
MCUploads  == {<<2, 5>>, <<0, 0>>}

\* The channels are alike: nothing in the code orders them.
ChannelSymmetry == Permutations(Channel)
=============================================================================

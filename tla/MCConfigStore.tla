---------------------------- MODULE MCConfigStore ----------------------------
(* Two edits and an upload, with one failure of power or of a write between   *)
(* any two of their steps.                                                    *)
EXTENDS ConfigStore
=============================================================================

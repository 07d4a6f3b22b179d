----------------------------- MODULE MCCmdQueue -----------------------------
(* Small instances of CmdQueue: three slots, one of them kept for the webUI, *)
(* and a drain that has time for two quick commands or one slow one.        *)
EXTENDS CmdQueue

MCKeys == {"up", "restart", "mqtt", "reload", "bad"}
=============================================================================

------------------------------ MODULE TopicClaims ------------------------------
(***************************************************************************)
(* What a comment of the repository says about a new session and the code  *)
(* does not do; its run exhibits the behaviour.                            *)
(***************************************************************************)
EXTENDS MqttTopics

\* "... and resubscribe" (mqtt.cpp:110): once onMqttConnect is through, the commands
\* are subscribed to, or nobody hears them until the session ends.
Resubscribes ==
  [][Busy("tcp") /\ todo'["tcp"] = <<>> => "cmd/#" \in subscribed']_topicsVars
=============================================================================

--------------------------- MODULE MCChatWorkflow ---------------------------
(* An instance of ChatWorkflow. *)
EXTENDS ChatWorkflow
=============================================================================

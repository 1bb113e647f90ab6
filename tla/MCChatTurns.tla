----------------------------- MODULE MCChatTurns -----------------------------
(* Instances of ChatTurns. *)
EXTENDS ChatTurns
=============================================================================

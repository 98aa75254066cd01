----------------------------- MODULE MCChatTurn -----------------------------
(* Two turns in one conversation. *)
EXTENDS ChatTurn
=============================================================================

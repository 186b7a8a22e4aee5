----------------------------- MODULE MCChatSession -----------------------------
(* Instances of ChatSession for TLC; the bounds are in the configurations. *)
EXTENDS ChatSession
=============================================================================

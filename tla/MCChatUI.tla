----------------------------- MODULE MCChatUI -----------------------------
(* The overlay over a three-bubble ring with scaled walk-back windows.      *)
EXTENDS ChatUI
=============================================================================

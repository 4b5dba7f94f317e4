---------------------------- MODULE MCChatStore ----------------------------
(* The ring alone, with three slots: eviction and wrap-around occur early.  *)
EXTENDS ChatStore
=============================================================================

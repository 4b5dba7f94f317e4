---------------------------- MODULE MCVoiceTurn ----------------------------
(* Two texts, four commands and two connections: a turn is interrupted,    *)
(* a text waits, and the worker queue of one job overflows.                *)
EXTENDS VoiceTurn
=============================================================================

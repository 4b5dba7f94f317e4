-------------------------- MODULE MCDictationView --------------------------
(* The pipeline, the orb and two tasks, up to three queued callbacks.       *)
EXTENDS DictationView
=============================================================================

-------------------------- MODULE MCOnboardFailover --------------------------
(* A queue of one, one retry, resets of two pings, one chain that has ended. *)
EXTENDS OnboardFailover
=============================================================================

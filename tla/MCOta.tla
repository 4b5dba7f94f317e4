-------------------------------- MODULE MCOta --------------------------------
(* The image the device came with, one that comes up, one that crashes; two *)
(* tasks that schedule.  The builds of this commit carry TAB5_FIRMWARE_VER  *)
(* "0.8.0" and no PROJECT_VER: the descriptor has the name of the commit.   *)
EXTENDS Ota
CONSTANTS v0, v1, bad
MCVer(i) == "0.8.0"
MCDesc(i) == <<"commit", i>>
=============================================================================

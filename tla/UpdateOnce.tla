----------------------------- MODULE UpdateOnce -----------------------------
(***************************************************************************)
(* What an update promises, whatever is cut off: one attempt for what was  *)
(* asked, an image that it may install and no other, and at every moment   *)
(* an image to start.  Ota, where this takes three NVS keys, two           *)
(* partitions and two boots, implements it.                                *)
(***************************************************************************)
CONSTANTS Images, Factory

VARIABLES asked,     \* an update waits for the next boot
          may,       \* what the update under way may install, {} when there is none
          image      \* the image the bootloader starts

Init == asked = FALSE /\ may = {} /\ image = Factory

\* tab5_ota_schedule; a second schedule replaces the first.
Schedule == asked' = TRUE /\ UNCHANGED <<may, image>>

\* The attempt uses up what was asked.  With a hash one image will do.
Start ==
  /\ asked /\ asked' = FALSE /\ may = {}
  /\ may' \in {Images} \cup {{i} : i \in Images}
  /\ UNCHANGED image

Install ==
  /\ image' \in may /\ may' = {}
  /\ UNCHANGED asked

\* A failure, or a loss of power.
GiveUp == may' = {} /\ UNCHANGED <<asked, image>>

Next == Schedule \/ Start \/ Install \/ GiveUp

Spec == Init /\ [][Next]_<<asked, may, image>>
=============================================================================

---------------------------- MODULE MCNoteStore ----------------------------
(* A ring of two slots, so that it wraps around early.  Short notes come   *)
(* from recordings too, so long ones are enough to be typed.               *)
EXTENDS NoteStore

LongOnly == {Long}
LvglThread == {"lvgl"}
=============================================================================

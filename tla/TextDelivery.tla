--------------------------- MODULE TextDelivery ---------------------------
(***************************************************************************)
(* What voice_send_text promises the user: a text goes to Dragon once,     *)
(* now or when the pipeline is free, or it is lost and stays lost.         *)
(* VoiceTurn, where a text moves between a caller, the slot, the worker's  *)
(* queue and the worker, implements it.                                    *)
(***************************************************************************)
CONSTANT Texts

VARIABLES typed,       \* the texts accepted so far
          waiting,     \* those that may still go
          delivered    \* those that went

Init == typed = {} /\ waiting = {} /\ delivered = {}

\* voice_send_text accepts a text.
Type(x) ==
  /\ x \in Texts \ typed
  /\ typed' = typed \cup {x} /\ waiting' = waiting \cup {x}
  /\ UNCHANGED delivered

\* voice_ws_send_text sends it.
Send(x) ==
  /\ x \in waiting
  /\ waiting' = waiting \ {x} /\ delivered' = delivered \cup {x}
  /\ UNCHANGED typed

\* The send fails, the link is down for the worker's job, or the slot is given up to
\* a later text, a full worker's queue or a lack of memory.
Lose(x) ==
  /\ x \in waiting
  /\ waiting' = waiting \ {x}
  /\ UNCHANGED <<typed, delivered>>

Next == \E x \in Texts : Type(x) \/ Send(x) \/ Lose(x)

Spec == Init /\ [][Next]_<<typed, waiting, delivered>>
=============================================================================

------------------------- MODULE DictationPipeline -------------------------
(***************************************************************************)
(* main/voice_dictation.c: the dictation state machine every surface and   *)
(* every task shares.  Transitions are functions on the event record, so   *)
(* that the modules that compose it can make several within one handler.   *)
(* Timestamps are left out; the subscriber table is DictationView.         *)
(***************************************************************************)
EXTENDS Integers

CONSTANT NoteSlots       \* slots of ui_notes.c a pipeline may be attached to

ASSUME NoteSlotsAssumption == NoteSlots \subseteq Nat

VARIABLE s_event

States == {"IDLE", "RECORDING", "UPLOADING", "TRANSCRIBING", "SAVED", "FAILED"}
Reasons == {"AUTH", "NETWORK", "EMPTY", "NO_AUDIO", "TOO_LONG", "CANCELLED"}

DictEvent == [state : States, fail_reason : Reasons \cup {"NONE"},
              note_slot : NoteSlots \cup {-1}]

\* voice_dictation_init.
Fresh == [state |-> "IDLE", fail_reason |-> "NONE", note_slot |-> -1]

\* dict_transition_allowed.
TransitionAllowed(cur, next) ==
  CASE next = "FAILED" -> cur # "IDLE"
    [] next = "IDLE"   -> cur \in {"SAVED", "FAILED", "RECORDING"}
    [] OTHER ->
         <<cur, next>> \in { <<"IDLE", "RECORDING">>, <<"SAVED", "RECORDING">>,
                             <<"FAILED", "RECORDING">>, <<"FAILED", "UPLOADING">>,
                             <<"RECORDING", "UPLOADING">>, <<"RECORDING", "TRANSCRIBING">>,
                             <<"UPLOADING", "TRANSCRIBING">>, <<"TRANSCRIBING", "SAVED">> }

\* Mutant: note_slot survives the return to IDLE.
MovedMutant(e, new, reason) ==
  IF (new = e.state /\ reason = e.fail_reason) \/ ~TransitionAllowed(e.state, new) THEN e
  ELSE [state |-> new, fail_reason |-> IF new = "FAILED" THEN reason ELSE "NONE",
        note_slot |-> e.note_slot]

\* voice_dictation_set_state: a repeated call and a refused one change nothing.
Moved(e, new, reason) ==
  IF (new = e.state /\ reason = e.fail_reason) \/ ~TransitionAllowed(e.state, new) THEN e
  ELSE [state |-> new,
        fail_reason |-> IF new = "FAILED" THEN reason ELSE "NONE",
        note_slot |-> IF new = "IDLE" THEN -1 ELSE e.note_slot]

\* voice_dictation_set_note_slot.
Attached(e, slot) ==
  IF e.state \in {"RECORDING", "UPLOADING"} THEN [e EXCEPT !.note_slot = slot] ELSE e

---------------------------------------------------------------------------
(* Properties *)

EventTypeOK == s_event \in DictEvent

\* However tasks and handlers mix retries, repeated and refused calls, a snapshot shows a
\* reason exactly while it shows a failure, and no slot once the pipeline is back to IDLE
\* (voice_dictation.c:158-169).  It does not say that a new recording has no slot: one that
\* follows SAVED or FAILED keeps the last one until it is given its own.
EventConsistent ==
  /\ s_event.state = "IDLE" => s_event.note_slot = -1
  /\ (s_event.state = "FAILED") <=> (s_event.fail_reason # "NONE")
=============================================================================

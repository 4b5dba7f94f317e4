--------------------------- MODULE DictationView ---------------------------
(***************************************************************************)
(* How a dictation transition reaches the screen: voice_dictation.c        *)
(* dispatches under its lock, voice_dictation_lvgl.c marshals each event   *)
(* with tab5_lv_async_call, which takes the LVGL lock, and ui_orb.c paints *)
(* what it is given.  ui_task holds the LVGL lock for a whole              *)
(* lv_timer_handler pass, in which handlers read and move the pipeline.    *)
(* The other surfaces (chip, notes row) subscribe the same way as the orb. *)
(***************************************************************************)
EXTENDS DictationPipeline, Sequences

CONSTANTS
  Tasks,          \* the WS, transcription, mic, timer and httpd tasks
  Nobody,
  NewestFirst,    \* the order in which a pass runs queued callbacks: the newest
                  \* first, as ui_notes.c:1035 and 1408 found; voice_billing.c:139
                  \* counts on the oldest first
  MaxQueue        \* bound on callbacks not yet run

ASSUME ViewAssumption ==
  Nobody \notin Tasks \cup {"lvgl"} /\ NewestFirst \in BOOLEAN /\ MaxQueue \in Nat \ {0}

VARIABLES
  s_lock,         \* owner of voice_dictation.c's mutex
  s_lvgl_mutex,   \* owner of ui_core.c's mutex
  posting,        \* the tasks inside dict_dispatch_locked, waiting for s_lvgl_mutex
  ui_pc,          \* ui_task: "out" of a pass, "run"ning one, "want"ing s_lock
  lv_async,       \* queued dict_marshal_lvgl_cb events, oldest first
  s_pipeline,     \* the state the orb shows
  fade,           \* s_saved_fade_timer exists
  crowded         \* auxiliary: the last event marshalled found another one waiting

vars == <<s_event, s_lock, s_lvgl_mutex, posting, ui_pc, lv_async, s_pipeline, fade, crowded>>

\* Who is where: a task in its dispatch owns s_lock, ui_task in a pass owns
\* s_lvgl_mutex, and nobody else owns either.
ViewTypeOK ==
  /\ EventTypeOK
  /\ posting \subseteq Tasks /\ s_lock \in Tasks \cup {Nobody}
  /\ posting = {s_lock} \ {Nobody}
  /\ ui_pc \in {"out", "run", "want"}
  /\ s_lvgl_mutex = IF ui_pc = "out" THEN Nobody ELSE "lvgl"
  /\ lv_async \in Seq(States)
  /\ s_pipeline \in States /\ fade \in BOOLEAN /\ crowded \in BOOLEAN

Init ==
  /\ s_event = Fresh
  /\ s_lock = Nobody /\ s_lvgl_mutex = Nobody
  /\ posting = {} /\ ui_pc = "out"
  /\ lv_async = <<>> /\ s_pipeline = "IDLE" /\ fade = FALSE /\ crowded = FALSE

\* What the tasks other than ui_task ask for: WS frames and the disconnect, the
\* transcription queue, the 4 h cap of the mic, the grace timer, the debug server.
TaskCalls ==
  {<<s, "NONE">> : s \in {"RECORDING", "UPLOADING", "TRANSCRIBING", "SAVED"}}
    \cup {<<"FAILED", r>> : r \in Reasons}

\* voice_dictation_set_state up to the dispatch.
TaskMoves(t, new, reason) ==
  /\ t \notin posting /\ s_lock = Nobody
  /\ s_event' = Moved(s_event, new, reason)
  /\ IF s_event' = s_event THEN UNCHANGED <<s_lock, posting>>
                           ELSE s_lock' = t /\ posting' = posting \cup {t}
  /\ UNCHANGED <<s_lvgl_mutex, ui_pc, lv_async, s_pipeline, fade, crowded>>

\* Mutant: a dispatch that returns without dict_unlock.
TaskPostsLeakMutant(t) ==
  /\ t \in posting /\ s_lvgl_mutex = Nobody
  /\ Len(lv_async) < MaxQueue
  /\ lv_async' = Append(lv_async, s_event.state) /\ crowded' = (lv_async # <<>>)
  /\ posting' = posting \ {t}
  /\ UNCHANGED <<s_event, s_lock, s_lvgl_mutex, ui_pc, s_pipeline, fade>>

\* dict_marshal_dispatch inside dict_dispatch_locked, then dict_unlock.
TaskPosts(t) ==
  /\ t \in posting /\ s_lvgl_mutex = Nobody
  /\ Len(lv_async) < MaxQueue
  /\ lv_async' = Append(lv_async, s_event.state) /\ crowded' = (lv_async # <<>>)
  /\ posting' = posting \ {t} /\ s_lock' = Nobody
  /\ UNCHANGED <<s_event, s_lvgl_mutex, ui_pc, s_pipeline, fade>>

\* voice_dictation_set_note_slot by transcription_queue_task.
TaskAttaches(t, slot) ==
  /\ t \notin posting /\ s_lock = Nobody
  /\ s_event' = Attached(s_event, slot)
  /\ UNCHANGED <<s_lock, s_lvgl_mutex, posting, ui_pc, lv_async, s_pipeline, fade, crowded>>

\* ui_task takes s_lvgl_mutex and enters lv_timer_handler.
PassBegins ==
  /\ ui_pc = "out" /\ s_lvgl_mutex = Nobody
  /\ s_lvgl_mutex' = "lvgl" /\ ui_pc' = "run"
  /\ UNCHANGED <<s_event, s_lock, posting, lv_async, s_pipeline, fade, crowded>>

\* Mutant: the fade timer survives the repaint that leaves SAVED.
PaintMutant(state) == s_pipeline' = state /\ fade' = (fade \/ state = "SAVED")

\* ui_orb_set_pipeline_state: SAVED starts the fade, any other state stops it.
Paint(state) == s_pipeline' = state /\ fade' = (state = "SAVED")

\* A pass runs the queued callbacks before any timer or input event.
PassPaints ==
  /\ ui_pc = "run" /\ lv_async # <<>>
  /\ LET n == Len(lv_async) IN
     IF NewestFirst THEN Paint(lv_async[n]) /\ lv_async' = SubSeq(lv_async, 1, n - 1)
                    ELSE Paint(lv_async[1]) /\ lv_async' = Tail(lv_async)
  /\ UNCHANGED <<s_event, s_lock, s_lvgl_mutex, posting, ui_pc, crowded>>

\* A timer or an event handler of the pass calls voice_dictation_get or _set_state.
HandlerWants ==
  /\ ui_pc = "run" /\ lv_async = <<>> /\ ui_pc' = "want"
  /\ UNCHANGED <<s_event, s_lock, s_lvgl_mutex, posting, lv_async, s_pipeline, fade, crowded>>

\* Mutant: what the LVGL thread itself moves is not marshalled to it.
HandlerMovesMutant(moves) ==
  LET e1 == IF Len(moves) >= 1 THEN Moved(s_event, moves[1][1], moves[1][2]) ELSE s_event
  IN  /\ ui_pc = "want" /\ s_lock = Nobody /\ ui_pc' = "run"
      /\ s_event' = IF Len(moves) >= 2 THEN Moved(e1, moves[2][1], moves[2][2]) ELSE e1
      /\ UNCHANGED <<s_lock, s_lvgl_mutex, posting, lv_async, s_pipeline, crowded>>

\* The transitions a handler of the LVGL thread makes, in order, each dispatched.
HandlerMoves(moves) ==
  LET e1 == IF Len(moves) >= 1 THEN Moved(s_event, moves[1][1], moves[1][2]) ELSE s_event
      e2 == IF Len(moves) >= 2 THEN Moved(e1, moves[2][1], moves[2][2]) ELSE e1
  IN  /\ ui_pc = "want" /\ s_lock = Nobody /\ ui_pc' = "run"
      /\ s_event' = e2
      /\ lv_async' = (IF e1 # s_event THEN <<e1.state>> ELSE <<>>)
                       \o (IF e2 # e1 THEN <<e2.state>> ELSE <<>>)
      /\ crowded' = IF e1 = s_event /\ e2 = e1 THEN crowded ELSE e1 # s_event /\ e2 # e1
      /\ UNCHANGED <<s_lock, s_lvgl_mutex, posting, s_pipeline>>

\* proc_rec_tick_cb, dictate_chip_rec_tick_cb, ui_orb_pipeline_active.
TickReads == HandlerMoves(<<>>) /\ UNCHANGED fade

\* dictate_chip_tap_cb; the stop asks for UPLOADING offline, for FAILED when
\* the stop frame cannot be sent.
ChipTap ==
  /\ \/ /\ s_event.state \in {"IDLE", "FAILED"} /\ HandlerMoves(<<<<"RECORDING", "NONE">>>>)
     \/ /\ s_event.state = "RECORDING"
        /\ \E m \in {<<"TRANSCRIBING", "NONE">>, <<"UPLOADING", "NONE">>, <<"FAILED", "NETWORK">>} :
             HandlerMoves(<<m>>)
  /\ UNCHANGED fade

\* cb_notes_fab_tap.
FabTap ==
  /\ \/ s_event.state = "RECORDING" /\ HandlerMoves(<<<<"FAILED", "CANCELLED">>>>)
     \/ /\ s_event.state \in {"FAILED", "SAVED"}
        /\ HandlerMoves(<<<<"IDLE", "NONE">>, <<"RECORDING", "NONE">>>>)
     \/ /\ s_event.state \notin {"RECORDING", "FAILED", "SAVED"}
        /\ HandlerMoves(<<<<"RECORDING", "NONE">>>>)
  /\ UNCHANGED fade

\* ui_home_start_voice_turn; also cb_proc_close_tap outside RECORDING and the
\* taps above when voice_start_dictation refuses.
ResetTap ==
  /\ s_event.state \in {"FAILED", "SAVED"}
  /\ HandlerMoves(<<<<"IDLE", "NONE">>>>) /\ UNCHANGED fade

\* saved_fade_to_idle_cb, two seconds after SAVED was painted.
Fade == fade /\ HandlerMoves(<<<<"IDLE", "NONE">>>>) /\ fade' = FALSE

PassEnds ==
  /\ ui_pc = "run" /\ lv_async = <<>>
  /\ ui_pc' = "out" /\ s_lvgl_mutex' = Nobody
  /\ UNCHANGED <<s_event, s_lock, posting, lv_async, s_pipeline, fade, crowded>>

Next ==
  \/ \E t \in Tasks :
       \/ \E c \in TaskCalls : TaskMoves(t, c[1], c[2])
       \/ TaskPosts(t)
       \/ \E slot \in NoteSlots \cup {-1} : TaskAttaches(t, slot)
  \/ PassBegins \/ PassPaints \/ HandlerWants \/ PassEnds
  \/ TickReads \/ ChipTap \/ FabTap \/ ResetTap \/ Fade

Spec == Init /\ [][Next]_vars

---------------------------------------------------------------------------
(* Properties *)

\* In either order of callbacks, an event that was marshalled alone is the last thing
\* painted: with no callback outstanding the orb shows the pipeline's state, whatever
\* overlapping events left on it before (voice_dictation_lvgl.c:18-28).
LoneEventShown == (lv_async = <<>> /\ posting = {} /\ ~crowded) => s_pipeline = s_event.state

\* The two-second fade of an earlier SAVED never ends a recording whose event was
\* marshalled alone: RECORDING -> IDLE is a legal transition, so only the repaint, in
\* either order of callbacks, protects a new dictation (ui_orb.c:2516).
FadeSparesRecording == [][Fade => s_event.state # "RECORDING" \/ crowded]_vars

\* docs/superpowers/specs/2026-05-14-dictation-pipeline-notes-redesign-design.md:114: all
\* surfaces "render the same state object.  They never disagree".  With no callback
\* outstanding the orb shows the pipeline's state.
ViewFollowsPipeline == (lv_async = <<>> /\ posting = {}) => s_pipeline = s_event.state

\* ui_core.c's deadlock analysis: no task waits for s_lvgl_mutex with a lock
\* that a handler inside a pass is waiting for.
NoLockCycle == ~(ui_pc = "want" /\ posting # {})
=============================================================================

-------------------------- MODULE DictationProofs --------------------------
(***************************************************************************)
(* The dictation pipeline and the orb that follows it, for any number of   *)
(* tasks, note slots and queued callbacks, and for either order in which   *)
(* the callbacks run.  LoneEventShown speaks of the moment when all of     *)
(* them have run; the strengthening says of every moment what the one that *)
(* was marshalled alone is going to paint.                                 *)
(***************************************************************************)
EXTENDS DictationView, SequenceTheorems, TLAPS

(* ---- the event record ----------------------------------------------------*)

Sane(e) ==
  /\ e \in DictEvent
  /\ e.state = "IDLE" => e.note_slot = -1
  /\ (e.state = "FAILED") <=> (e.fail_reason # "NONE")

\* What a caller may ask for: a reason with FAILED and with nothing else.
Asked(new, reason) ==
  /\ new \in States
  /\ IF new = "FAILED" THEN reason \in Reasons ELSE reason = "NONE"

LEMMA MovedSane ==
  ASSUME NEW e, Sane(e), NEW new, NEW reason, Asked(new, reason)
  PROVE  Sane(Moved(e, new, reason))
BY DEF Moved, Sane, DictEvent, Asked, Reasons, States

LEMMA AttachedSane ==
  ASSUME NEW e, Sane(e), NEW slot \in NoteSlots \cup {-1}
  PROVE  Sane(Attached(e, slot)) /\ Attached(e, slot).state = e.state
BY DEF Attached, Sane, DictEvent, States

LEMMA TaskAsks == \A c \in TaskCalls : Asked(c[1], c[2])
BY DEF TaskCalls, Asked, States, Reasons

\* The moves of a handler, one after the other.
First(moves) == IF Len(moves) >= 1 THEN Moved(s_event, moves[1][1], moves[1][2]) ELSE s_event
Second(moves) ==
  IF Len(moves) >= 2 THEN Moved(First(moves), moves[2][1], moves[2][2]) ELSE First(moves)

Moves == {<<>>} \cup {<<m>> : m \in {<<s, "NONE">> : s \in States \ {"FAILED"}}
                                      \cup {<<"FAILED", r>> : r \in Reasons}}
                \cup {<<<<"IDLE", "NONE">>, <<"RECORDING", "NONE">>>>}

HandlerNext == \E moves \in Moves : HandlerMoves(moves)

\* Every handler of the LVGL thread makes such moves, and only the fade's own
\* handler touches the fade.
LEMMA HandlersMove ==
  ASSUME TickReads \/ ChipTap \/ FabTap \/ ResetTap \/ Fade
  PROVE  HandlerNext /\ fade' \in {fade, FALSE}
BY DEF TickReads, ChipTap, FabTap, ResetTap, Fade, HandlerNext, Moves, States, Reasons

LEMMA MovesSane ==
  ASSUME Sane(s_event), NEW moves \in Moves
  PROVE  Sane(First(moves)) /\ Sane(Second(moves))
<1>1. CASE moves = <<>>
  BY <1>1 DEF First, Second
<1>2. CASE \E m \in {<<s, "NONE">> : s \in States \ {"FAILED"}} \cup {<<"FAILED", r>> : r \in Reasons} :
             moves = <<m>>
  <2>1. PICK new, reason : Asked(new, reason) /\ moves = <<<<new, reason>>>>
    BY <1>2 DEF Asked, States
  <2>2. First(moves) = Moved(s_event, new, reason) /\ Second(moves) = First(moves)
    BY <2>1 DEF First, Second
  <2> QED BY <2>1, <2>2, MovedSane
<1>3. CASE moves = <<<<"IDLE", "NONE">>, <<"RECORDING", "NONE">>>>
  <2>1. First(moves) = Moved(s_event, "IDLE", "NONE")
    BY <1>3 DEF First
  <2>2. Second(moves) = Moved(First(moves), "RECORDING", "NONE")
    BY <1>3 DEF Second
  <2>3. Asked("IDLE", "NONE") /\ Asked("RECORDING", "NONE")
    BY DEF Asked, States
  <2> QED BY <2>1, <2>2, <2>3, MovedSane
<1> QED BY <1>1, <1>2, <1>3 DEF Moves

\* Every step leaves a record that the dictation code means.
LEMMA SaneStep ==
  ASSUME Sane(s_event), [Next]_vars
  PROVE  Sane(s_event')
<1>1. ASSUME NEW t, NEW c \in TaskCalls, TaskMoves(t, c[1], c[2]) PROVE Sane(s_event')
  <2>1. Asked(c[1], c[2]) /\ s_event' = Moved(s_event, c[1], c[2])
    BY <1>1, TaskAsks DEF TaskMoves
  <2> QED BY <2>1, MovedSane
<1>2. ASSUME NEW t, NEW slot \in NoteSlots \cup {-1}, TaskAttaches(t, slot) PROVE Sane(s_event')
  <2>1. s_event' = Attached(s_event, slot)
    BY <1>2 DEF TaskAttaches
  <2> QED BY <2>1, AttachedSane
<1>3. ASSUME HandlerNext PROVE Sane(s_event')
  <2>1. PICK moves \in Moves : HandlerMoves(moves)
    BY <1>3 DEF HandlerNext
  <2>2. s_event' = Second(moves)
    BY <2>1 DEF HandlerMoves, First, Second
  <2> QED BY <2>2, MovesSane
<1>4. ASSUME UNCHANGED s_event PROVE Sane(s_event')
  BY <1>4
<1>5. CASE Next
  BY <1>1, <1>2, <1>3, <1>4, <1>5, HandlersMove
  DEF Next, TaskPosts, PassBegins, PassPaints, HandlerWants, PassEnds
<1>6. CASE UNCHANGED vars
  BY <1>4, <1>6 DEF vars
<1> QED BY <1>5, <1>6

\* voice_dictation_set_state: a snapshot shows a reason exactly with a failure and no slot
\* with IDLE, whatever the tasks and handlers ask for.
THEOREM EventSafe == Spec => []EventConsistent
<1>1. Init => Sane(s_event)
  BY DEF Init, Fresh, Sane, DictEvent, States, Reasons
<1>2. Sane(s_event) /\ [Next]_vars => Sane(s_event)'
  BY SaneStep
<1>3. Sane(s_event) => EventConsistent
  BY DEF Sane, EventConsistent
<1> QED BY <1>1, <1>2, <1>3, PTL DEF Spec

(* ---- locks, queue and orb ------------------------------------------------*)

\* ViewTypeOK without the event record.
Held ==
  /\ posting \subseteq Tasks /\ s_lock \in Tasks \cup {Nobody}
  /\ posting = {s_lock} \ {Nobody}
  /\ ui_pc \in {"out", "run", "want"}
  /\ s_lvgl_mutex = IF ui_pc = "out" THEN Nobody ELSE "lvgl"
Queued ==
  /\ lv_async \in Seq(States) /\ s_pipeline \in States
  /\ fade \in BOOLEAN /\ crowded \in BOOLEAN

\* A step of a handler, in the terms of its two moves.
LEMMA HandlerSteps ==
  ASSUME Sane(s_event), HandlerNext
  PROVE  /\ ui_pc = "want" /\ ui_pc' = "run" /\ s_lock = Nobody
         /\ UNCHANGED <<s_lock, s_lvgl_mutex, posting, s_pipeline>>
         /\ lv_async' \in Seq(States)
         /\ \/ lv_async' = <<>> /\ UNCHANGED <<s_event, crowded>>
            \/ lv_async' = <<s_event'.state>> /\ crowded' = FALSE
            \/ lv_async' # <<>> /\ crowded' = TRUE
<1>1. PICK moves \in Moves : HandlerMoves(moves)
  BY DEF HandlerNext
<1> DEFINE e1 == First(moves)
           e2 == Second(moves)
<1>2. Sane(e1) /\ Sane(e2)
  BY MovesSane
<1>3. e1.state \in States /\ e2.state \in States
  BY <1>2 DEF Sane, DictEvent
<1>4. /\ ui_pc = "want" /\ ui_pc' = "run" /\ s_lock = Nobody
      /\ UNCHANGED <<s_lock, s_lvgl_mutex, posting, s_pipeline>>
      /\ s_event' = e2
      /\ lv_async' = (IF e1 # s_event THEN <<e1.state>> ELSE <<>>)
                       \o (IF e2 # e1 THEN <<e2.state>> ELSE <<>>)
      /\ crowded' = IF e1 = s_event /\ e2 = e1 THEN crowded ELSE e1 # s_event /\ e2 # e1
  BY <1>1 DEF HandlerMoves, First, Second
<1> HIDE DEF e1, e2
<1>5. CASE e1 = s_event /\ e2 = e1
  <2>1. lv_async' = <<>>
    BY <1>4, <1>5
  <2> QED BY <1>4, <1>5, <2>1
<1>6. CASE e1 # s_event /\ e2 = e1
  <2>1. lv_async' = <<e1.state>>
    BY <1>3, <1>4, <1>6
  <2> QED BY <1>3, <1>4, <1>6, <2>1
<1>7. CASE e1 = s_event /\ e2 # e1
  <2>1. lv_async' = <<e2.state>>
    BY <1>3, <1>4, <1>7
  <2> QED BY <1>3, <1>4, <1>7, <2>1
<1>8. CASE e1 # s_event /\ e2 # e1
  <2>1. lv_async' = <<e1.state>> \o <<e2.state>>
    BY <1>4, <1>8
  <2>2. /\ <<e1.state>> \in Seq(States) /\ Len(<<e1.state>>) = 1
        /\ <<e2.state>> \in Seq(States) /\ Len(<<e2.state>>) = 1
    BY <1>3
  <2>3. lv_async' \in Seq(States) /\ Len(lv_async') = 2
    BY <2>1, <2>2, ConcatProperties
  <2>4. lv_async' # <<>>
    BY <2>3, EmptySeq
  <2>5. crowded' = TRUE
    BY <1>4, <1>8, Zenon
  <2> QED BY <1>4, <2>3, <2>4, <2>5
<1> QED BY <1>5, <1>6, <1>7, <1>8

LEMMA HeldStep ==
  ASSUME Sane(s_event), Held, [Next]_vars
  PROVE  Held'
<1> USE ViewAssumption
<1>1. ASSUME NEW t \in Tasks, NEW new, NEW reason, TaskMoves(t, new, reason) PROVE Held'
  BY <1>1 DEF TaskMoves, Held
<1>2. ASSUME NEW t \in Tasks, TaskPosts(t) PROVE Held'
  BY <1>2 DEF TaskPosts, Held
<1>3. ASSUME NEW t \in Tasks, NEW slot, TaskAttaches(t, slot) PROVE Held'
  BY <1>3 DEF TaskAttaches, Held
<1>4. CASE PassBegins \/ PassPaints \/ HandlerWants \/ PassEnds
  BY <1>4 DEF PassBegins, PassPaints, HandlerWants, PassEnds, Held
<1>5. CASE HandlerNext
  BY <1>5, HandlerSteps DEF Held
<1>6. CASE UNCHANGED vars
  BY <1>6 DEF vars, Held
<1> QED BY <1>1, <1>2, <1>3, <1>4, <1>5, <1>6, HandlersMove DEF Next

LEMMA QueuedStep ==
  ASSUME Sane(s_event), Held, Queued, [Next]_vars
  PROVE  Queued'
<1>1. ASSUME NEW t \in Tasks, TaskPosts(t) PROVE Queued'
  BY <1>1, AppendProperties DEF TaskPosts, Queued, Sane, DictEvent
<1>2. CASE PassPaints
  <2>1. lv_async \in Seq(States) /\ lv_async # <<>>
    BY <1>2 DEF PassPaints, Queued
  <2>2. Len(lv_async) \in Nat \ {0}
    BY <2>1, EmptySeq
  <2>3. lv_async[1] \in States /\ lv_async[Len(lv_async)] \in States
    BY <2>1, <2>2, ElementOfSeq
  <2>4. Tail(lv_async) \in Seq(States)
    BY <2>1, HeadTailProperties
  <2>5. SubSeq(lv_async, 1, Len(lv_async) - 1) \in Seq(States)
    <3>1. \A i \in 1..Len(lv_async) - 1 : lv_async[i] \in States
      BY <2>1, <2>2, ElementOfSeq
    <3> QED BY <2>2, <3>1, SubSeqProperties
  <2> QED BY <1>2, <2>3, <2>4, <2>5 DEF PassPaints, Paint, Queued
<1>3. ASSUME HandlerNext, fade' \in {fade, FALSE} PROVE Queued'
  BY <1>3, HandlerSteps DEF Queued
<1>4. ASSUME UNCHANGED <<lv_async, s_pipeline, fade, crowded>> PROVE Queued'
  BY <1>4 DEF Queued
<1> QED
  BY <1>1, <1>2, <1>3, <1>4, HandlersMove
  DEF Next, vars, TaskMoves, TaskAttaches, PassBegins, HandlerWants, PassEnds

LEMMA ViewInit == Init => Sane(s_event) /\ Held /\ Queued
<1> SUFFICES ASSUME Init PROVE Sane(s_event) /\ Held /\ Queued
  OBVIOUS
<1>1. Sane(s_event)
  BY DEF Init, Fresh, Sane, DictEvent, States, Reasons
<1>2. Held
  BY ViewAssumption DEF Init, Held
<1>3. Queued
  BY EmptySeq DEF Init, Queued, States
<1> QED BY <1>1, <1>2, <1>3

\* dict_lock, dict_unlock and the passes of ui_task: each mutex has the owner the
\* code means it to have, and no other.
THEOREM ViewTypes == Spec => []ViewTypeOK
<1>1. Init => Sane(s_event) /\ Held /\ Queued
  BY ViewInit
<1>2. Sane(s_event) /\ Held /\ Queued /\ [Next]_vars => (Sane(s_event) /\ Held /\ Queued)'
  BY SaneStep, HeldStep, QueuedStep
<1>3. Sane(s_event) /\ Held /\ Queued => ViewTypeOK
  BY DEF Sane, Held, Queued, ViewTypeOK, EventTypeOK
<1> QED BY <1>1, <1>2, <1>3, PTL DEF Spec

(* ---- what the orb will show ----------------------------------------------*)

\* What a lone callback will leave on the orb, or what is there without one.
Newest == IF lv_async = <<>> THEN s_pipeline ELSE lv_async[1]

Follows ==
  /\ ui_pc = "want" => lv_async = <<>>
  /\ crowded = FALSE => /\ lv_async = <<>> \/ Len(lv_async) = 1
                        /\ posting = {} => Newest = s_event.state
  /\ fade = TRUE => s_pipeline = "SAVED"

\* A lone callback is painted next whichever end of the queue is run first.
LEMMA LonePainted ==
  ASSUME Queued, PassPaints, Len(lv_async) = 1
  PROVE  lv_async' = <<>> /\ s_pipeline' = lv_async[1]
<1>1. lv_async \in Seq(States) /\ lv_async # <<>>
  BY DEF Queued, PassPaints
<1>2. Tail(lv_async) = <<>>
  <2>1. Tail(lv_async) \in Seq(States) /\ Len(Tail(lv_async)) = 0
    BY <1>1, HeadTailProperties
  <2> QED BY <2>1, EmptySeq
<1>3. SubSeq(lv_async, 1, Len(lv_async) - 1) = <<>>
  OBVIOUS
<1> QED BY <1>2, <1>3 DEF PassPaints, Paint

LEMMA FollowsStep ==
  ASSUME Sane(s_event), Held, Queued, Follows, [Next]_vars
  PROVE  Follows'
<1> USE ViewAssumption
<1>1. ASSUME NEW t \in Tasks, NEW new, NEW reason, TaskMoves(t, new, reason) PROVE Follows'
  BY <1>1 DEF TaskMoves, Follows, Newest
<1>2. ASSUME NEW t \in Tasks, TaskPosts(t) PROVE Follows'
  <2>1. /\ lv_async' = Append(lv_async, s_event.state) /\ s_event.state \in States
        /\ crowded' = (lv_async # <<>>)
    BY <1>2 DEF TaskPosts, Sane, DictEvent
  <2>2. lv_async = <<>> => lv_async' # <<>> /\ Len(lv_async') = 1 /\ lv_async'[1] = s_event.state
    BY <2>1, AppendProperties, LenProperties DEF Queued
  <2>3. UNCHANGED <<s_event, s_pipeline, fade, ui_pc>> /\ ui_pc # "want"
    BY <1>2 DEF TaskPosts, Held
  <2> QED BY <2>1, <2>2, <2>3 DEF Follows, Newest
<1>3. ASSUME NEW t \in Tasks, NEW slot \in NoteSlots \cup {-1}, TaskAttaches(t, slot)
      PROVE  Follows'
  <2>1. s_event'.state = s_event.state
    BY <1>3, AttachedSane DEF TaskAttaches
  <2> QED BY <1>3, <2>1 DEF TaskAttaches, Follows, Newest
<1>4. CASE PassPaints
  <2>1. /\ ui_pc' = "run" /\ (fade' = TRUE => s_pipeline' = "SAVED") /\ lv_async # <<>>
        /\ UNCHANGED <<s_event, posting, crowded>>
    BY <1>4 DEF PassPaints, Paint
  <2>2. crowded = FALSE => lv_async' = <<>> /\ s_pipeline' = Newest
    BY <1>4, <2>1, LonePainted DEF Follows, Newest
  <2> QED BY <2>1, <2>2 DEF Follows, Newest
<1>5. CASE PassBegins \/ HandlerWants \/ PassEnds
  BY <1>5 DEF PassBegins, HandlerWants, PassEnds, Follows, Newest
<1>6. ASSUME HandlerNext, fade' \in {fade, FALSE} PROVE Follows'
  <2>1. posting = {} /\ lv_async = <<>>
    BY <1>6, HandlerSteps DEF Held, Follows
  <2>2. crowded = FALSE => s_pipeline = s_event.state
    BY <2>1 DEF Follows, Newest
  <2>3. /\ ui_pc' = "run" /\ posting' = {} /\ s_pipeline' = s_pipeline
        /\ fade' = TRUE => s_pipeline' = "SAVED"
    BY <1>6, <2>1, HandlerSteps DEF Follows
  <2>4. CASE lv_async' = <<>> /\ UNCHANGED <<s_event, crowded>>
    BY <2>2, <2>3, <2>4 DEF Follows, Newest
  <2>5. CASE lv_async' = <<s_event'.state>> /\ crowded' = FALSE
    <3>1. lv_async' # <<>> /\ Len(lv_async') = 1 /\ lv_async'[1] = s_event'.state
      BY <2>5
    <3> QED BY <2>3, <3>1 DEF Follows, Newest
  <2>6. CASE crowded' = TRUE
    BY <2>3, <2>6 DEF Follows
  <2> QED BY <1>6, <2>4, <2>5, <2>6, HandlerSteps
<1>7. CASE UNCHANGED vars
  BY <1>7 DEF vars, Follows, Newest
<1> QED BY <1>1, <1>2, <1>3, <1>4, <1>5, <1>6, <1>7, HandlersMove DEF Next

ViewInv == Sane(s_event) /\ Held /\ Queued /\ Follows

LEMMA FollowsInit == Init => Follows
BY DEF Init, Fresh, Follows, Newest

LEMMA ViewInvariant == Spec => []ViewInv
<1>1. Init => ViewInv
  BY ViewInit, FollowsInit DEF ViewInv
<1>2. ViewInv /\ [Next]_vars => ViewInv'
  BY SaneStep, HeldStep, QueuedStep, FollowsStep DEF ViewInv
<1> QED BY <1>1, <1>2, PTL DEF Spec

\* dict_marshal_lvgl_cb: an event that met no other callback is what the orb ends up
\* showing, however many tasks move the pipeline and in whichever order a pass runs
\* its callbacks.
THEOREM OrbFollows == Spec => []LoneEventShown
<1>1. ViewInv => LoneEventShown
  BY DEF ViewInv, Queued, Follows, Newest, LoneEventShown
<1> QED BY ViewInvariant, <1>1, PTL

\* saved_fade_to_idle_cb: the fade of an earlier SAVED never ends a recording whose
\* event met no other callback.
THEOREM FadeSafe == Spec => FadeSparesRecording
<1>1. ViewInv /\ Fade => s_event.state # "RECORDING" \/ crowded
  <2> SUFFICES ASSUME ViewInv, Fade, crowded = FALSE PROVE s_event.state # "RECORDING"
    BY DEF ViewInv, Queued
  <2>1. fade = TRUE /\ ui_pc = "want" /\ s_lock = Nobody
    BY DEF Fade, HandlerMoves, ViewInv, Queued
  <2>2. posting = {} /\ lv_async = <<>>
    BY <2>1 DEF ViewInv, Held, Follows
  <2> QED BY <2>1, <2>2 DEF ViewInv, Follows, Newest
<1>2. ViewInv /\ [Next]_vars => [Fade => s_event.state # "RECORDING" \/ crowded]_vars
  BY <1>1
<1> QED BY ViewInvariant, <1>2, PTL DEF Spec, FadeSparesRecording
=============================================================================

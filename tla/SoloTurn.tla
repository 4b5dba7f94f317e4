------------------------------ MODULE SoloTurn ------------------------------
(***************************************************************************)
(* main/voice_solo.c and main/solo_session_store.c: a turn that goes to    *)
(* OpenRouter without Dragon, typed or spoken.  One job at a time on the   *)
(* worker, a cancel from the LVGL thread at any moment, and a history that *)
(* is saved to the SD card by two appends: each writes a temporary file,   *)
(* removes the old one and renames.  Power may be lost between any two     *)
(* steps.  The network, the allocations and the card are choices.  What a  *)
(* turn says is its number; the oldest turns of a full history are not     *)
(* dropped here.  The mutex of s_busy is taken to exist already.           *)
(***************************************************************************)
EXTENDS Integers

CONSTANTS
  MaxTurns,        \* bound on turns ever accepted
  Modes,           \* the values vmode may take
  Gone, Partial    \* a file that does not exist, one that is half written

VARIABLES
  vmode,                     \* "solo", or another mode with llm_engine OPENROUTER
  s_state, mic,              \* the voice state; the push-to-talk: off, rec, stop
  s_busy, s_cancel_requested,
  stage, kind, role,         \* the job: how far it is, "text" or "audio", whose
                             \* entry it appends
  turn,                      \* auxiliary: the number of this turn
  s_tts_done, drain,         \* the playback task: "wait" or "ready"
  file, tmp, buf,            \* the session, its .tmp and its copy in memory
  cancelled, heard,          \* auxiliary: turns cancelled by the user; those whose
                             \* job ran and was told
  saved                      \* auxiliary: entries appended with ESP_OK and not known
                             \* to be lost

disk == <<file, tmp>>
aux == <<cancelled, heard, saved>>
job == <<stage, kind, role, turn>>
soloVars == <<vmode, s_state, mic, s_busy, s_cancel_requested, job, s_tts_done, drain,
              disk, buf, aux>>

Busy == {"PROCESSING", "SPEAKING"}
Entries == (1..MaxTurns) \X {"user", "assistant"}

ASSUME SoloAssumption ==
  /\ MaxTurns \in Nat /\ Gone # Partial /\ Modes \subseteq {"solo", "other"}
  /\ \A s \in SUBSET Entries : s # Gone /\ s # Partial

Contents(f) == IF f \in {Gone, Partial} THEN {} ELSE f

SoloTypeOK ==
  /\ vmode \in Modes /\ s_state \in {"READY", "LISTENING"} \cup Busy
  /\ mic \in {"off", "rec", "stop"} /\ s_busy \in BOOLEAN /\ s_cancel_requested \in BOOLEAN
  /\ stage \in {"none", "queued", "ask", "stt", "say", "load", "write", "unlink", "rename",
                "end", "handover"}
  /\ kind \in {"text", "audio"} /\ role \in {"user", "assistant"} /\ turn \in 0..MaxTurns
  /\ s_tts_done \in BOOLEAN /\ drain \in {"wait", "ready"}
  /\ file # Partial /\ file \in {Gone} \cup SUBSET Entries
  /\ tmp \in {Gone, Partial} \cup SUBSET Entries
  /\ buf \subseteq Entries /\ saved \subseteq Entries
  /\ heard \subseteq cancelled /\ cancelled \subseteq 1..MaxTurns

SoloInit ==
  /\ vmode \in Modes /\ s_state = "READY" /\ mic = "off"
  /\ s_busy = FALSE /\ s_cancel_requested = FALSE
  /\ stage = "none" /\ kind = "text" /\ role = "user" /\ turn = 0
  /\ s_tts_done = FALSE /\ drain = "wait"
  /\ file = {} /\ tmp = Gone /\ buf = {}
  /\ cancelled = {} /\ heard = {} /\ saved = {}

-----------------------------------------------------------------------------
(* The user: settings, typed text, push-to-talk, cancel.                   *)

offUser == <<s_tts_done, drain, disk, buf>>

SetMode ==
  /\ vmode' \in Modes \ {vmode}
  /\ UNCHANGED <<s_state, mic, s_busy, s_cancel_requested, job, aux, offUser>>

\* busy_take and the queued job; a second turn is refused.
Accept(k) ==
  /\ ~s_busy /\ turn < MaxTurns
  /\ s_busy' = TRUE /\ stage' = "queued" /\ kind' = k /\ role' = "user" /\ turn' = turn + 1

\* voice_solo_send_text: nothing shows that the turn is waiting for the worker.
SendText ==
  /\ Accept("text")
  /\ UNCHANGED <<vmode, s_state, mic, s_cancel_requested, aux, offUser>>

\* voice_start_listening and voice_stop_listening in SOLO_DIRECT.
StartMic ==
  /\ vmode = "solo" /\ s_state = "READY" /\ mic = "off"
  /\ mic' = "rec" /\ s_state' = "LISTENING"
  /\ UNCHANGED <<vmode, s_busy, s_cancel_requested, job, aux, offUser>>
StopMic ==
  /\ vmode = "solo" /\ s_state = "LISTENING" /\ mic = "rec"
  /\ mic' = "stop" /\ s_state' = "PROCESSING"
  /\ UNCHANGED <<vmode, s_busy, s_cancel_requested, job, aux, offUser>>
\* voice_solo_send_audio, which may be busy or out of memory.
DispatchAudio ==
  /\ mic = "stop" /\ mic' = "off"
  /\ \/ Accept("audio") /\ UNCHANGED s_state
     \/ s_state' = "READY" /\ UNCHANGED <<s_busy, job>>
  /\ UNCHANGED <<vmode, s_cancel_requested, aux, offUser>>

\* A spoken turn waits for the worker and the user sees that it does; a typed one shows
\* nothing that could be cancelled.
Waiting == stage = "queued" /\ kind = "audio" /\ mic = "off"

\* voice_cancel: only in SOLO_DIRECT does it tell the job.
VoiceCancel ==
  /\ s_cancel_requested' = (s_cancel_requested \/ vmode = "solo")
  /\ s_state' = "READY" /\ mic' = IF mic = "rec" THEN "off" ELSE mic
  /\ cancelled' = IF s_state \in Busy /\ (Waiting \/ stage \in {"ask", "stt", "say"})
                  THEN cancelled \cup {turn} ELSE cancelled
  /\ heard' = IF s_state \in Busy /\ vmode = "solo" /\ stage \in {"ask", "stt", "say"}
              THEN heard \cup {turn} ELSE heard
  /\ UNCHANGED <<vmode, s_busy, job, saved, offUser>>

-----------------------------------------------------------------------------
(* The job: solo_send_text_job and solo_send_audio_job.                    *)

offJob == <<vmode, mic, drain>>
Goto(st) == stage' = st /\ UNCHANGED <<kind, role, turn>>

\* The flag of a cancel that came while the job was queued is cleared here.
JobBegins ==
  /\ stage = "queued" /\ Goto(IF kind = "text" THEN "ask" ELSE "stt")
  /\ s_cancel_requested' = FALSE /\ s_state' = "PROCESSING"
  /\ UNCHANGED <<offJob, s_busy, s_tts_done, disk, buf, aux>>

\* The transcript is nice to have: its failure does not end the turn.
SttEnds ==
  /\ stage = "stt"
  /\ \/ s_cancel_requested /\ Goto("end") /\ UNCHANGED s_state
     \/ ~s_cancel_requested /\ Goto("say") /\ s_state' = "SPEAKING"
  /\ UNCHANGED <<offJob, s_busy, s_cancel_requested, s_tts_done, disk, buf, aux>>

\* Mutant: whether the turn is kept depends on the answer of the server alone.
AnswerEndsMutant ==
  /\ stage \in {"ask", "say"}
  /\ Goto("end") \/ Goto("load")
  /\ UNCHANGED <<offJob, s_state, s_busy, s_cancel_requested, s_tts_done, disk, buf, aux>>

\* openrouter_chat_stream and openrouter_chat_audio.
AnswerEnds ==
  /\ stage \in {"ask", "say"}
  /\ Goto("end") \/ (~s_cancel_requested /\ Goto("load"))
  /\ UNCHANGED <<offJob, s_state, s_busy, s_cancel_requested, s_tts_done, disk, buf, aux>>

\* Mutant: a text turn that failed keeps s_busy.
JobEndsMutant ==
  /\ stage = "end" /\ Goto("none") /\ s_state' = "READY" /\ s_cancel_requested' = FALSE
  /\ s_busy' = (kind = "text" /\ role = "user")
  /\ UNCHANGED <<offJob, s_tts_done, disk, buf, aux>>

JobEnds ==
  /\ stage = "end" /\ Goto("none")
  /\ s_state' = "READY" /\ s_cancel_requested' = FALSE /\ s_busy' = FALSE
  /\ UNCHANGED <<offJob, s_tts_done, disk, buf, aux>>

\* Mutant: the playback task is not told that no more audio comes.
HandoverMutant ==
  /\ stage = "handover" /\ Goto("none")
  /\ s_cancel_requested' = FALSE /\ s_busy' = FALSE
  /\ UNCHANGED <<offJob, s_state, s_tts_done, disk, buf, aux>>

\* A spoken answer leaves READY to the playback task.
Handover ==
  /\ stage = "handover" /\ Goto("none")
  /\ s_tts_done' = TRUE /\ s_cancel_requested' = FALSE /\ s_busy' = FALSE
  /\ UNCHANGED <<offJob, s_state, disk, buf, aux>>

\* voice_playback_drain_task: the ring is empty, the turn is over.
DrainSees ==
  /\ s_tts_done /\ drain = "wait" /\ s_tts_done' = FALSE /\ drain' = "ready"
  /\ UNCHANGED <<vmode, s_state, mic, s_busy, s_cancel_requested, job, disk, buf, aux>>
DrainReady ==
  /\ drain = "ready" /\ drain' = "wait" /\ s_state' = "READY"
  /\ UNCHANGED <<vmode, mic, s_busy, s_cancel_requested, job, s_tts_done, disk, buf, aux>>

-----------------------------------------------------------------------------
(* solo_session_append, for the user's entry and then for the answer; the  *)
(* job does not look at what it returns.                                   *)

offSave == <<vmode, s_state, mic, s_busy, s_cancel_requested, kind, turn, s_tts_done, drain,
             cancelled, heard>>
Appended ==
  IF role = "user" THEN role' = "assistant" /\ stage' = "load"
  ELSE role' = role /\ stage' = IF kind = "audio" THEN "handover" ELSE "end"

\* Mutant: the session file itself is opened for writing, as it once was.
LoadMutant ==
  /\ stage = "load"
  /\ \/ Appended /\ UNCHANGED <<file, buf>>
     \/ /\ file # Gone /\ stage' = "write" /\ UNCHANGED role
        /\ buf' = Contents(file) \cup {<<turn, role>>} /\ file' = Partial
  /\ UNCHANGED <<offSave, tmp, saved>>

\* Mutant: a session that cannot be loaded is begun anew.
LoadAnewMutant ==
  /\ stage = "load" /\ stage' = "write" /\ tmp' = Partial
  /\ \E known \in {Contents(file), {}} : buf' = known \cup {<<turn, role>>}
  /\ UNCHANGED <<offSave, role, file, saved>>

\* load_session fails, always so when there is no file; else .tmp is opened.
Load ==
  /\ stage = "load"
  /\ \/ Appended /\ UNCHANGED <<tmp, buf>>
     \/ /\ file # Gone /\ stage' = "write" /\ UNCHANGED role
        /\ buf' = file \cup {<<turn, role>>} /\ tmp' = Partial
  /\ UNCHANGED <<offSave, file, saved>>
Write ==
  /\ stage = "write"
  /\ \/ tmp' = buf /\ stage' = "unlink" /\ UNCHANGED role
     \/ tmp' = Gone /\ Appended
  /\ UNCHANGED <<offSave, file, buf, saved>>
Unlink ==
  /\ stage = "unlink" /\ file' = Gone /\ stage' = "rename"
  /\ UNCHANGED <<offSave, role, tmp, buf, saved>>
\* A rename that fails takes .tmp with it, and the history is lost.
Rename ==
  /\ stage = "rename" /\ tmp' = Gone /\ Appended
  /\ \/ file' = tmp /\ saved' = saved \cup {<<turn, role>>}
     \/ saved' = {} /\ UNCHANGED file
  /\ UNCHANGED <<offSave, buf>>

\* Power is lost; solo_session_open of the next boot creates a missing file.
PowerLoss ==
  /\ s_state' = "READY" /\ mic' = "off" /\ s_busy' = FALSE /\ s_cancel_requested' = FALSE
  /\ stage' = "none" /\ kind' = "text" /\ role' = "user" /\ s_tts_done' = FALSE
  /\ drain' = "wait" /\ buf' = {} /\ file' = Contents(file) /\ saved' = Contents(file)
  /\ UNCHANGED <<vmode, turn, tmp, cancelled, heard>>

JobNext ==
  \/ JobBegins \/ SttEnds \/ AnswerEnds \/ JobEnds \/ Handover
  \/ Load \/ Write \/ Unlink \/ Rename
UserNext == SetMode \/ SendText \/ StartMic \/ StopMic \/ VoiceCancel
SoloNext == JobNext \/ UserNext \/ DispatchAudio \/ DrainSees \/ DrainReady \/ PowerLoss

SoloFairness ==
  /\ WF_soloVars(JobNext) /\ WF_soloVars(DispatchAudio)
  /\ WF_soloVars(DrainSees) /\ WF_soloVars(DrainReady)
SoloSpec == SoloInit /\ [][SoloNext]_soloVars /\ SoloFairness

-----------------------------------------------------------------------------
\* A cancel that the job was told of while it waited for the transcript, the answer or
\* the speech keeps the turn out of the history (voice_solo.c:194, 378).  One that comes
\* during the appends, after the last look at the flag, is too late and does not count.
HeardNotKept == \A e \in Contents(file) \cup Contents(tmp) : e[1] \notin heard

\* Without a power loss and a failed rename no appended entry is ever missing from
\* both files, whatever else fails (solo_session_store.c:129-181).
RunKeepsHistory == saved \subseteq Contents(file) \/ saved \subseteq Contents(tmp)

\* What the file holds, or is about to hold when its replacement is complete.
Session == IF file = Gone THEN Contents(tmp) ELSE file

History == INSTANCE SessionLog WITH
             Turns <- 1..MaxTurns, log <- Session, replacing <- file = Gone

\* To a reader the two files and the copy in memory are one session that grows by
\* one entry at a time, in order, and that is lost only between the removal of the old
\* file and the rename, never cut or mixed up (solo_session_store.c:99-184).
ImplementsSession == History!Spec

\* No outcome of a turn leaves s_busy up, which would refuse every later turn
\* (voice_solo.c:221, 414, 422).
BusyEnds == s_busy ~> ~s_busy

\* Every turn takes the state back without the help of the stuck watchdog: the
\* job, the failed dispatch or the playback task does (voice_solo.c:403-408, 420).
TurnEnds == s_state \in Busy ~> s_state \notin Busy

\* voice_solo.c:191: "Persisting a canceled or partial reply to the session
\* pollutes the next turn's history."  No turn that was cancelled before its answer was
\* there is in the history.
CancelledNotKept == \A e \in Contents(file) : e[1] \notin cancelled
=============================================================================

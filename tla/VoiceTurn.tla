----------------------------- MODULE VoiceTurn -----------------------------
(***************************************************************************)
(* main/voice.c with main/voice_ws_proto.c: one conversation with Dragon.  *)
(* Tasks share the voice state: the WS client task (link events, frames of *)
(* Dragon), the LVGL task (commands of the user, the stuck watchdog), the  *)
(* shared worker (queued text, reopening the mic), the connector, the      *)
(* playback task and the mic task.  Modelled are ASK turns and typed text  *)
(* over Dragon; dictation, calls, the K144 and solo routes are left out.   *)
(* A step of a task ends at a network send, which may fail with the link   *)
(* up, at the stop of the client, before a write to the playback buffer    *)
(* and after voice_set_state has stored the state: its hooks, which take   *)
(* the queued text and reopen the mic, are steps of their own.             *)
(***************************************************************************)
EXTENDS Integers, Sequences

CONSTANTS
  MaxTexts,      \* bound on texts the user sends
  MaxCommands,   \* bound on commands of the user
  MaxLinks,      \* bound on tries to connect
  MaxFrames,     \* bound on frames from Dragon under way
  QueueDepth     \* TAB5_WORKER_QUEUE_DEPTH, the depth of the worker's queue

ASSUME TurnAssumption ==
  /\ MaxTexts \in Nat /\ MaxCommands \in Nat /\ MaxLinks \in Nat
  /\ MaxFrames \in Nat \ {0} /\ QueueDepth \in Nat \ {0}

VARIABLES
  s_state,
  after,             \* how far each task is in the hooks of voice_set_state(READY)
  s_conv_active,
  s_queued_text,     \* with s_queue_pending: the text waiting for READY, 0 for none
  jobs,              \* the worker's queue: texts to send, 0 for a relisten job
  cmd, cmd_text,     \* what a caller is in the middle of, and the text it sends
  s_mic_running, s_mic_event_sem, mic,
  playing,           \* the playback buffer is not empty
  s_tts_done,
  conn_req,          \* s_conn_args_dirty: the connector has a request
  restarting,        \* the connector is about to stop and start the client
  ws_pc,             \* the WS task is about to "write" audio or handles a "drop"
  link,              \* "off", "new" (the client was started), "down" (it retries),
                     \* "open" (handshake), "up" (connected), "session" (session_start
                     \* was handled)
  downlink,          \* frames from Dragon, oldest first
  dragon,            \* what Dragon is doing for this device
  texts, commands, links,   \* how many there were
  sent               \* auxiliary: how often each text went to Dragon

stateVars == <<s_state, after>>
talk == <<s_conv_active, s_queued_text, jobs>>
command == <<cmd, cmd_text>>
capture == <<s_mic_running, s_mic_event_sem, mic>>
audio == <<playing, s_tts_done>>
network == <<conn_req, restarting, ws_pc, link>>
remote == <<downlink, dragon>>
record == <<texts, commands, links, sent>>
turnVars == <<stateVars, talk, command, capture, audio, network, remote, record>>

Busy == {"PROCESSING", "SPEAKING"}
VoiceStates == {"IDLE", "CONNECTING", "READY", "LISTENING", "RECONNECTING"} \cup Busy
Tasks == {"ws", "ui", "worker", "play"}
Callers == {"ui", "worker"}
Texts == 1..MaxTexts
Frames == {"session_start", "stt", "llm", "tool_call", "llm_done", "tts_start", "audio",
           "tts_end", "error", "fatal"}
\* "started", "stopped", "cancelled" and "sending" are after the network send
\* of the command, "delay" is the relisten job before its last look, "text" is
\* voice_send_text after it cancelled a recording, and "closing" and "closed" are
\* voice_disconnect before and after it stopped the client: s_disconnecting.
Commands == {"none", "delay", "start", "started", "stop", "stopped", "cancel", "cancelled",
             "text", "queue", "send", "sending", "closing", "closed"}

TurnTypeOK ==
  /\ s_state \in VoiceStates /\ s_conv_active \in BOOLEAN
  /\ after \in [Tasks -> {"none", "check", "check_spoke", "take", "take_spoke"}]
  /\ s_queued_text \in Texts \cup {0}
  /\ jobs \in Seq(Texts \cup {0}) /\ Len(jobs) <= QueueDepth
  /\ cmd \in [Callers -> Commands] /\ cmd_text \in [Callers -> Texts \cup {0}]
  /\ s_mic_running \in BOOLEAN /\ s_mic_event_sem \in BOOLEAN
  /\ mic \in {"wait", "loop", "exit"}
  /\ playing \in BOOLEAN /\ s_tts_done \in BOOLEAN
  /\ conn_req \in BOOLEAN /\ restarting \in BOOLEAN /\ ws_pc \in {"none", "write", "drop"}
  /\ link \in {"off", "new", "down", "open", "up", "session"}
  /\ downlink \in Seq(Frames) /\ Len(downlink) <= MaxFrames
  /\ dragon \in {"gone", "register", "idle", "recording", "hearing", "thinking", "speaking"}
  /\ texts \in 0..MaxTexts /\ commands \in 0..MaxCommands /\ links \in 0..MaxLinks
  /\ sent \in [Texts -> Nat]

\* After voice_init.
TurnInit ==
  /\ s_state = "IDLE" /\ after = [t \in Tasks |-> "none"]
  /\ s_conv_active = FALSE /\ s_queued_text = 0 /\ jobs = <<>>
  /\ cmd = [c \in Callers |-> "none"] /\ cmd_text = [c \in Callers |-> 0]
  /\ s_mic_running = FALSE /\ s_mic_event_sem = FALSE /\ mic = "wait"
  /\ playing = FALSE /\ s_tts_done = FALSE
  /\ conn_req = FALSE /\ restarting = FALSE /\ ws_pc = "none" /\ link = "off"
  /\ downlink = <<>> /\ dragon = "gone"
  /\ texts = 0 /\ commands = 0 /\ links = 0 /\ sent = [x \in Texts |-> 0]

Connected == link \in {"up", "session"}
Disconnecting == cmd["ui"] \in {"closing", "closed"}

\* Whether voice_ws_send_text succeeds: never without a link, and with one unless
\* it takes more than a second or the frame finds no memory.
SendResults == {Connected, FALSE}

(* ---- voice_set_state ----------------------------------------------------*)
\* Task t stores the state; READY has hooks the task runs before anything else.
SetState(t, new) ==
  /\ s_state' = new
  /\ after' = [after EXCEPT ![t] =
                 IF new # "READY" THEN "none"
                 ELSE IF s_state = "SPEAKING" THEN "check_spoke" ELSE "check"]

Free(t) == after[t] = "none"
Room(q) == Len(q) < QueueDepth
\* Mutant: a full queue is not noticed.
EnqueueMutant(q, j) == Append(q, j)
\* tab5_worker_enqueue never waits: a full queue drops the job.
Enqueue(q, j) == IF Room(q) THEN Append(q, j) ELSE q

\* The last hook, given the worker's queue: from SPEAKING a conversation goes on
\* with a relisten job, or ends if the queue has no room for it.
Relisten(spoke, q) ==
  IF spoke /\ s_conv_active
  THEN jobs' = Enqueue(q, 0) /\ s_conv_active' = Room(q)
  ELSE jobs' = q /\ UNCHANGED s_conv_active

\* Is a text queued?  Read without the lock.
HookCheck(t) ==
  /\ after[t] \in {"check", "check_spoke"}
  /\ IF s_queued_text # 0
     THEN /\ after' = [after EXCEPT ![t] = IF @ = "check" THEN "take" ELSE "take_spoke"]
          /\ UNCHANGED talk
     ELSE /\ after' = [after EXCEPT ![t] = "none"]
          /\ Relisten(after[t] = "check_spoke", jobs) /\ UNCHANGED s_queued_text
  /\ UNCHANGED <<s_state, command, capture, audio, network, remote, record>>

\* Mutant: the text is handed over but not cleared.
HookTakeMutant(t) ==
  /\ after[t] \in {"take", "take_spoke"}
  /\ after' = [after EXCEPT ![t] = "none"]
  /\ Relisten(after[t] = "take_spoke",
              IF s_queued_text = 0 THEN jobs ELSE Enqueue(jobs, s_queued_text))
  /\ UNCHANGED <<s_queued_text, s_state, command, capture, audio, network, remote, record>>

\* Copy and clear the queued text under the lock and hand it to the worker.
HookTake(t) ==
  /\ after[t] \in {"take", "take_spoke"}
  /\ after' = [after EXCEPT ![t] = "none"]
  /\ s_queued_text' = 0
  /\ Relisten(after[t] = "take_spoke",
              IF s_queued_text = 0 THEN jobs ELSE Enqueue(jobs, s_queued_text))
  /\ UNCHANGED <<s_state, command, capture, audio, network, remote, record>>

\* Without memory for the copy the text is dropped, and no other hook runs.
HookDrops(t) ==
  /\ after[t] \in {"take", "take_spoke"}
  /\ after' = [after EXCEPT ![t] = "none"]
  /\ s_queued_text' = 0
  /\ UNCHANGED <<s_conv_active, jobs, s_state, command, capture, audio, network, remote, record>>

(* ---- commands, by the LVGL task and the worker --------------------------*)
At(c, pc) == Free(c) /\ cmd[c] = pc

\* The user asks for something once the last command has returned.
User ==
  /\ At("ui", "none") /\ commands < MaxCommands
  /\ commands' = commands + 1 /\ UNCHANGED <<links, sent>>

Goto(c, pc) == cmd' = [cmd EXCEPT ![c] = pc] /\ UNCHANGED cmd_text
Return(c) == cmd' = [cmd EXCEPT ![c] = "none"] /\ cmd_text' = [cmd_text EXCEPT ![c] = 0]

\* voice_start_listening up to the send of "start".
StartListening(c) ==
  /\ Connected /\ s_state = "READY"
  /\ s_conv_active' = TRUE
  /\ Goto(c, "start")
  /\ UNCHANGED <<s_queued_text, jobs, stateVars, capture, audio, network, remote>>

\* When the send fails the job, not voice_start_listening, ends the conversation.
SendStart(c) ==
  /\ At(c, "start")
  /\ \E ok \in SendResults :
       IF ok
       THEN /\ dragon' = IF dragon = "register" THEN dragon ELSE "recording"
            /\ Goto(c, "started") /\ UNCHANGED s_conv_active
       ELSE /\ Return(c)
            /\ s_conv_active' = (s_conv_active /\ c = "ui") /\ UNCHANGED dragon
  /\ UNCHANGED <<s_queued_text, jobs, stateVars, capture, audio, network, downlink, record>>

Started(c) ==
  /\ At(c, "started")
  /\ s_mic_running' = TRUE /\ s_mic_event_sem' = TRUE
  /\ SetState(c, "LISTENING")
  /\ Return(c)
  /\ UNCHANGED <<mic, talk, audio, network, remote, record>>

\* voice_stop_listening up to the send of "stop".
StopListening ==
  /\ User /\ s_state = "LISTENING"
  /\ s_mic_running' = FALSE
  /\ Goto("ui", "stop")
  /\ UNCHANGED <<s_mic_event_sem, mic, stateVars, talk, audio, network, remote, texts>>

SendStop ==
  /\ At("ui", "stop")
  /\ \E ok \in SendResults :
       IF ok
       THEN /\ dragon' = IF dragon = "recording" THEN "hearing" ELSE dragon
            /\ Goto("ui", "stopped") /\ UNCHANGED stateVars
       ELSE SetState("ui", "IDLE") /\ Return("ui") /\ UNCHANGED dragon
  /\ UNCHANGED <<talk, capture, audio, network, downlink, record>>

Stopped ==
  /\ At("ui", "stopped")
  /\ SetState("ui", "PROCESSING")
  /\ Return("ui")
  /\ UNCHANGED <<talk, capture, audio, network, remote, record>>

\* voice_cancel up to the send of "cancel": nothing in IDLE; the mic stops, the
\* conversation ends and the audio is thrown away.
CancelBegin ==
  /\ s_conv_active' = FALSE
  /\ s_mic_running' = FALSE
  /\ playing' = FALSE

Untouched == <<s_queued_text, s_mic_event_sem, mic, s_tts_done, stateVars, network, remote>>

Cancel ==
  /\ User /\ s_state # "IDLE"
  /\ CancelBegin /\ Goto("ui", "cancel")
  /\ UNCHANGED <<Untouched, jobs, texts>>

\* Mutant: a cancel always ends the command.
AfterCancelMutant(c) == "none"

\* A cancel inside voice_send_text goes on with the text.
AfterCancel(c) == IF cmd_text[c] = 0 THEN "none" ELSE "text"

\* With a link the cancel goes on as if it was sent.
SendCancel(c) ==
  /\ At(c, "cancel")
  /\ IF Connected
     THEN /\ dragon' \in {dragon, IF dragon = "register" THEN dragon ELSE "idle"}
          /\ Goto(c, "cancelled") /\ UNCHANGED stateVars
     ELSE /\ SetState(c, "IDLE") /\ Goto(c, AfterCancel(c))
          /\ UNCHANGED dragon
  /\ UNCHANGED <<talk, capture, audio, network, downlink, record>>

Cancelled(c) ==
  /\ At(c, "cancelled")
  /\ SetState(c, "READY") /\ Goto(c, AfterCancel(c))
  /\ UNCHANGED <<talk, capture, audio, network, remote, record>>

\* voice_send_text on the Dragon path: a recording is cancelled first, a busy
\* pipeline keeps the text for later.
TextGoes(c) == IF s_state \in Busy THEN "queue" ELSE "send"
SendText(c, x) ==
  /\ Connected
  /\ cmd_text' = [cmd_text EXCEPT ![c] = x]
  /\ cmd' = [cmd EXCEPT ![c] = IF s_state = "LISTENING" THEN "cancel" ELSE TextGoes(c)]
  /\ IF s_state = "LISTENING" THEN CancelBegin
     ELSE UNCHANGED <<s_conv_active, s_mic_running, playing>>
  /\ UNCHANGED Untouched

TypeText ==
  /\ User /\ texts < MaxTexts
  /\ texts' = texts + 1
  /\ SendText("ui", texts')
  /\ UNCHANGED jobs

TextAgain(c) ==
  /\ At(c, "text")
  /\ Goto(c, TextGoes(c))
  /\ UNCHANGED <<stateVars, talk, capture, audio, network, remote, record>>

\* The slot holds one text: a later one takes its place.
QueueText(c) ==
  /\ At(c, "queue")
  /\ s_queued_text' = cmd_text[c]
  /\ Return(c)
  /\ UNCHANGED <<s_conv_active, jobs, stateVars, capture, audio, network, remote, record>>

\* A send that fails drops the text.
SendTextFrame(c) ==
  /\ At(c, "send")
  /\ \E ok \in SendResults :
       IF ok
       THEN /\ sent' = [sent EXCEPT ![cmd_text[c]] = @ + 1]
            /\ dragon' = IF dragon = "register" THEN dragon ELSE "thinking"
            /\ Goto(c, "sending")
       ELSE Return(c) /\ UNCHANGED <<sent, dragon>>
  /\ UNCHANGED <<texts, commands, links, stateVars, talk, capture, audio, network, downlink>>

TextSent(c) ==
  /\ At(c, "sending")
  /\ SetState(c, "PROCESSING")
  /\ Return(c)
  /\ UNCHANGED <<talk, capture, audio, network, remote, record>>

UserStarts == User /\ StartListening("ui") /\ UNCHANGED texts

(* ---- the worker's jobs --------------------------------------------------*)
\* _drain_queued_text_job; a text it cannot send is lost.
DrainJob ==
  /\ At("worker", "none") /\ jobs # <<>> /\ Head(jobs) # 0
  /\ jobs' = Tail(jobs)
  /\ IF Connected THEN SendText("worker", Head(jobs))
     ELSE UNCHANGED <<Untouched, command, s_conv_active, s_mic_running, playing>>
  /\ UNCHANGED record

\* _conv_relisten_job: not for an ended conversation; then a short pause.
RelistenJob ==
  /\ At("worker", "none") /\ jobs # <<>> /\ Head(jobs) = 0
  /\ jobs' = Tail(jobs)
  /\ IF s_conv_active THEN Goto("worker", "delay") ELSE UNCHANGED command
  /\ UNCHANGED <<s_conv_active, s_queued_text, stateVars, capture, audio, network, remote, record>>

\* After the pause the mic opens if the session is still ready for it.
RelistenStarts ==
  /\ At("worker", "delay") /\ s_conv_active
  /\ StartListening("worker") /\ UNCHANGED record

RelistenBails ==
  /\ At("worker", "delay")
  /\ ~s_conv_active \/ ~Connected \/ s_state # "READY"
  /\ s_conv_active' = FALSE
  /\ Return("worker")
  /\ UNCHANGED <<s_queued_text, jobs, stateVars, capture, audio, network, remote, record>>
(* ---- playback and microphone tasks --------------------------------------*)
\* playback_drain_task plays the buffer to its end...
Drain ==
  /\ Free("play") /\ playing
  /\ playing' = FALSE
  /\ UNCHANGED <<s_tts_done, stateVars, talk, command, capture, network, remote, record>>

\* ...and ends the turn once Dragon said that nothing follows.
DrainDone ==
  /\ Free("play") /\ ~playing /\ s_tts_done
  /\ s_tts_done' = FALSE
  /\ SetState("play", "READY")
  /\ UNCHANGED <<playing, talk, command, capture, network, remote, record>>

\* mic_capture_task: a session only if the flag is still set and the link is up.
MicWake ==
  /\ mic = "wait" /\ s_mic_event_sem
  /\ s_mic_event_sem' = FALSE
  /\ mic' = IF ~s_mic_running THEN "wait" ELSE IF Connected THEN "loop" ELSE "exit"
  /\ UNCHANGED <<s_mic_running, stateVars, talk, command, audio, network, remote, record>>

\* The session was stopped, or its send failed.
MicLeaves ==
  /\ mic = "loop" /\ (~s_mic_running \/ ~Connected)
  /\ mic' = "exit"
  /\ UNCHANGED <<s_mic_running, s_mic_event_sem, stateVars, talk, command, audio, network, remote,
                 record>>

\* MAX_RECORD_FRAMES_ASK was reached.
MicMaxDuration ==
  /\ mic = "loop"
  /\ mic' = "exit"
  /\ s_state' = "LISTENING"   \* voice_set_state, without hooks
  /\ UNCHANGED <<after, s_mic_running, s_mic_event_sem, talk, command, audio, network, remote, record>>

MicExit ==
  /\ mic = "exit"
  /\ mic' = "wait" /\ s_mic_running' = FALSE
  /\ UNCHANGED <<s_mic_event_sem, stateVars, talk, command, audio, network, remote, record>>

(* ---- the link -----------------------------------------------------------*)
WsIdle == Free("ws") /\ ws_pc = "none"

\* voice_connect_async; with auto_listen it also starts a turn, which is left out.
ConnectAsync ==
  /\ User /\ ~Connected
  /\ SetState("ui", "CONNECTING")
  /\ conn_req' = TRUE
  /\ UNCHANGED <<restarting, ws_pc, link, talk, command, capture, audio, remote, texts>>

\* async_connect_task takes the request: voice_connect refuses it while a disconnect
\* is under way and has nothing to do with a link.
Connector ==
  /\ conn_req /\ conn_req' = FALSE /\ ~restarting
  /\ IF Connected \/ Disconnecting THEN UNCHANGED <<s_state, restarting>>
     ELSE s_state' = "CONNECTING" /\ restarting' = TRUE
  /\ UNCHANGED <<after, ws_pc, link, talk, command, capture, audio, remote, record>>

\* voice_ws_start_client stops a client that runs, which waits for the WS task and
\* takes a link that has come up meanwhile, and starts it again.
StartClient ==
  /\ restarting /\ restarting' = FALSE
  /\ WsIdle
  /\ link' = "new" /\ downlink' = <<>> /\ dragon' = "gone"
  /\ UNCHANGED <<conn_req, ws_pc, stateVars, talk, command, capture, audio, record>>

\* voice_disconnect up to the stop of the client...
Disconnect ==
  /\ User
  /\ s_conv_active' = FALSE /\ s_mic_running' = FALSE
  /\ Goto("ui", "closing")
  /\ UNCHANGED <<s_queued_text, jobs, stateVars, s_mic_event_sem, mic, audio, network, remote,
                 texts>>

\* ...which waits for the WS task...
StopClient ==
  /\ At("ui", "closing") /\ WsIdle
  /\ link' = "off" /\ downlink' = <<>> /\ dragon' = "gone"
  /\ Goto("ui", "closed")
  /\ UNCHANGED <<conn_req, restarting, ws_pc, stateVars, talk, capture, audio, record>>

\* ...and the rest.
Disconnected ==
  /\ At("ui", "closed")
  /\ playing' = FALSE
  /\ SetState("ui", "IDLE")
  /\ Return("ui")
  /\ UNCHANGED <<s_tts_done, talk, capture, network, remote, record>>

\* WEBSOCKET_EVENT_BEFORE_CONNECT
BeforeConnect ==
  /\ WsIdle /\ link \in {"new", "down"} /\ links < MaxLinks
  /\ links' = links + 1
  /\ link' = "open"
  /\ SetState("ws", "CONNECTING")
  /\ UNCHANGED <<conn_req, restarting, ws_pc, talk, command, capture, audio, remote, texts, commands,
                 sent>>

\* WEBSOCKET_EVENT_CONNECTED: register with Dragon; the state waits for its answer.
WsConnected ==
  /\ WsIdle /\ link = "open"
  /\ link' = "up" /\ dragon' = "register"
  /\ UNCHANGED <<conn_req, restarting, ws_pc, downlink, stateVars, talk, command, capture, audio,
                 record>>

LinkLost ==
  /\ WsIdle
  /\ link' = "down" /\ downlink' = <<>> /\ dragon' = "gone"
  /\ ws_pc' = "drop"
  /\ UNCHANGED <<conn_req, restarting, stateVars, talk, command, capture, record>>

\* WEBSOCKET_EVENT_DISCONNECTED flushes the audio, WEBSOCKET_EVENT_CLOSED does not.
WsDisconnected ==
  /\ link = "open" \/ Connected
  /\ LinkLost /\ playing' = FALSE /\ UNCHANGED s_tts_done

\* Mutant: a closed link leaves the state alone.
WsClosedMutant ==
  /\ WsIdle /\ Connected
  /\ link' = "down" /\ downlink' = <<>> /\ dragon' = "gone"
  /\ UNCHANGED <<conn_req, restarting, ws_pc, stateVars, talk, command, capture, audio, record>>

WsClosed == Connected /\ LinkLost /\ UNCHANGED audio

\* Both end with the state, which depends on the Wi-Fi.
WsDropped ==
  /\ Free("ws") /\ ws_pc = "drop"
  /\ ws_pc' = "none"
  /\ \E new \in (IF Disconnecting THEN {"IDLE"} ELSE {"RECONNECTING", "IDLE"}) : SetState("ws", new)
  /\ UNCHANGED <<conn_req, restarting, link, talk, command, capture, audio, remote, record>>

(* ---- frames from Dragon -------------------------------------------------*)
Frame(type) ==
  /\ WsIdle /\ Connected
  /\ downlink # <<>> /\ Head(downlink) = type /\ downlink' = Tail(downlink)
  /\ UNCHANGED <<dragon, conn_req, restarting, talk, command, capture, record>>

SessionStart ==
  /\ Frame("session_start")
  /\ link' = "session"
  /\ IF s_state = "CONNECTING" THEN SetState("ws", "READY") ELSE UNCHANGED stateVars
  /\ UNCHANGED <<ws_pc, audio>>

\* stt and tool_call show PROCESSING in any state, llm only in a turn.
Progress ==
  /\ \/ Frame("stt") \/ Frame("tool_call")
     \/ Frame("llm") /\ s_state \in Busy
  /\ SetState("ws", "PROCESSING")
  /\ UNCHANGED <<ws_pc, link, audio>>

LateLlm == Frame("llm") /\ s_state \notin Busy /\ UNCHANGED <<stateVars, ws_pc, link, audio>>

LlmDone ==
  /\ Frame("llm_done")
  /\ IF s_state = "PROCESSING" THEN SetState("ws", "READY") ELSE UNCHANGED stateVars
  /\ UNCHANGED <<ws_pc, link, audio>>

TtsStart ==
  /\ Frame("tts_start")
  /\ playing' = FALSE /\ UNCHANGED s_tts_done
  /\ SetState("ws", "SPEAKING")
  /\ UNCHANGED <<ws_pc, link>>

TtsEnd == Frame("tts_end") /\ s_tts_done' = TRUE /\ UNCHANGED <<playing, stateVars, ws_pc, link>>

\* handle_binary: outside a turn it drops the audio, the first of a turn starts it.
Audio ==
  /\ Frame("audio")
  /\ ws_pc' = IF s_state \in Busy THEN "write" ELSE "none"
  /\ IF s_state = "PROCESSING" THEN SetState("ws", "SPEAKING") /\ playing' = FALSE
     ELSE UNCHANGED <<stateVars, playing>>
  /\ UNCHANGED <<s_tts_done, link>>

WriteAudio ==
  /\ Free("ws") /\ ws_pc = "write"
  /\ ws_pc' = "none" /\ playing' = TRUE
  /\ UNCHANGED <<s_tts_done, conn_req, restarting, link, stateVars, talk, command, capture, remote,
                 record>>

\* A fatal error also throws the audio away.
ErrorFrame ==
  /\ \/ Frame("error") /\ UNCHANGED playing
     \/ Frame("fatal") /\ playing' = FALSE
  /\ SetState("ws", "READY")
  /\ UNCHANGED <<s_tts_done, ws_pc, link>>

(* ---- Dragon, as the frames it sends show it -----------------------------*)
\* In state now Dragon may send type and go on in state next.
DragonMoves ==
  [ register  |-> {<<"session_start", "idle">>},
    hearing   |-> {<<"stt", "thinking">>, <<"error", "idle">>, <<"fatal", "idle">>},
    thinking  |-> {<<"llm", "thinking">>, <<"tool_call", "thinking">>, <<"llm_done", "idle">>,
                   <<"tts_start", "speaking">>, <<"error", "idle">>},
    speaking  |-> {<<"audio", "speaking">>, <<"llm", "speaking">>, <<"llm_done", "speaking">>,
                   <<"tts_end", "idle">>} ]

Dragon ==
  /\ Connected /\ dragon \in DOMAIN DragonMoves /\ Len(downlink) < MaxFrames
  /\ \E move \in DragonMoves[dragon] :
       downlink' = Append(downlink, move[1]) /\ dragon' = move[2]
  /\ UNCHANGED <<stateVars, talk, command, capture, audio, network, record>>

TurnNext ==
  \/ \E t \in Tasks : HookCheck(t) \/ HookTake(t) \/ HookDrops(t)
  \/ \E c \in Callers : \/ SendStart(c) \/ Started(c) \/ SendCancel(c) \/ Cancelled(c)
                        \/ TextAgain(c) \/ QueueText(c) \/ SendTextFrame(c) \/ TextSent(c)
  \/ UserStarts \/ StopListening \/ SendStop \/ Stopped \/ Cancel \/ TypeText
  \/ DrainJob \/ RelistenJob \/ RelistenStarts \/ RelistenBails
  \/ Drain \/ DrainDone \/ MicWake \/ MicLeaves \/ MicMaxDuration \/ MicExit
  \/ ConnectAsync \/ Connector \/ StartClient \/ Disconnect \/ StopClient \/ Disconnected
  \/ BeforeConnect \/ WsConnected
  \/ WsDisconnected \/ WsClosed \/ WsDropped
  \/ SessionStart \/ Progress \/ LateLlm \/ LlmDone \/ TtsStart \/ TtsEnd
  \/ Audio \/ WriteAudio \/ ErrorFrame \/ Dragon

TurnSpec == TurnInit /\ [][TurnNext]_turnVars

(* ---- properties ---------------------------------------------------------*)
\* A text goes to Dragon at most once, although any task that sets READY may
\* find it queued (voice.c:476-495) and the drain sends it from the worker.
TextSentOnce == \A x \in Texts : sent[x] <= 1

Has(q, x) == \E i \in 1..Len(q) : q[i] = x

\* The text caller c still has to send, 0 for none.
Held(c) == IF cmd[c] = "sending" THEN 0 ELSE cmd_text[c]

\* The text waits in the slot, in the worker's queue or with a caller.
Waits(x) == s_queued_text = x \/ Has(jobs, x) \/ \E c \in Callers : Held(c) = x

Delivery == INSTANCE TextDelivery WITH
              typed <- 1..texts,
              waiting <- {x \in Texts : Waits(x)},
              delivered <- {x \in Texts : sent[x] > 0}

\* However a text is handed from task to task (G1, the drain of voice.c:476-495),
\* it is one text: it goes from waiting to sent once, and what was lost, sent or
\* never typed does not come back.
ImplementsDelivery == Delivery!Spec

\* A text is lost in three places only (voice.c:2437, 2466-2484 and 478-495): at its
\* own send, which fails; in a job that finds no link; in the slot, to a later text,
\* a full queue or a lack of memory.  A cancel, an error frame, a lost link or a
\* disconnect never takes it from anywhere else.
SendFailed(x) == \E c \in Callers : cmd_text[c] = x /\ cmd[c] = "send" /\ cmd'[c] = "none"
JobFailed(x) == ~Connected /\ jobs # <<>> /\ Head(jobs) = x
SlotGivenUp(x) ==
  /\ s_queued_text = x
  /\ s_queued_text' # 0 \/ \E t \in Tasks : after[t] \in {"take", "take_spoke"} /\ after'[t] = "none"

LostForCause ==
  [][\A x \in Texts :
       Waits(x) /\ ~Waits(x)' /\ sent'[x] = sent[x] =>
         SendFailed(x) \/ JobFailed(x) \/ SlotGivenUp(x)]_turnVars

\* SPEAKING needs a live link and RECONNECTING a client that waits for its next try
\* (voice_ws_proto.c:1592 and 1750), whatever the other tasks store in between.
\* The two exceptions are the moments between the stop of the client and the state
\* that is stored for it: by voice_disconnect, and by the client started anew.
StateFitsLink ==
  /\ s_state = "SPEAKING" => Connected \/ ws_pc = "drop" \/ link = "new" \/ cmd["ui"] = "closed"
  /\ s_state = "RECONNECTING" => link \in {"down", "new"} \/ cmd["ui"] = "closed"
=============================================================================

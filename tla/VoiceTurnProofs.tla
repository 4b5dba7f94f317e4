-------------------------- MODULE VoiceTurnProofs --------------------------
(***************************************************************************)
(* Three invariants of VoiceTurn, for any number of texts, commands,       *)
(* connections and frames and any depth of the worker's queue.  Types: the *)
(* flags and the other variables keep theirs apart from each other, so     *)
(* TurnTypeOK is cut in two.  The link: SPEAKING and RECONNECTING agree    *)
(* with it; only the WS task stores these two states, and every step that  *)
(* takes the link away is its own or waits for it, so the strengthening    *)
(* says where the link is while that task is between a loss and the state  *)
(* it stores for it, and no step but the last ends a disconnect.           *)
(***************************************************************************)
EXTENDS VoiceTurn, TLAPS

Hooks == {"none", "check", "check_spoke", "take", "take_spoke"}
Jobs == {q \in Seq(Texts \cup {0}) : Len(q) <= QueueDepth}
Downlinks == {q \in Seq(Frames) : Len(q) <= MaxFrames}

FlagType ==
  /\ s_conv_active \in BOOLEAN /\ s_mic_running \in BOOLEAN /\ s_mic_event_sem \in BOOLEAN
  /\ playing \in BOOLEAN /\ s_tts_done \in BOOLEAN /\ conn_req \in BOOLEAN
  /\ restarting \in BOOLEAN

DataType ==
  /\ s_state \in VoiceStates /\ after \in [Tasks -> Hooks]
  /\ s_queued_text \in Texts \cup {0} /\ jobs \in Jobs
  /\ cmd \in [Callers -> Commands] /\ cmd_text \in [Callers -> Texts \cup {0}]
  /\ mic \in {"wait", "loop", "exit"}
  /\ ws_pc \in {"none", "write", "drop"}
  /\ link \in {"off", "new", "down", "open", "up", "session"}
  /\ downlink \in Downlinks
  /\ dragon \in {"gone", "register", "idle", "recording", "hearing", "thinking", "speaking"}
  /\ texts \in 0..MaxTexts /\ commands \in 0..MaxCommands /\ links \in 0..MaxLinks
  /\ sent \in [Texts -> Nat]

LEMMA TypeParts == TurnTypeOK <=> FlagType /\ DataType
  BY Zenon DEF TurnTypeOK, FlagType, DataType, Hooks, Jobs, Downlinks

(* ---- the two queues -----------------------------------------------------*)
\* A job is appended only where there is room for it.
LEMMA EnqueueType ==
  ASSUME NEW q \in Jobs, NEW j \in Texts \cup {0}
  PROVE  Enqueue(q, j) \in Jobs
  <1> DEFINE S == Texts \cup {0}
  <1>1. q \in Seq(S) /\ j \in S /\ Len(q) <= QueueDepth
    BY DEF Jobs
  <1> HIDE DEF S
  <1>2. Len(q) \in Nat /\ Append(q, j) \in Seq(S) /\ Len(Append(q, j)) = Len(q) + 1
    BY <1>1
  <1> QED BY <1>1, <1>2, TurnAssumption DEF Enqueue, Room, Jobs, S

LEMMA TailType ==
  ASSUME jobs \in Jobs, jobs # <<>>
  PROVE  Tail(jobs) \in Jobs /\ Head(jobs) \in Texts \cup {0}
  <1> DEFINE S == Texts \cup {0}
  <1>1. jobs \in Seq(S) /\ Len(jobs) <= QueueDepth /\ QueueDepth \in Nat
    BY TurnAssumption DEF Jobs
  <1> HIDE DEF S
  <1>2. /\ Len(jobs) \in Nat /\ Tail(jobs) \in Seq(S) /\ Len(Tail(jobs)) = Len(jobs) - 1
        /\ Head(jobs) \in S
    BY <1>1
  <1> QED BY <1>1, <1>2 DEF S, Jobs

\* Handling a frame takes it off the queue of frames.
LEMMA FrameType ==
  ASSUME DataType, NEW type, Frame(type)
  PROVE  downlink' \in Downlinks
  <1>1. downlink \in Seq(Frames) /\ Len(downlink) <= MaxFrames /\ downlink # <<>>
        /\ downlink' = Tail(downlink)
    BY DEF DataType, Downlinks, Frame
  <1>2. Tail(downlink) \in Seq(Frames) /\ Len(Tail(downlink)) = Len(downlink) - 1
        /\ Len(downlink) \in Nat
    BY <1>1
  <1> QED BY <1>1, <1>2, TurnAssumption DEF Downlinks

(* ---- the flags ----------------------------------------------------------*)
LEMMA RelistenFlag ==
  ASSUME FlagType, NEW spoke, NEW q, Relisten(spoke, q)
  PROVE  s_conv_active' \in BOOLEAN
  <1>1. Room(q) \in BOOLEAN
    BY DEF Room
  <1> QED BY <1>1, Zenon DEF FlagType, Relisten

LEMMA FlagStep ==
  ASSUME FlagType, TurnNext
  PROVE  FlagType'
  <1> USE DEF FlagType, stateVars, talk, command, capture, audio, network, remote, record
  <1>1. ASSUME NEW t \in Tasks, HookCheck(t) \/ HookTake(t) \/ HookDrops(t)
        PROVE  FlagType'
    <2>1. s_conv_active' \in BOOLEAN
      BY <1>1, RelistenFlag, Zenon DEF HookCheck, HookTake, HookDrops
    <2> QED BY <1>1, <2>1, Zenon DEF HookCheck, HookTake, HookDrops
  <1>2. ASSUME NEW c \in Callers,
               SendStart(c) \/ Started(c) \/ SendCancel(c) \/ Cancelled(c)
        PROVE  FlagType'
    BY <1>2, Zenon DEF SendStart, Started, SendCancel, Cancelled
  <1>3. ASSUME NEW c \in Callers,
               TextAgain(c) \/ QueueText(c) \/ SendTextFrame(c) \/ TextSent(c)
        PROVE  FlagType'
    BY <1>3, Zenon DEF TextAgain, QueueText, SendTextFrame, TextSent
  <1>4. CASE UserStarts \/ StopListening \/ SendStop \/ Stopped \/ Cancel \/ TypeText
    BY <1>4, Zenon DEF UserStarts, StartListening, StopListening, SendStop, Stopped, Cancel,
       CancelBegin, TypeText, SendText, Untouched
  <1>5. CASE DrainJob \/ RelistenJob \/ RelistenStarts \/ RelistenBails
    BY <1>5, Zenon DEF DrainJob, SendText, CancelBegin, Untouched, RelistenJob, RelistenStarts,
       StartListening, RelistenBails
  <1>6. CASE Drain \/ DrainDone \/ MicWake \/ MicLeaves \/ MicMaxDuration \/ MicExit
    BY <1>6, Zenon DEF Drain, DrainDone, MicWake, MicLeaves, MicMaxDuration, MicExit
  <1>7. CASE ConnectAsync \/ Connector \/ StartClient \/ Disconnect \/ StopClient \/ Disconnected
             \/ BeforeConnect \/ WsConnected
    BY <1>7, Zenon DEF ConnectAsync, Connector, StartClient, Disconnect, StopClient, Disconnected,
       BeforeConnect, WsConnected
  <1>8. CASE WsDisconnected \/ WsClosed \/ WsDropped
    BY <1>8, Zenon DEF WsDisconnected, WsClosed, WsDropped, LinkLost
  <1>9. CASE SessionStart \/ Progress \/ LateLlm \/ LlmDone \/ TtsStart \/ TtsEnd
    BY <1>9, Zenon DEF SessionStart, Progress, LateLlm, LlmDone, TtsStart, TtsEnd, Frame
  <1>10. CASE Audio \/ WriteAudio \/ ErrorFrame \/ Dragon
    BY <1>10, Zenon DEF Audio, WriteAudio, ErrorFrame, Dragon, Frame
  <1> QED BY <1>1, <1>2, <1>3, <1>4, <1>5, <1>6, <1>7, <1>8, <1>9, <1>10, Zenon DEF TurnNext

(* ---- the other variables ------------------------------------------------*)
\* voice_set_state stores a state, and READY starts the hooks of its task.
LEMMA StoreType ==
  ASSUME DataType, NEW t \in Tasks, NEW new \in VoiceStates, SetState(t, new)
  PROVE  s_state' \in VoiceStates /\ after' \in [Tasks -> Hooks]
  BY DEF DataType, Hooks, SetState

LEMMA RelistenType ==
  ASSUME NEW spoke, NEW q \in Jobs, Relisten(spoke, q)
  PROVE  jobs' \in Jobs
  BY EnqueueType, Zenon DEF Relisten

LEMMA HookData ==
  ASSUME DataType, NEW t \in Tasks, HookCheck(t) \/ HookTake(t) \/ HookDrops(t)
  PROVE  DataType'
  <1> USE DEF talk, command, capture, audio, network, remote, record
  <1>1. after' \in [Tasks -> Hooks]
    BY DEF DataType, Hooks, HookCheck, HookTake, HookDrops
  <1>2. jobs' \in Jobs
    <2>1. (IF s_queued_text = 0 THEN jobs ELSE Enqueue(jobs, s_queued_text)) \in Jobs
      BY EnqueueType DEF DataType
    <2>2. jobs \in Jobs
      BY DEF DataType
    <2> QED BY <2>1, <2>2, RelistenType, Zenon DEF HookCheck, HookTake, HookDrops
  <1>3. s_queued_text' \in Texts \cup {0}
    BY DEF DataType, HookCheck, HookTake, HookDrops
  <1> QED BY <1>1, <1>2, <1>3 DEF DataType, HookCheck, HookTake, HookDrops

LEMMA CommandData ==
  ASSUME DataType,
         \/ \E c \in Callers : \/ SendStart(c) \/ Started(c) \/ SendCancel(c) \/ Cancelled(c)
                               \/ TextAgain(c) \/ QueueText(c) \/ SendTextFrame(c) \/ TextSent(c)
         \/ UserStarts \/ StopListening \/ SendStop \/ Stopped \/ Cancel \/ TypeText
  PROVE  DataType'
  <1> USE TurnAssumption
      DEF DataType, Hooks, stateVars, talk, command, capture, audio, network, remote, record,
          Goto, Return, User, At, VoiceStates, Busy, Tasks, Callers, Commands, SetState,
          AfterCancel, TextGoes
  <1>1. ASSUME NEW c \in Callers, SendStart(c) \/ Started(c) \/ SendCancel(c) \/ Cancelled(c)
        PROVE  DataType'
    BY <1>1 DEF SendStart, Started, SendCancel, Cancelled
  <1>2. ASSUME NEW c \in Callers,
               TextAgain(c) \/ QueueText(c) \/ SendTextFrame(c) \/ TextSent(c)
        PROVE  DataType'
    BY <1>2 DEF TextAgain, QueueText, SendTextFrame, TextSent
  <1>3. CASE UserStarts \/ StopListening \/ SendStop \/ Stopped \/ Cancel
    BY <1>3 DEF UserStarts, StartListening, StopListening, SendStop, Stopped, Cancel, Untouched
  <1>4. CASE TypeText
    <2>1. texts' \in Texts /\ texts' \in 0..MaxTexts
      BY <1>4 DEF TypeText, Texts
    <2> QED BY <1>4, <2>1 DEF TypeText, SendText, Untouched
  <1> QED BY <1>1, <1>2, <1>3, <1>4, Zenon

LEMMA TaskData ==
  ASSUME DataType,
         \/ DrainJob \/ RelistenJob \/ RelistenStarts \/ RelistenBails
         \/ Drain \/ DrainDone \/ MicWake \/ MicLeaves \/ MicMaxDuration \/ MicExit
         \/ ConnectAsync \/ Connector \/ StartClient \/ Disconnect \/ StopClient \/ Disconnected
         \/ BeforeConnect \/ WsConnected \/ WsDisconnected \/ WsClosed \/ WsDropped
  PROVE  DataType'
  <1> USE TurnAssumption
      DEF DataType, Hooks, stateVars, talk, command, capture, audio, network, remote, record,
          Goto, Return, User, At, VoiceStates, Tasks, Callers, Commands, SetState
  <1>1. CASE DrainJob
    <2>1. Head(jobs) \in Texts \cup {0} /\ jobs' \in Jobs
      BY <1>1, TailType DEF DrainJob
    <2> QED BY <1>1, <2>1 DEF DrainJob, SendText, TextGoes, Untouched
  <1>2. CASE RelistenJob
    <2>1. jobs' \in Jobs
      BY <1>2, TailType DEF RelistenJob
    <2> QED BY <1>2, <2>1 DEF RelistenJob
  <1>3. CASE RelistenStarts \/ RelistenBails
    BY <1>3 DEF RelistenStarts, StartListening, RelistenBails
  <1>4. CASE Drain \/ DrainDone \/ MicWake \/ MicLeaves \/ MicMaxDuration \/ MicExit
    BY <1>4 DEF Drain, DrainDone, MicWake, MicLeaves, MicMaxDuration, MicExit
  <1>5. <<>> \in Downlinks
    BY DEF Downlinks
  <1>6. CASE ConnectAsync \/ Connector \/ StartClient \/ BeforeConnect \/ WsConnected
    BY <1>5, <1>6 DEF ConnectAsync, Connector, StartClient, BeforeConnect, WsConnected
  <1>8. CASE Disconnect \/ StopClient \/ Disconnected
    BY <1>5, <1>8 DEF Disconnect, StopClient, Disconnected
  <1>7. CASE WsDisconnected \/ WsClosed \/ WsDropped
    BY <1>5, <1>7 DEF WsDisconnected, WsClosed, WsDropped, LinkLost
  <1> QED BY <1>1, <1>2, <1>3, <1>4, <1>6, <1>7, <1>8

LEMMA FrameData ==
  ASSUME DataType,
         \/ SessionStart \/ Progress \/ LateLlm \/ LlmDone \/ TtsStart \/ TtsEnd
         \/ Audio \/ WriteAudio \/ ErrorFrame
  PROVE  DataType'
  <1> USE DEF stateVars, talk, command, capture, audio, network, remote, record
  <1>1. {"READY", "PROCESSING", "SPEAKING"} \subseteq VoiceStates /\ "ws" \in Tasks
    BY DEF VoiceStates, Busy, Tasks
  <1>2. s_state' \in VoiceStates /\ after' \in [Tasks -> Hooks]
    BY <1>1, StoreType
       DEF DataType, SessionStart, Progress, LateLlm, LlmDone, TtsStart, TtsEnd, Audio,
           WriteAudio, ErrorFrame
  <1>3. downlink' \in Downlinks
    BY FrameType
       DEF DataType, SessionStart, Progress, LateLlm, LlmDone, TtsStart, TtsEnd, Audio,
           WriteAudio, ErrorFrame
  <1> QED BY <1>2, <1>3
       DEF DataType, SessionStart, Progress, LateLlm, LlmDone, TtsStart, TtsEnd, Audio,
           WriteAudio, ErrorFrame, Frame

\* Dragon sends a frame while there is room for it.
LEMMA DragonData ==
  ASSUME DataType, Dragon
  PROVE  DataType'
  <1>1. PICK move \in DragonMoves[dragon] :
          downlink' = Append(downlink, move[1]) /\ dragon' = move[2]
    BY DEF Dragon
  <1>2. /\ move[1] \in Frames
        /\ move[2] \in {"idle", "thinking", "speaking"}
    BY DEF Dragon, DragonMoves, Frames
  <1>3. downlink \in Seq(Frames) /\ Len(downlink) < MaxFrames
    BY DEF Dragon, DataType, Downlinks
  <1>4. Append(downlink, move[1]) \in Seq(Frames)
        /\ Len(Append(downlink, move[1])) = Len(downlink) + 1 /\ Len(downlink) \in Nat
    BY <1>2, <1>3
  <1>5. downlink' \in Downlinks
    BY <1>1, <1>3, <1>4, TurnAssumption DEF Downlinks
  <1> QED BY <1>1, <1>2, <1>5
       DEF DataType, Dragon, stateVars, talk, command, capture, audio, network, record

(* ---- the theorem --------------------------------------------------------*)
LEMMA DataStep ==
  ASSUME DataType, TurnNext
  PROVE  DataType'
  BY HookData, CommandData, TaskData, FrameData, DragonData, Zenon DEF TurnNext

LEMMA TypeInit == TurnInit => TurnTypeOK
  <1> SUFFICES ASSUME TurnInit PROVE TurnTypeOK
    OBVIOUS
  <1>1. FlagType
    BY Zenon DEF TurnInit, FlagType
  <1>2. <<>> \in Jobs /\ <<>> \in Downlinks
    BY TurnAssumption DEF Jobs, Downlinks
  <1>3. DataType
    BY <1>2, TurnAssumption DEF TurnInit, DataType, Hooks, VoiceStates, Commands
  <1> QED BY <1>1, <1>3, TypeParts

\* Every variable keeps its type, for every value of the constants: the worker's
\* queue stays within its depth (tab5_worker_enqueue), and what is queued, in a job or in
\* a command is a text or nothing.
THEOREM TurnTypeSafe == TurnSpec => []TurnTypeOK
  <1>1. TurnInit => FlagType /\ DataType
    BY TypeInit, TypeParts
  <1>2. ASSUME FlagType, DataType, TurnNext PROVE FlagType' /\ DataType'
    BY <1>2, FlagStep, DataStep
  <1>3. ASSUME FlagType, DataType, UNCHANGED turnVars PROVE FlagType' /\ DataType'
    <2> USE DEF turnVars, stateVars, talk, command, capture, audio, network, remote, record
    <2>1. FlagType'
      BY <1>3, Zenon DEF FlagType
    <2>2. DataType'
      BY <1>3 DEF DataType
    <2> QED BY <2>1, <2>2
  <1> QED BY <1>1, <1>2, <1>3, TypeParts, PTL DEF TurnSpec

(* ---- the state and the link ---------------------------------------------*)

FitInv ==
  /\ StateFitsLink
  /\ ws_pc = "drop" => link = "down"

\* The states other tasks store promise nothing about the link.
Calm == {"IDLE", "CONNECTING", "READY", "LISTENING", "PROCESSING"}

\* s_disconnecting is cleared by the last step of voice_disconnect alone.
LEMMA ClosedStays ==
  ASSUME DataType, TurnNext, ~Disconnected, cmd["ui"] = "closed"
  PROVE  cmd'["ui"] = "closed"
  <1> USE DEF DataType, Callers, Goto, Return, At, User, command
  <1>1. ASSUME NEW c \in Callers, SendStart(c) \/ Started(c) \/ SendCancel(c) \/ Cancelled(c)
        PROVE  cmd'["ui"] = "closed"
    BY <1>1 DEF SendStart, Started, SendCancel, Cancelled
  <1>2. ASSUME NEW c \in Callers, TextAgain(c) \/ QueueText(c) \/ SendTextFrame(c) \/ TextSent(c)
        PROVE  cmd'["ui"] = "closed"
    BY <1>2 DEF TextAgain, QueueText, SendTextFrame, TextSent
  <1>3. ~(UserStarts \/ StopListening \/ SendStop \/ Stopped \/ Cancel \/ TypeText
          \/ ConnectAsync \/ Disconnect \/ StopClient)
    BY DEF UserStarts, StopListening, SendStop, Stopped, Cancel, TypeText, ConnectAsync, Disconnect,
           StopClient
  <1>4. CASE DrainJob \/ RelistenJob \/ RelistenStarts \/ RelistenBails
    BY <1>4 DEF DrainJob, SendText, RelistenJob, RelistenStarts, StartListening, RelistenBails
  <1>5. ASSUME NEW t \in Tasks, HookCheck(t) \/ HookTake(t) \/ HookDrops(t)
        PROVE  cmd'["ui"] = "closed"
    BY <1>5 DEF HookCheck, HookTake, HookDrops
  <1>6. CASE Drain \/ DrainDone \/ MicWake \/ MicLeaves \/ MicMaxDuration \/ MicExit
             \/ Connector \/ StartClient \/ BeforeConnect \/ WsConnected
    BY <1>6 DEF Drain, DrainDone, MicWake, MicLeaves, MicMaxDuration, MicExit, Connector,
       StartClient, BeforeConnect, WsConnected
  <1>7. CASE WsDisconnected \/ WsClosed \/ WsDropped
    BY <1>7 DEF WsDisconnected, WsClosed, WsDropped, LinkLost
  <1>8. CASE SessionStart \/ Progress \/ LateLlm \/ LlmDone \/ TtsStart \/ TtsEnd
             \/ Audio \/ WriteAudio \/ ErrorFrame \/ Dragon
    BY <1>8 DEF SessionStart, Progress, LateLlm, LlmDone, TtsStart, TtsEnd, Audio, WriteAudio,
       ErrorFrame, Dragon, Frame
  <1> QED BY <1>1, <1>2, <1>3, <1>4, <1>5, <1>6, <1>7, <1>8, Zenon DEF TurnNext

LEMMA CalmStep ==
  ASSUME FitInv, UNCHANGED <<ws_pc, link>>, s_state' \in Calm \cup {s_state},
         cmd["ui"] = "closed" => cmd'["ui"] = "closed"
  PROVE  FitInv'
  BY DEF FitInv, StateFitsLink, Calm, Connected

\* The hooks of voice_set_state and the jobs move texts, not the state.
LEMMA QuietSteps ==
  ASSUME \/ \E t \in Tasks : HookCheck(t) \/ HookTake(t) \/ HookDrops(t)
         \/ \E c \in Callers : SendStart(c) \/ TextAgain(c) \/ QueueText(c) \/ SendTextFrame(c)
         \/ UserStarts \/ StopListening \/ Cancel \/ TypeText
         \/ DrainJob \/ RelistenJob \/ RelistenStarts \/ RelistenBails
         \/ Drain \/ MicWake \/ MicLeaves \/ MicExit \/ Dragon \/ Disconnect
  PROVE  UNCHANGED <<ws_pc, link>> /\ s_state' = s_state
  <1> USE DEF network, stateVars, Untouched
  <1>1. ASSUME NEW t \in Tasks, HookCheck(t) \/ HookTake(t) \/ HookDrops(t)
        PROVE  UNCHANGED <<ws_pc, link>> /\ s_state' = s_state
    BY <1>1 DEF HookCheck, HookTake, HookDrops
  <1>2. ASSUME NEW c \in Callers, SendStart(c) \/ TextAgain(c) \/ QueueText(c) \/ SendTextFrame(c)
        PROVE  UNCHANGED <<ws_pc, link>> /\ s_state' = s_state
    BY <1>2 DEF SendStart, TextAgain, QueueText, SendTextFrame
  <1>3. ASSUME UserStarts \/ StopListening \/ Cancel \/ TypeText
        PROVE  UNCHANGED <<ws_pc, link>> /\ s_state' = s_state
    BY <1>3 DEF UserStarts, StartListening, StopListening, Cancel, TypeText, SendText
  <1>4. ASSUME DrainJob \/ RelistenJob \/ RelistenStarts \/ RelistenBails
        PROVE  UNCHANGED <<ws_pc, link>> /\ s_state' = s_state
    BY <1>4 DEF DrainJob, SendText, RelistenJob, RelistenStarts, StartListening, RelistenBails
  <1>5. ASSUME Drain \/ MicWake \/ MicLeaves \/ MicExit \/ Dragon \/ Disconnect
        PROVE  UNCHANGED <<ws_pc, link>> /\ s_state' = s_state
    BY <1>5 DEF Drain, MicWake, MicLeaves, MicExit, Dragon, Disconnect
  <1> QED BY <1>1, <1>2, <1>3, <1>4, <1>5, Zenon

\* Commands, the connector, playback and the mic store calm states, whatever the
\* link does.
LEMMA CommandSteps ==
  ASSUME \/ \E c \in Callers : Started(c) \/ SendCancel(c) \/ Cancelled(c) \/ TextSent(c)
         \/ SendStop \/ Stopped \/ DrainDone \/ MicMaxDuration \/ ConnectAsync \/ Connector
  PROVE  UNCHANGED <<ws_pc, link>> /\ s_state' \in Calm \cup {s_state}
  <1> USE DEF network, stateVars, SetState, Calm
  <1>1. ASSUME NEW c \in Callers, Started(c) \/ SendCancel(c) \/ Cancelled(c) \/ TextSent(c)
        PROVE  UNCHANGED <<ws_pc, link>> /\ s_state' \in Calm \cup {s_state}
    BY <1>1 DEF Started, SendCancel, Cancelled, TextSent
  <1>2. ASSUME SendStop \/ Stopped \/ DrainDone \/ MicMaxDuration \/ ConnectAsync \/ Connector
        PROVE  UNCHANGED <<ws_pc, link>> /\ s_state' \in Calm \cup {s_state}
    BY <1>2 DEF SendStop, Stopped, DrainDone, MicMaxDuration, ConnectAsync, Connector
  <1> QED BY <1>1, <1>2, Zenon

\* Frames arrive on a live link, and leave it alive.
LEMMA FrameSteps ==
  ASSUME FitInv,
         \/ SessionStart \/ Progress \/ LateLlm \/ LlmDone \/ TtsStart \/ TtsEnd
         \/ Audio \/ WriteAudio \/ ErrorFrame
  PROVE  FitInv'
  <1> USE DEF FitInv, StateFitsLink, stateVars, command, SetState, Frame, WsIdle, Connected
  <1>1. CASE SessionStart
    BY <1>1 DEF SessionStart
  <1>2. CASE Progress \/ LateLlm \/ LlmDone
    BY <1>2 DEF Progress, LateLlm, LlmDone
  <1>3. CASE TtsStart \/ TtsEnd \/ ErrorFrame
    BY <1>3 DEF TtsStart, TtsEnd, ErrorFrame
  <1>4. CASE Audio
    BY <1>4 DEF Audio
  <1>5. CASE WriteAudio
    BY <1>5 DEF WriteAudio
  <1> QED BY <1>1, <1>2, <1>3, <1>4, <1>5

\* The link itself: a loss marks the WS task, which then stores the state.
LEMMA LinkSteps ==
  ASSUME FitInv, DataType,
         \/ StartClient \/ StopClient \/ Disconnected \/ BeforeConnect \/ WsConnected
         \/ WsDisconnected \/ WsClosed \/ WsDropped
  PROVE  FitInv'
  <1> USE DEF FitInv, StateFitsLink, stateVars, command, SetState, WsIdle, Connected, DataType, Callers
  <1>1. CASE StartClient
    BY <1>1 DEF StartClient
  <1>2. CASE StopClient \/ Disconnected
    BY <1>2 DEF StopClient, Disconnected, Goto, network
  <1>3. CASE BeforeConnect \/ WsConnected
    BY <1>3 DEF BeforeConnect, WsConnected
  <1>4. CASE WsDisconnected \/ WsClosed
    BY <1>4 DEF WsDisconnected, WsClosed, LinkLost
  <1>5. CASE WsDropped
    BY <1>5 DEF WsDropped
  <1> QED BY <1>1, <1>2, <1>3, <1>4, <1>5

\* Outside a stop or a start of the client the device never shows speech without a
\* link nor a pending retry with one (voice_ws_proto_event_handler), for every value
\* of the constants.
THEOREM StateFitsLinkSafe == TurnSpec => []StateFitsLink
  <1>1. TurnInit => FitInv
    BY DEF TurnInit, FitInv, StateFitsLink
  <1>2. ASSUME FitInv, DataType, TurnNext PROVE FitInv'
    <2>1. ASSUME UNCHANGED <<ws_pc, link>>, s_state' \in Calm \cup {s_state} PROVE FitInv'
      <3>1. Disconnected => FitInv'
        BY <1>2, LinkSteps
      <3> QED BY <1>2, <2>1, <3>1, ClosedStays, CalmStep
    <2> QED BY <1>2, <2>1, QuietSteps, CommandSteps, FrameSteps, LinkSteps, Zenon DEF TurnNext
  <1>3. ASSUME FitInv, UNCHANGED turnVars PROVE FitInv'
    BY <1>3, CalmStep DEF turnVars, stateVars, command, network
  <1>4. FitInv => StateFitsLink
    BY DEF FitInv
  <1> QED BY <1>1, <1>2, <1>3, <1>4, TurnTypeSafe, TypeParts, PTL DEF TurnSpec

(* ---- texts ---------------------------------------------------------------*)

(***************************************************************************)
(* A text that still may go to Dragon waits in one place only: the slot of *)
(* queued texts, a job, or a command of one of the two callers that has    *)
(* not sent it.                                                            *)
(***************************************************************************)

\* No text is twice among the jobs.
Distinct(q) == \A i, j \in 1..Len(q) : q[i] = q[j] /\ q[i] # 0 => i = j

\* The user sent x, and it has not gone to Dragon.
Fresh(x) == x <= texts /\ sent[x] = 0

OnceInv ==
  /\ \A x \in Texts : sent[x] <= 1 /\ (sent[x] = 1 => x <= texts)
  /\ Distinct(jobs)
  /\ \A x \in Texts :
       /\ s_queued_text = x => Fresh(x) /\ ~Has(jobs, x)
       /\ Has(jobs, x) => Fresh(x)
       /\ \A c \in Callers :
            Held(c) = x => Fresh(x) /\ s_queued_text # x /\ ~Has(jobs, x)
       /\ ~(Held("ui") = x /\ Held("worker") = x)

\* A caller that records has no text, one that is past that has one.
CallerInv ==
  \A c \in Callers :
    /\ cmd[c] \in {"none", "delay", "start", "started", "stop", "stopped", "closing", "closed"} =>
         cmd_text[c] = 0
    /\ cmd[c] \in {"text", "queue", "send", "sending"} => cmd_text[c] # 0

\* Nothing that says where a text is changes.
Still ==
  /\ UNCHANGED <<texts, sent, s_queued_text>>
  /\ \A c \in Callers : Held(c)' = Held(c)
  /\ Distinct(jobs') /\ \A x \in Texts : Has(jobs', x) <=> Has(jobs, x)

\* The four things a step does to the texts, as TextDelivery sees them: it accepts
\* one, sends one, loses one for a cause, or keeps them all where they are.
Types ==
  /\ texts' = texts + 1 /\ texts' \in Texts /\ sent' = sent
  /\ ~Waits(texts') /\ \A x \in Texts : Waits(x)' <=> Waits(x) \/ x = texts'

Leaves(y) == Waits(y) /\ texts' = texts /\ \A x \in Texts : Waits(x)' <=> Waits(x) /\ x # y

Sends == \E y \in Texts : Leaves(y) /\ sent' = [sent EXCEPT ![y] = @ + 1]

Loses ==
  /\ sent' = sent
  /\ \E y \in Texts :
       /\ Leaves(y)
       /\ SendFailed(y) \/ JobFailed(y) \/ SlotGivenUp(y)

Keeps ==
  /\ UNCHANGED <<texts, sent>>
  /\ \A x \in Texts : Waits(x)' <=> Waits(x)

(* ---- sequences of jobs --------------------------------------------------*)
LEMMA AppendHas ==
  ASSUME NEW q \in Jobs, NEW x \in Texts \cup {0}
  PROVE  /\ \A y : Has(Append(q, x), y) <=> Has(q, y) \/ y = x
         /\ Distinct(q) /\ (x = 0 \/ ~Has(q, x)) => Distinct(Append(q, x))
  <1> DEFINE S == Texts \cup {0}
             r == Append(q, x)
  <1>1. q \in Seq(S) /\ x \in S
    BY DEF Jobs
  <1> HIDE DEF S
  <1>2. /\ Len(q) \in Nat /\ Len(r) = Len(q) + 1 /\ r[Len(q) + 1] = x
        /\ \A i \in 1..Len(q) : r[i] = q[i]
    BY <1>1
  <1> HIDE DEF r
  <1>3. \A y : Has(r, y) <=> Has(q, y) \/ y = x
    <2>1. 1..Len(r) = (1..Len(q)) \cup {Len(q) + 1}
      BY <1>2
    <2> QED BY <1>2, <2>1 DEF Has
  <1>4. ASSUME Distinct(q), x = 0 \/ ~Has(q, x), NEW i \in 1..Len(r), NEW j \in 1..Len(r),
               r[i] = r[j], r[i] # 0
        PROVE  i = j
    <2>1. CASE i = Len(q) + 1 \/ j = Len(q) + 1
      BY <1>2, <1>4, <2>1 DEF Has
    <2>2. CASE i \in 1..Len(q) /\ j \in 1..Len(q)
      BY <1>2, <1>4, <2>2 DEF Distinct
    <2> QED BY <1>2, <2>1, <2>2
  <1> QED BY <1>3, <1>4 DEF Distinct, r

LEMMA TailHas ==
  ASSUME NEW q \in Jobs, q # <<>>
  PROVE  /\ \A y : Has(Tail(q), y) => Has(q, y)
         /\ \A y : Has(q, y) => Has(Tail(q), y) \/ y = Head(q)
         /\ Has(q, Head(q))
         /\ Distinct(q) => Distinct(Tail(q)) /\ (Head(q) # 0 => ~Has(Tail(q), Head(q)))
  <1> DEFINE S == Texts \cup {0}
             r == Tail(q)
  <1>1. q \in Seq(S)
    BY DEF Jobs
  <1> HIDE DEF S
  <1>2. /\ Len(q) \in Nat \ {0} /\ Len(r) = Len(q) - 1 /\ Head(q) = q[1]
        /\ \A i \in 1..Len(r) : r[i] = q[i + 1]
    BY <1>1
  <1> HIDE DEF r
  <1>3. (\A y : Has(r, y) => Has(q, y)) /\ Has(q, Head(q))
    BY <1>2 DEF Has
  <1>4. ASSUME Distinct(q)
        PROVE  Distinct(r) /\ (Head(q) # 0 => ~Has(r, Head(q)))
    BY <1>2, <1>4 DEF Distinct, Has
  <1>5. ASSUME NEW i \in 1..Len(q), q[i] # Head(q) PROVE Has(r, q[i])
    <2>1. PICK j \in 1..Len(r) : j + 1 = i
      BY <1>2, <1>5
    <2> QED BY <1>2, <2>1 DEF Has
  <1>6. \A y : Has(q, y) => Has(r, y) \/ y = Head(q)
    BY <1>5 DEF Has
  <1> QED BY <1>3, <1>4, <1>6 DEF r

LEMMA RelistenHas ==
  ASSUME NEW spoke, NEW q \in Jobs, Distinct(q), Relisten(spoke, q)
  PROVE  Distinct(jobs') /\ \A y \in Texts : Has(jobs', y) <=> Has(q, y)
  <1>1. jobs' \in {q, Append(q, 0)}
    <2>1. Enqueue(q, 0) \in {q, Append(q, 0)}
      BY DEF Enqueue
    <2> QED BY <2>1, Zenon DEF Relisten
  <1>2. Distinct(Append(q, 0)) /\ \A y : Has(Append(q, 0), y) <=> Has(q, y) \/ y = 0
    BY AppendHas
  <1>3. 0 \notin Texts
    BY DEF Texts
  <1> QED BY <1>1, <1>2, <1>3

(* ---- steps that leave every text where it is -----------------------------*)
LEMMA KeepStep ==
  ASSUME OnceInv, Still
  PROVE  OnceInv' /\ Keeps
  <1>1. OnceInv'
    BY DEF Still, OnceInv, Fresh, Texts, Callers
  <1>2. Keeps
    BY DEF Still, Keeps, Waits
  <1> QED BY <1>1, <1>2

LEMMA SameJobs ==
  ASSUME OnceInv, DataType, UNCHANGED <<texts, sent, s_queued_text, jobs>>,
         \/ UNCHANGED command
         \/ \E c \in Callers, pc \in Commands \ {"sending"} : Goto(c, pc) /\ cmd[c] # "sending"
         \/ \E c \in Callers : Return(c) /\ Held(c) = 0
  PROVE  Still
  <1>1. \A c \in Callers : Held(c)' = Held(c)
    BY DEF DataType, Held, Goto, Return, command
  <1>2. Distinct(jobs') /\ \A x \in Texts : Has(jobs', x) <=> Has(jobs, x)
    BY DEF OnceInv
  <1> QED BY <1>1, <1>2 DEF Still

LEMMA CommandKeeps ==
  ASSUME OnceInv, CallerInv, DataType,
         \/ \E c \in Callers : SendStart(c) \/ Started(c) \/ SendCancel(c) \/ Cancelled(c)
                               \/ TextAgain(c) \/ TextSent(c)
         \/ UserStarts \/ StopListening \/ SendStop \/ Stopped \/ Cancel
         \/ Disconnect \/ StopClient \/ Disconnected
         \/ RelistenStarts \/ RelistenBails
  PROVE  Still
  <1> USE DEF talk, record, Untouched, At, Callers, Commands, CallerInv, Held
  <1>1. ASSUME NEW c \in Callers,
               SendStart(c) \/ Started(c) \/ SendCancel(c) \/ Cancelled(c)
        PROVE  Still
    BY <1>1, SameJobs DEF SendStart, Started, SendCancel, Cancelled, AfterCancel
  <1>2. ASSUME NEW c \in Callers, TextAgain(c) \/ TextSent(c)
        PROVE  Still
    BY <1>2, SameJobs DEF TextAgain, TextGoes, TextSent
  <1>3. CASE UserStarts \/ StopListening \/ SendStop \/ Stopped \/ Cancel
    BY <1>3, SameJobs
       DEF UserStarts, User, StartListening, StopListening, SendStop, Stopped, Cancel
  <1>4. CASE RelistenStarts \/ RelistenBails
    BY <1>4, SameJobs DEF RelistenStarts, StartListening, RelistenBails
  <1>5. CASE Disconnect \/ StopClient \/ Disconnected
    BY <1>5, SameJobs DEF Disconnect, User, StopClient, Disconnected
  <1> QED BY <1>1, <1>2, <1>3, <1>4, <1>5

\* The other tasks and the network move no text.
LEMMA OtherTasks ==
  ASSUME \/ Drain \/ DrainDone \/ MicWake \/ MicLeaves \/ MicMaxDuration \/ MicExit
         \/ ConnectAsync \/ Connector \/ StartClient \/ BeforeConnect \/ WsConnected
         \/ WsDisconnected \/ WsClosed \/ WsDropped
         \/ SessionStart \/ Progress \/ LateLlm \/ LlmDone \/ TtsStart \/ TtsEnd
         \/ Audio \/ WriteAudio \/ ErrorFrame \/ Dragon
  PROVE  UNCHANGED <<texts, sent, s_queued_text, jobs, command>>
  <1> USE DEF talk, record, Untouched, LinkLost, Frame, User
  <1>1. CASE Drain \/ DrainDone \/ MicWake \/ MicLeaves \/ MicMaxDuration \/ MicExit
    BY <1>1 DEF Drain, DrainDone, MicWake, MicLeaves, MicMaxDuration, MicExit
  <1>2. CASE ConnectAsync \/ Connector \/ StartClient \/ BeforeConnect \/ WsConnected
    BY <1>2 DEF ConnectAsync, Connector, StartClient, BeforeConnect, WsConnected
  <1>3. CASE WsDisconnected \/ WsClosed \/ WsDropped
    BY <1>3 DEF WsDisconnected, WsClosed, WsDropped
  <1>4. CASE SessionStart \/ Progress \/ LateLlm \/ LlmDone \/ TtsStart \/ TtsEnd
    BY <1>4 DEF SessionStart, Progress, LateLlm, LlmDone, TtsStart, TtsEnd
  <1>5. CASE Audio \/ WriteAudio \/ ErrorFrame \/ Dragon
    BY <1>5 DEF Audio, WriteAudio, ErrorFrame, Dragon
  <1> QED BY <1>1, <1>2, <1>3, <1>4, <1>5

LEMMA TaskKeeps ==
  ASSUME OnceInv, CallerInv, DataType,
         \/ Drain \/ DrainDone \/ MicWake \/ MicLeaves \/ MicMaxDuration \/ MicExit
         \/ ConnectAsync \/ Connector \/ StartClient \/ BeforeConnect \/ WsConnected
         \/ WsDisconnected \/ WsClosed \/ WsDropped
         \/ SessionStart \/ Progress \/ LateLlm \/ LlmDone \/ TtsStart \/ TtsEnd
         \/ Audio \/ WriteAudio \/ ErrorFrame \/ Dragon
  PROVE  Still
  BY OtherTasks, SameJobs

\* A relisten job comes or goes.
LEMMA RelistenKeeps ==
  ASSUME OnceInv, CallerInv, DataType, RelistenJob \/ \E t \in Tasks : HookCheck(t)
  PROVE  Still
  <1> USE DEF talk, record, command
  <1>1. CASE RelistenJob
    <2>1. \A c \in Callers : Held(c)' = Held(c)
      BY <1>1 DEF RelistenJob, At, Goto, Held, DataType, Callers
    <2>2. Distinct(jobs') /\ \A x \in Texts : Has(jobs', x) <=> Has(jobs, x)
      <3>1. 0 \notin Texts
        BY DEF Texts
      <3> QED BY <1>1, <3>1, TailHas DEF RelistenJob, DataType, OnceInv
    <2> QED BY <1>1, <2>1, <2>2, Zenon DEF Still, RelistenJob
  <1>2. ASSUME NEW t \in Tasks, HookCheck(t)
        PROVE  Still
    <2>1. Distinct(jobs') /\ \A x \in Texts : Has(jobs', x) <=> Has(jobs, x)
      BY <1>2, RelistenHas DEF HookCheck, DataType, OnceInv
    <2>2. \A c \in Callers : Held(c)' = Held(c)
      BY <1>2 DEF HookCheck, Held
    <2> QED BY <1>2, <2>1, <2>2, Zenon DEF Still, HookCheck
  <1> QED BY <1>1, <1>2

(* ---- steps that move a text ---------------------------------------------*)
\* From the slot to a job, or nowhere when the queue is full.
LEMMA HookTakeMoves ==
  ASSUME OnceInv, DataType, NEW t \in Tasks, HookTake(t)
  PROVE  OnceInv' /\ (Keeps \/ Loses)
  <1> DEFINE q == IF s_queued_text = 0 THEN jobs ELSE Enqueue(jobs, s_queued_text)
  <1>1. q \in Jobs /\ Distinct(q)
        /\ \A x \in Texts : Has(q, x) <=> Has(jobs, x) \/ (x = s_queued_text /\ Room(jobs))
    <2>1. 0 \notin Texts
      BY DEF Texts
    <2> QED BY <2>1, AppendHas, EnqueueType DEF DataType, OnceInv, Enqueue
  <1>2. Distinct(jobs') /\ \A x \in Texts : Has(jobs', x) <=> Has(q, x)
    BY <1>1, RelistenHas DEF HookTake
  <1> HIDE DEF q
  <1>3. /\ s_queued_text' = 0 /\ UNCHANGED <<texts, sent>>
        /\ \A c \in Callers : Held(c)' = Held(c)
    BY DEF HookTake, Held, command, record
  <1>4. OnceInv'
    BY <1>1, <1>2, <1>3 DEF OnceInv, Fresh, Texts, Callers
  <1>5. 0 \notin Texts /\ s_queued_text \in Texts \cup {0}
    BY DEF Texts, DataType
  <1>6. CASE s_queued_text = 0 \/ Room(jobs)
    BY <1>1, <1>2, <1>3, <1>4, <1>5, <1>6 DEF Keeps, Waits
  <1>7. CASE s_queued_text # 0 /\ ~Room(jobs)
    <2>1. Leaves(s_queued_text)
      BY <1>1, <1>2, <1>3, <1>5, <1>7 DEF Leaves, Waits, OnceInv
    <2>2. SlotGivenUp(s_queued_text)
      BY DEF SlotGivenUp, HookTake, DataType
    <2> QED BY <1>3, <1>4, <1>5, <1>7, <2>1, <2>2 DEF Loses
  <1> QED BY <1>6, <1>7

\* From the slot to nowhere, without memory for a copy.
LEMMA HookDropMoves ==
  ASSUME OnceInv, DataType, NEW t \in Tasks, HookDrops(t)
  PROVE  OnceInv' /\ (Keeps \/ Loses)
  <1>1. /\ s_queued_text' = 0 /\ UNCHANGED <<texts, sent, jobs>>
        /\ \A c \in Callers : Held(c)' = Held(c)
    BY DEF HookDrops, Held, command, record
  <1>2. Distinct(jobs') /\ \A x : Has(jobs', x) <=> Has(jobs, x)
    BY <1>1 DEF OnceInv
  <1>3. OnceInv'
    BY <1>1, <1>2 DEF OnceInv, Fresh, Texts, Callers
  <1>4. 0 \notin Texts /\ s_queued_text \in Texts \cup {0}
    BY DEF Texts, DataType
  <1>5. CASE s_queued_text = 0
    BY <1>1, <1>2, <1>3, <1>4, <1>5 DEF Keeps, Waits
  <1>6. CASE s_queued_text # 0
    <2>1. Leaves(s_queued_text)
      BY <1>1, <1>2, <1>4, <1>6 DEF Leaves, Waits, OnceInv
    <2>2. SlotGivenUp(s_queued_text)
      BY DEF SlotGivenUp, HookDrops, DataType
    <2> QED BY <1>1, <1>3, <1>4, <1>6, <2>1, <2>2 DEF Loses
  <1> QED BY <1>5, <1>6

\* From a command to the slot, in place of the text that was there.
LEMMA QueueTextMoves ==
  ASSUME OnceInv, CallerInv, DataType, NEW c \in Callers, QueueText(c)
  PROVE  OnceInv' /\ (Keeps \/ Loses)
  <1>1. /\ s_queued_text' = Held(c) /\ Held(c)' = 0 /\ Held(c) # 0
        /\ \A d \in Callers \ {c} : Held(d)' = Held(d)
        /\ UNCHANGED <<texts, sent, jobs>>
    BY DEF QueueText, At, Return, Held, DataType, record, CallerInv
  <1>2. Distinct(jobs') /\ \A x : Has(jobs', x) <=> Has(jobs, x)
    BY <1>1 DEF OnceInv
  <1>3. OnceInv'
    BY <1>1, <1>2 DEF OnceInv, Fresh, Texts, Callers
  <1>4. 0 \notin Texts /\ s_queued_text \in Texts \cup {0}
    BY DEF Texts, DataType
  <1>5. CASE s_queued_text = 0
    BY <1>1, <1>2, <1>3, <1>4, <1>5 DEF Keeps, Waits
  <1>6. CASE s_queued_text # 0
    <2>1. Leaves(s_queued_text)
      BY <1>1, <1>2, <1>4, <1>6 DEF Leaves, Waits, OnceInv
    <2> QED BY <1>1, <1>3, <1>4, <1>6, <2>1 DEF Loses, SlotGivenUp
  <1> QED BY <1>5, <1>6

\* From a command to Dragon, or nowhere when the send fails.
LEMMA SendMoves ==
  ASSUME OnceInv, CallerInv, DataType, NEW c \in Callers, SendTextFrame(c)
  PROVE  OnceInv' /\ (Sends \/ Loses)
  <1>1. /\ Held(c)' = 0 /\ \A d \in Callers \ {c} : Held(d)' = Held(d)
        /\ UNCHANGED <<texts, jobs, s_queued_text>>
        /\ Held(c) \in Texts
        /\ \/ sent' = [sent EXCEPT ![Held(c)] = @ + 1]
           \/ sent' = sent /\ SendFailed(Held(c))
    <2>1. Held(c) = cmd_text[c] /\ cmd_text[c] \in Texts
      BY DEF SendTextFrame, At, Held, DataType, CallerInv
    <2>2. /\ Held(c)' = 0 /\ \A d \in Callers \ {c} : Held(d)' = Held(d)
      BY DEF SendTextFrame, At, Goto, Return, Held, DataType
    <2>3. \/ sent' = [sent EXCEPT ![cmd_text[c]] = @ + 1]
          \/ sent' = sent /\ SendFailed(cmd_text[c])
      BY DEF SendTextFrame, At, Return, SendFailed, DataType
    <2> QED BY <2>1, <2>2, <2>3 DEF SendTextFrame, talk
  <1>2. Distinct(jobs') /\ \A x : Has(jobs', x) <=> Has(jobs, x)
    BY <1>1 DEF OnceInv
  <1>3. sent[Held(c)] = 0 /\ Held(c) <= texts
    BY <1>1 DEF OnceInv, Fresh
  <1>4. \A x \in Texts : sent[x] \in Nat /\ sent'[x] <= 1 /\ (sent'[x] = 1 => x <= texts)
    BY <1>1, <1>3 DEF OnceInv, DataType
  <1>5. \A x \in Texts : x # Held(c) => sent'[x] = sent[x]
    BY <1>1 DEF DataType
  <1>6. OnceInv'
    BY <1>1, <1>2, <1>4, <1>5 DEF OnceInv, Fresh, Texts, Callers
  <1>7. PICK y \in Texts : y = Held(c)
    BY <1>1
  <1>8. /\ s_queued_text # y /\ ~Has(jobs, y) /\ 0 \notin Texts
        /\ \A d \in Callers \ {c} : Held(d) # y
    BY <1>7 DEF OnceInv, Callers, Texts
  <1>9. Leaves(y)
    <2>1. Waits(y) /\ ~Waits(y)'
      BY <1>1, <1>2, <1>7, <1>8 DEF Waits
    <2>2. ASSUME NEW x \in Texts, x # y PROVE Waits(x)' <=> Waits(x)
      BY <1>1, <1>2, <1>7, <1>8, <2>2 DEF Waits
    <2> QED BY <1>1, <2>1, <2>2 DEF Leaves, Waits
  <1>10. Sends \/ Loses
    BY <1>1, <1>7, <1>9 DEF Sends, Loses
  <1> QED BY <1>6, <1>10

\* A new text comes to a command; it had no place before.
LEMMA TypeTextMoves ==
  ASSUME OnceInv, CallerInv, DataType, TypeText
  PROVE  OnceInv' /\ Types
  <1> DEFINE n == texts + 1
  <1>1. /\ n \in Texts /\ texts' = n /\ texts \in Nat
        /\ Held("ui") = 0 /\ Held("ui")' = n /\ Held("worker")' = Held("worker")
        /\ UNCHANGED <<sent, jobs, s_queued_text>>
    BY TurnAssumption
       DEF TypeText, User, At, SendText, TextGoes, Untouched, Held, DataType, Callers, Texts,
           CallerInv
  <1>2. /\ sent[n] = 0 /\ ~Has(jobs, n) /\ s_queued_text # n /\ Held("worker") # n
    BY <1>1 DEF OnceInv, Fresh, DataType, Callers
  <1>3. Distinct(jobs') /\ \A x : Has(jobs', x) <=> Has(jobs, x)
    BY <1>1 DEF OnceInv
  <1>4. \A x \in Texts : x <= texts => x <= texts'
    BY <1>1 DEF Texts
  <1>5. texts' = texts + 1
    BY <1>1
  <1> HIDE DEF n
  <1>6. OnceInv'
    BY <1>1, <1>2, <1>3, <1>4 DEF OnceInv, Fresh, Texts, Callers
  <1>7. 0 \notin Texts
    BY DEF Texts
  <1>8. Types
    BY <1>1, <1>2, <1>3, <1>5, <1>7 DEF Types, Waits, Callers
  <1> QED BY <1>6, <1>8

\* From a job to a command of the worker, or nowhere without a link.
LEMMA DrainMoves ==
  ASSUME OnceInv, CallerInv, DataType, DrainJob
  PROVE  OnceInv' /\ (Keeps \/ Loses)
  <1> DEFINE x == Head(jobs)
  <1>1. /\ Distinct(jobs') /\ \A y : Has(jobs', y) => Has(jobs, y)
        /\ \A y : Has(jobs, y) => Has(jobs', y) \/ y = x
        /\ Has(jobs, x) /\ ~Has(jobs', x) /\ x \in Texts
    BY TailHas, TailType DEF DrainJob, DataType, OnceInv
  <1>2. /\ UNCHANGED <<texts, sent, s_queued_text>> /\ Held("ui")' = Held("ui")
        /\ Held("worker")' = IF Connected THEN x ELSE Held("worker")
    BY DEF DrainJob, SendText, TextGoes, Untouched, Held, DataType, Callers, command, record
  <1>3. Held("worker") = 0 /\ 0 \notin Texts
    BY DEF DrainJob, At, CallerInv, Held, Callers, Texts
  <1> HIDE DEF x
  <1>4. OnceInv'
    BY <1>1, <1>2 DEF OnceInv, Fresh, Texts, Callers
  <1>5. CASE Connected
    BY <1>1, <1>2, <1>3, <1>4, <1>5 DEF Keeps, Waits, Callers
  <1>6. CASE ~Connected
    <2>1. PICK y \in Texts : y = x
      BY <1>1
    <2>2. s_queued_text # y /\ Held("ui") # y
      BY <1>1, <2>1 DEF OnceInv, Callers
    <2>3. Leaves(y)
      <3>1. Waits(y) /\ ~Waits(y)'
        BY <1>1, <1>2, <1>3, <1>6, <2>1, <2>2 DEF Waits, Callers
      <3>2. ASSUME NEW z \in Texts, z # y PROVE Waits(z)' <=> Waits(z)
        BY <1>1, <1>2, <1>3, <1>6, <2>1, <2>2, <3>2 DEF Waits, Callers
      <3> QED BY <1>2, <3>1, <3>2 DEF Leaves, Waits
    <2>4. JobFailed(y)
      BY <1>6, <2>1 DEF JobFailed, DrainJob, x
    <2> QED BY <1>1, <1>2, <1>4, <1>6, <2>3, <2>4 DEF Loses
  <1> QED BY <1>5, <1>6

(* ---- callers --------------------------------------------------------------*)
LEMMA CallerGoes ==
  ASSUME CallerInv, DataType, NEW c \in Callers, NEW pc,
         \/ Goto(c, pc) /\ cmd_text[c] = 0
            /\ pc \notin {"text", "queue", "send", "sending"}
         \/ Goto(c, pc) /\ cmd_text[c] # 0
            /\ pc \notin {"none", "delay", "start", "started", "stop", "stopped", "closing", "closed"}
         \/ Goto(c, pc) /\ pc \in {"cancel", "cancelled"}
         \/ Return(c)
  PROVE  CallerInv'
  BY DEF CallerInv, DataType, Goto, Return

LEMMA CallerStep ==
  ASSUME CallerInv, DataType, TurnNext
  PROVE  CallerInv'
  <1> USE DEF At
  <1>1. ASSUME NEW c \in Callers, SendStart(c) \/ Started(c) \/ SendCancel(c) \/ Cancelled(c)
        PROVE  CallerInv'
    BY <1>1, CallerGoes DEF SendStart, Started, SendCancel, Cancelled, AfterCancel, CallerInv
  <1>2. ASSUME NEW c \in Callers, TextAgain(c) \/ QueueText(c) \/ SendTextFrame(c) \/ TextSent(c)
        PROVE  CallerInv'
    BY <1>2, CallerGoes DEF TextAgain, TextGoes, QueueText, SendTextFrame, TextSent, CallerInv
  <1>3. CASE UserStarts \/ StopListening \/ SendStop \/ Stopped \/ Cancel
    BY <1>3, CallerGoes
       DEF UserStarts, User, StartListening, StopListening, SendStop, Stopped, Cancel, CallerInv,
           Callers
  <1>4. CASE RelistenJob \/ RelistenStarts \/ RelistenBails
    BY <1>4, CallerGoes
       DEF RelistenJob, RelistenStarts, StartListening, RelistenBails, CallerInv, Callers, command
  <1>5. CASE TypeText \/ DrainJob
    <2>1. ASSUME NEW c \in Callers, NEW x, x # 0, SendText(c, x) PROVE CallerInv'
      BY <2>1 DEF SendText, TextGoes, CallerInv, DataType
    <2>2. texts + 1 # 0
      BY DEF DataType
    <2> QED BY <1>5, <2>1, <2>2 DEF TypeText, DrainJob, Callers, command, CallerInv
  <1>6. CASE UNCHANGED command
    BY <1>6 DEF command, CallerInv
  <1>7. ASSUME \E t \in Tasks : HookCheck(t) \/ HookTake(t) \/ HookDrops(t) PROVE UNCHANGED command
    BY <1>7 DEF HookCheck, HookTake, HookDrops
  <1>8. CASE Drain \/ DrainDone \/ MicWake \/ MicLeaves \/ MicMaxDuration \/ MicExit
             \/ ConnectAsync \/ Connector \/ StartClient \/ BeforeConnect \/ WsConnected
             \/ WsDisconnected \/ WsClosed \/ WsDropped
             \/ SessionStart \/ Progress \/ LateLlm \/ LlmDone \/ TtsStart \/ TtsEnd
             \/ Audio \/ WriteAudio \/ ErrorFrame \/ Dragon
    BY <1>6, <1>8, OtherTasks
  <1>9. CASE Disconnect \/ StopClient \/ Disconnected
    BY <1>9, CallerGoes DEF Disconnect, User, StopClient, Disconnected, CallerInv, Callers
  <1> QED BY <1>1, <1>2, <1>3, <1>4, <1>5, <1>6, <1>7, <1>8, <1>9, Zenon DEF TurnNext

(* ---- the theorems -------------------------------------------------------*)
TextStep == Keeps \/ Types \/ Sends \/ Loses

LEMMA OnceStep ==
  ASSUME OnceInv, CallerInv, DataType, [TurnNext]_turnVars
  PROVE  OnceInv' /\ CallerInv' /\ TextStep
  <1>1. CASE UNCHANGED turnVars
    <2>1. Still
      BY <1>1, SameJobs DEF turnVars, talk, record
    <2> QED BY <1>1, <2>1, KeepStep DEF turnVars, command, CallerInv, TextStep
  <1>2. CASE TurnNext
    <2>1. Still => OnceInv' /\ TextStep
      BY KeepStep DEF TextStep
    <2>2. OnceInv' /\ TextStep
      BY <1>2, <2>1, CommandKeeps, TaskKeeps, RelistenKeeps, HookTakeMoves, HookDropMoves, QueueTextMoves,
         SendMoves, TypeTextMoves, DrainMoves, Zenon DEF TurnNext, TextStep
    <2> QED BY <1>2, <2>2, CallerStep
  <1> QED BY <1>1, <1>2

LEMMA OnceInit == TurnInit => OnceInv /\ CallerInv
  BY DEF TurnInit, OnceInv, Distinct, Has, Held, Fresh, Texts, Callers, CallerInv

\* voice_send_text, the hooks of voice_set_state and the worker's drain together send
\* a text once or never, for every value of the constants.
THEOREM TextSentOnceSafe == TurnSpec => []TextSentOnce
  <1>1. DataType /\ OnceInv /\ CallerInv /\ [TurnNext]_turnVars => OnceInv' /\ CallerInv'
    BY OnceStep
  <1>2. OnceInv => TextSentOnce
    BY DEF OnceInv, TextSentOnce
  <1> QED BY OnceInit, TurnTypeSafe, TypeParts, <1>1, <1>2, PTL DEF TurnSpec

\* The slot, the jobs and the callers together are one place for the texts that wait:
\* every step of the code accepts, sends or loses one text of it, or none.
THEOREM DeliveryImplemented == TurnSpec => ImplementsDelivery
  <1>1. TurnInit => Delivery!Init
    BY DEF TurnInit, Delivery!Init, Waits, Has, Held, Texts, Callers
  <1>2. DataType /\ OnceInv /\ CallerInv /\ [TurnNext]_turnVars => OnceInv' /\ CallerInv'
    BY OnceStep
  <1>3. DataType /\ TextStep =>
          [Delivery!Next]_<<1..texts, {x \in Texts : Waits(x)}, {x \in Texts : sent[x] > 0}>>
    <2> SUFFICES ASSUME DataType, TextStep
                 PROVE  \/ \E x \in Texts : Delivery!Type(x) \/ Delivery!Send(x) \/ Delivery!Lose(x)
                        \/ UNCHANGED <<1..texts, {x \in Texts : Waits(x)}, {x \in Texts : sent[x] > 0}>>
      BY DEF Delivery!Next
    <2>1. CASE Keeps
      BY <2>1 DEF Keeps
    <2>2. CASE Types
      <3>1. /\ texts' \notin 1..texts /\ 1..texts' = (1..texts) \cup {texts'}
        BY <2>2 DEF Types, DataType
      <3>2. Delivery!Type(texts')
        BY <2>2, <3>1 DEF Delivery!Type, Types
      <3> QED BY <2>2, <3>2 DEF Types
    <2>3. CASE Sends
      <3>1. PICK y \in Texts : Leaves(y) /\ sent' = [sent EXCEPT ![y] = @ + 1]
        BY <2>3 DEF Sends
      <3>2. {x \in Texts : sent'[x] > 0} = {x \in Texts : sent[x] > 0} \cup {y}
        BY <3>1 DEF DataType
      <3>3. Delivery!Send(y)
        BY <3>1, <3>2 DEF Delivery!Send, Leaves
      <3> QED BY <3>3
    <2>4. CASE Loses
      <3>1. PICK y \in Texts : Leaves(y) /\ sent' = sent
        BY <2>4 DEF Loses
      <3>2. Delivery!Lose(y)
        BY <3>1 DEF Delivery!Lose, Leaves
      <3> QED BY <3>2
    <2> QED BY <2>1, <2>2, <2>3, <2>4 DEF TextStep
  <1>4. DataType /\ OnceInv /\ CallerInv /\ [TurnNext]_turnVars => TextStep
    BY OnceStep
  <1> QED
    BY OnceInit, TurnTypeSafe, TypeParts, <1>1, <1>2, <1>3, <1>4, PTL
       DEF TurnSpec, ImplementsDelivery, Delivery!Spec

\* voice.c gives a text up where it says so and nowhere else: no cancel, error frame,
\* hook or drop of the link removes it on the way.
THEOREM LostForCauseSafe == TurnSpec => LostForCause
  <1>1. DataType /\ OnceInv /\ CallerInv /\ [TurnNext]_turnVars => OnceInv' /\ CallerInv'
    BY OnceStep
  <1>2. DataType /\ OnceInv /\ CallerInv /\ [TurnNext]_turnVars =>
          [\A x \in Texts :
             Waits(x) /\ ~Waits(x)' /\ sent'[x] = sent[x] =>
               SendFailed(x) \/ JobFailed(x) \/ SlotGivenUp(x)]_turnVars
    <2> SUFFICES ASSUME DataType, TextStep, NEW x \in Texts, Waits(x), ~Waits(x)', sent'[x] = sent[x]
                 PROVE  SendFailed(x) \/ JobFailed(x) \/ SlotGivenUp(x)
      BY OnceStep
    <2>1. ~Keeps /\ ~Types
      BY DEF Keeps, Types
    <2>2. ~Sends
      BY DEF Sends, Leaves, DataType
    <2> QED BY <2>1, <2>2 DEF TextStep, Loses, Leaves
  <1> QED BY OnceInit, TurnTypeSafe, TypeParts, <1>1, <1>2, PTL DEF TurnSpec, LostForCause
=============================================================================

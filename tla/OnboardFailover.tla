--------------------------- MODULE OnboardFailover ---------------------------
(***************************************************************************)
(* main/voice_onboard.c: the K144 module as a substitute for Dragon.  Its  *)
(* failover state, the timer that retries after a failure, the jobs the    *)
(* shared worker runs for it (warm-up, reset, a text turn, its speech) and *)
(* the chain task of a spoken conversation.  What K144 answers is a        *)
(* choice, and so is every allocation that may fail.  The listener for the *)
(* wake word is reduced to whether arming it succeeds, the watchdog of the *)
(* pump to the resets it asks for, and the baud rate to the time it takes  *)
(* to change: sys.reboot, the restart of the device after three failed     *)
(* ones and the wake sources "dragon" and "off", which disarm the pump as  *)
(* "k144" does, are left out.  The turns of Dragon are the subject of      *)
(* VoiceTurn; here the WebSocket task only stores READY or IDLE.           *)
(***************************************************************************)
EXTENDS Integers, Sequences

CONSTANTS
  QueueDepth,    \* TAB5_WORKER_QUEUE_DEPTH
  RetryMax,      \* M5_AUTO_RETRY_MAX
  MaxProbes,     \* pings of a reset, 14 in the code
  MaxTails,      \* bound on chain tasks between their end and their last store
  Storers        \* the tasks that store IDLE: WebSocket, LVGL, HTTP with a cancel

ASSUME FailoverAssumption ==
  /\ QueueDepth \in Nat \ {0} /\ RetryMax \in Nat /\ MaxProbes \in Nat \ {0}
  /\ MaxTails \in Nat \ {0} /\ "http" \notin Storers

VARIABLES
  s_m5_failover,
  s_m5_failover_in_flight,
  s_auto_retry_timer,          \* the timer is running
  s_auto_retry_count,
  s_auto_retry_suppressed,
  gave_up,                     \* auxiliary: why nothing retries UNAVAILABLE
  jobs, job, stage,            \* the worker: its queue, what it runs, how far it is
  tries,                       \* pings of this reset
  s_state,                     \* the voice state
  chain, s_chain_stop_flag,    \* the chain: "off", "setup", "run"
  starting, tails,             \* chain_start before its last store, chain tasks
                               \* after s_chain_active went down
  wake_src, s_armed,           \* the setting; the microphone pump is armed
  http,                        \* POST /tinkeron/wake_src: "none", or "bump" while it
                               \* raises the baud rate
  lowering,                    \* tasks between s_armed = false and the release
  orphan                       \* auxiliary: nobody is left to end the turn

retry == <<s_auto_retry_timer, s_auto_retry_count, s_auto_retry_suppressed, gave_up>>
worker == <<job, stage, tries>>
chains == <<chain, s_chain_stop_flag, starting, tails>>
voice == <<s_state, orphan>>
pump == <<wake_src, s_armed, http, lowering>>
failoverVars == <<s_m5_failover, s_m5_failover_in_flight, retry, jobs, worker, voice,
                  chains, pump>>

Kinds == {"warmup", "reset", "text", "tts", "arm"}
Busy == {"PROCESSING", "SPEAKING"}
Lowerers == Storers \cup {"http"}   \* the tasks that disarm the pump
Active == chain # "off"            \* s_chain_active

FailoverTypeOK ==
  /\ s_m5_failover \in {"UNKNOWN", "PROBING", "READY", "UNAVAILABLE"}
  /\ s_m5_failover_in_flight \in BOOLEAN
  /\ s_auto_retry_timer \in BOOLEAN /\ s_auto_retry_suppressed \in BOOLEAN
  /\ s_auto_retry_count \in 0..RetryMax
  /\ gave_up \in {"no", "turn timeout", "queue full", "suppressed", "released",
                  "no timer", "exhausted"}
  /\ jobs \in Seq(Kinds) /\ Len(jobs) <= QueueDepth
  /\ job \in Kinds \cup {"none"}
  /\ stage \in {"none", "probe", "infer", "arm", "armPump", "baud", "play"}
  /\ tries \in 0..MaxProbes - 1
  /\ s_state \in {"IDLE", "READY", "LISTENING"} \cup Busy /\ orphan \in BOOLEAN
  /\ chain \in {"off", "setup", "run"} /\ s_chain_stop_flag \in BOOLEAN
  /\ starting \in BOOLEAN /\ tails \in 0..MaxTails
  /\ wake_src \in {"k144", "ext_pcm"} /\ s_armed \in BOOLEAN
  /\ http \in {"none", "bump"} /\ lowering \subseteq Lowerers

FailoverInit ==
  /\ s_m5_failover = "UNKNOWN" /\ s_m5_failover_in_flight = FALSE
  /\ s_auto_retry_timer = FALSE /\ s_auto_retry_count = 0
  /\ s_auto_retry_suppressed = FALSE /\ gave_up = "no"
  /\ jobs = <<"warmup">> /\ job = "none" /\ stage = "none" /\ tries = 0
  /\ s_state = "IDLE" /\ orphan = FALSE
  /\ chain = "off" /\ s_chain_stop_flag = FALSE
  /\ starting = FALSE /\ tails = 0
  /\ wake_src \in {"k144", "ext_pcm"} /\ s_armed = FALSE
  /\ http = "none" /\ lowering = {}

-----------------------------------------------------------------------------
(* The worker queue, the retry timer and the failover state.               *)

\* tab5_worker_enqueue drops the job when the queue is full.
Room == Len(jobs) < QueueDepth

\* Mutant: the queue is taken to have room always.
EnqueueMutant(j) == jobs' = Append(jobs, j)

Enqueue(j) == jobs' = IF Room THEN Append(jobs, j) ELSE jobs

\* voice_onboard_reset_failover looks at the state only: resets that are queued
\* do not count.
ResetAsked == s_m5_failover # "PROBING" /\ Enqueue("reset")

\* Mutant: the early return the code once had while the retry was suppressed.
MarkUnavailableMutant ==
  IF s_auto_retry_suppressed THEN UNCHANGED <<s_m5_failover, retry>>
  ELSE /\ s_m5_failover' = "UNAVAILABLE"
       /\ s_auto_retry_timer' = TRUE /\ gave_up' = "no"
       /\ UNCHANGED <<s_auto_retry_count, s_auto_retry_suppressed>>

\* Mutant: a running timer is stopped and not started again.
MarkUnavailableStopMutant ==
  /\ s_m5_failover' = "UNAVAILABLE"
  /\ s_auto_retry_timer' = (~s_auto_retry_timer /\ s_auto_retry_count < RetryMax)
  /\ gave_up' = IF s_auto_retry_suppressed THEN "suppressed"
                ELSE IF s_auto_retry_count >= RetryMax THEN "exhausted" ELSE "no"
  /\ UNCHANGED <<s_auto_retry_count, s_auto_retry_suppressed>>

\* mark_k144_unavailable.  A running timer is stopped first; the timer may not be
\* created or not be started again.
MarkUnavailable ==
  /\ s_m5_failover' = "UNAVAILABLE"
  /\ \/ s_auto_retry_suppressed
        /\ gave_up' = "suppressed" /\ UNCHANGED s_auto_retry_timer
     \/ ~s_auto_retry_suppressed /\ s_auto_retry_count >= RetryMax
        /\ gave_up' = "exhausted" /\ UNCHANGED s_auto_retry_timer
     \/ /\ ~s_auto_retry_suppressed /\ s_auto_retry_count < RetryMax
        /\ \/ gave_up' = "no" /\ s_auto_retry_timer' = TRUE
           \/ gave_up' = "no timer" /\ s_auto_retry_timer' = FALSE
  /\ UNCHANGED <<s_auto_retry_count, s_auto_retry_suppressed>>

\* mark_k144_recovered, with the store of READY before it.
MarkRecovered ==
  /\ s_m5_failover' = "READY"
  /\ s_auto_retry_count' = 0 /\ s_auto_retry_timer' = FALSE /\ gave_up' = "no"
  /\ UNCHANGED s_auto_retry_suppressed

\* voice_onboard_suppress_auto_retry(true): the state is forced to READY.
Suppress ==
  /\ s_auto_retry_suppressed' = TRUE /\ s_m5_failover' = "READY" /\ gave_up' = "no"
  /\ UNCHANGED <<s_auto_retry_timer, s_auto_retry_count>>

\* voice_onboard_suppress_auto_retry(false) starts no timer: an outage that came
\* while the retry was suppressed stays without one.
Release ==
  /\ s_auto_retry_suppressed' = FALSE
  /\ gave_up' = IF gave_up # "suppressed" THEN gave_up
                ELSE IF s_auto_retry_timer THEN "no" ELSE "released"
  /\ UNCHANGED <<s_m5_failover, s_auto_retry_timer, s_auto_retry_count>>

\* Mutant: the recheck of the state lets only UNKNOWN through.
AutoRetryFiresMutant ==
  /\ s_auto_retry_timer /\ s_auto_retry_timer' = FALSE
  /\ IF s_m5_failover = "UNKNOWN" THEN Enqueue("reset") ELSE UNCHANGED jobs
  /\ UNCHANGED <<s_m5_failover, s_m5_failover_in_flight, s_auto_retry_suppressed, worker,
                 s_auto_retry_count, gave_up, voice, chains, pump>>

\* auto_retry_timer_cb.
AutoRetryFires ==
  /\ s_auto_retry_timer /\ s_auto_retry_timer' = FALSE
  /\ \/ /\ s_auto_retry_suppressed
        /\ gave_up' = IF s_m5_failover = "UNAVAILABLE" THEN "suppressed" ELSE "no"
        /\ UNCHANGED <<jobs, s_auto_retry_count>>
     \/ /\ ~s_auto_retry_suppressed
        /\ s_m5_failover \in {"READY", "PROBING"} \/ s_auto_retry_count >= RetryMax
        /\ UNCHANGED <<jobs, s_auto_retry_count, gave_up>>
     \/ /\ ~s_auto_retry_suppressed /\ s_m5_failover \notin {"READY", "PROBING"}
        /\ s_auto_retry_count < RetryMax
        /\ s_auto_retry_count' = s_auto_retry_count + 1
        /\ Enqueue("reset") /\ gave_up' = IF Room THEN gave_up ELSE "queue full"
  /\ UNCHANGED <<s_m5_failover, s_m5_failover_in_flight, s_auto_retry_suppressed, worker,
                 voice, chains, pump>>

\* Settings, POST /m5/reset and the watchdog of the pump ask in the same way.
ResetRequested ==
  /\ ResetAsked
  /\ UNCHANGED <<s_m5_failover, s_m5_failover_in_flight, retry, worker, voice, chains, pump>>

-----------------------------------------------------------------------------
(* The voice state and the microphone pump.                                *)

\* voice_set_state with any state but IDLE.  Its own hook arms the pump on READY.
SetState(st) ==
  /\ s_state' = st /\ orphan' = FALSE
  /\ s_armed' = (s_armed \/ (st = "READY" /\ s_state # "READY" /\ wake_src = "ext_pcm"))
  /\ UNCHANGED <<wake_src, http, lowering>>

\* voice_ext_pcm_stream_disarm: between the flag and the release of the retry the
\* task waits for the baud rate.
Disarm(t) ==
  /\ t \notin lowering /\ s_armed' = FALSE
  /\ lowering' = IF s_armed THEN lowering \cup {t} ELSE lowering
Lowered(t) ==
  /\ t \in lowering /\ lowering' = lowering \ {t} /\ Release
  /\ IF t = "http" THEN Enqueue("arm") ELSE UNCHANGED jobs
  /\ UNCHANGED <<s_m5_failover_in_flight, worker, voice, chains, wake_src, s_armed, http>>

\* voice_set_state(IDLE), whose hook disarms the pump.
SetIdle(t) ==
  /\ s_state # "IDLE" /\ s_state' = "IDLE" /\ orphan' = FALSE
  /\ Disarm(t) /\ UNCHANGED <<wake_src, http>>

\* voice_cancel, by hand or from the stuck watchdog of the overlay, and the WebSocket
\* task when Dragon comes or goes: the chain and the jobs go on.
VoiceCancel ==
  /\ SetState("READY") \/ \E t \in Storers : SetIdle(t)
  /\ UNCHANGED <<s_m5_failover, s_m5_failover_in_flight, retry, jobs, worker, chains>>

\* POST /tinkeron/wake_src, one request at a time.  For k144 the pump is disarmed and
\* the listener armed, at once or when the baud rate is down (Lowered).
SelectK144 ==
  /\ http = "none" /\ wake_src' = "k144" /\ Disarm("http")
  /\ IF s_armed THEN UNCHANGED jobs ELSE Enqueue("arm")
  /\ UNCHANGED <<s_m5_failover, s_m5_failover_in_flight, retry, worker, voice, chains, http>>
\* For ext_pcm the retry is suppressed while the baud rate is raised, and released
\* again when that fails; the pump is armed in either case.
SelectPump ==
  /\ http = "none" /\ "http" \notin lowering
  /\ http' = "bump" /\ wake_src' = "ext_pcm" /\ Suppress
  /\ UNCHANGED <<s_m5_failover_in_flight, jobs, worker, voice, chains, s_armed, lowering>>
PumpSelected ==
  /\ http = "bump" /\ http' = "none" /\ Enqueue("arm") /\ s_armed' = TRUE
  /\ Release \/ UNCHANGED <<s_m5_failover, retry>>
  /\ UNCHANGED <<s_m5_failover_in_flight, worker, voice, chains, wake_src, lowering>>

PumpNext ==
  \/ VoiceCancel \/ SelectK144 \/ SelectPump \/ PumpSelected
  \/ \E t \in Lowerers : Lowered(t)

-----------------------------------------------------------------------------
(* The jobs of the worker: one at a time, in the order they were queued.   *)

Take(j, st) ==
  /\ job = "none" /\ jobs # <<>> /\ Head(jobs) = j
  /\ jobs' = Tail(jobs) /\ job' = j /\ stage' = st /\ tries' = 0
Finish == job' = "none" /\ stage' = "none" /\ tries' = 0

\* onboard_warmup_job and onboard_reset_failover_job: both flip the state first.
ProbeBegins ==
  /\ Take("warmup", "probe") \/ Take("reset", "probe")
  /\ s_m5_failover' = "PROBING" /\ gave_up' = "no"
  /\ UNCHANGED <<s_m5_failover_in_flight, s_auto_retry_timer, s_auto_retry_count,
                 s_auto_retry_suppressed, voice, chains, pump>>

\* The warm-up gives up after its one ping, the reset after the last of its pings
\* or at once when the stop flag of some earlier chain is still up.
ProbeUnanswered ==
  /\ stage = "probe"
  /\ \/ /\ job = "warmup" \/ tries + 1 >= MaxProbes \/ s_chain_stop_flag
        /\ MarkUnavailable /\ Finish
     \/ /\ job = "reset" /\ tries + 1 < MaxProbes /\ ~s_chain_stop_flag
        /\ tries' = tries + 1 /\ UNCHANGED <<s_m5_failover, retry, job, stage>>
  /\ UNCHANGED <<s_m5_failover_in_flight, jobs, voice, chains, pump>>

\* A ping was answered, then the "hi" that maps the model into memory.  wake_src is read here, before the
\* listener is armed.
WarmOk ==
  /\ stage = "probe"
  /\ MarkRecovered /\ stage' = IF wake_src = "ext_pcm" THEN "armPump" ELSE "arm"
  /\ UNCHANGED <<s_m5_failover_in_flight, jobs, job, tries, voice, chains, pump>>
WarmFails ==
  /\ stage = "probe" /\ MarkUnavailable /\ Finish
  /\ UNCHANGED <<s_m5_failover_in_flight, jobs, voice, chains, pump>>

\* The listener refuses, is not wanted or runs already.
ArmEnds ==
  /\ stage \in {"arm", "armPump"} /\ Finish
  /\ UNCHANGED <<s_m5_failover, s_m5_failover_in_flight, retry, jobs, voice, chains, pump>>
\* The daemon still holds old units (TT #580): another reset, outside the budget.
ArmRefused ==
  /\ stage \in {"arm", "armPump"} /\ Finish
  /\ IF s_m5_failover = "PROBING" THEN UNCHANGED jobs ELSE Enqueue("reset")
  /\ UNCHANGED <<s_m5_failover, s_m5_failover_in_flight, retry, voice, chains, pump>>
\* The retry is suppressed while the baud rate is raised for the pump.
PumpBaud ==
  /\ stage = "armPump" /\ stage' = "baud" /\ Suppress
  /\ UNCHANGED <<s_m5_failover_in_flight, jobs, job, tries, voice, chains, pump>>

\* Mutant: a baud rate that could not be raised leaves the pump alone.
ArmPumpMutant ==
  /\ stage = "baud" /\ Finish /\ s_armed' \in {TRUE, s_armed}
  /\ UNCHANGED <<s_m5_failover, s_m5_failover_in_flight, retry, jobs, voice, chains,
                 wake_src, http, lowering>>

\* The pump is armed, whether the rate could be raised, or was up already.
ArmPump ==
  /\ stage = "baud" \/ (stage = "armPump" /\ job = "warmup")
  /\ Finish /\ s_armed' = TRUE
  /\ UNCHANGED <<s_m5_failover, s_m5_failover_in_flight, retry, jobs, voice, chains,
                 wake_src, http, lowering>>

\* arm_wakeword_async_job: arms, gives up, or queues itself for another attempt.
ArmJob ==
  /\ job = "none" /\ jobs # <<>> /\ Head(jobs) = "arm"
  /\ jobs' \in {Tail(jobs), Append(Tail(jobs), "arm")}
  /\ UNCHANGED <<s_m5_failover, s_m5_failover_in_flight, retry, worker, voice, chains, pump>>

\* voice_onboard_send_text.
SendText ==
  /\ s_m5_failover = "READY" /\ ~s_m5_failover_in_flight /\ Room
  /\ Enqueue("text")
  /\ UNCHANGED <<s_m5_failover, s_m5_failover_in_flight, retry, worker, voice, chains, pump>>

\* onboard_failover_text_job.
TextBegins ==
  /\ Take("text", "infer") /\ s_m5_failover_in_flight' = TRUE /\ SetState("PROCESSING")
  /\ UNCHANGED <<s_m5_failover, retry, chains>>
\* The reply is shown and its speech queued; without a copy or a slot it stays text.
TextAnswered ==
  /\ job = "text" /\ Finish /\ s_m5_failover_in_flight' = FALSE
  /\ \/ Room /\ Enqueue("tts") /\ SetState("SPEAKING")
     \/ SetState("READY") /\ UNCHANGED jobs
  /\ UNCHANGED <<s_m5_failover, retry, chains>>

\* Mutant: the job returns once it has locked the failover.
TextFailsMutant ==
  /\ job = "text" /\ Finish /\ s_m5_failover_in_flight' = FALSE
  /\ \/ SetState("READY") /\ UNCHANGED <<s_m5_failover, gave_up>>
     \/ /\ s_m5_failover' = "UNAVAILABLE" /\ UNCHANGED <<voice, pump>>
        /\ gave_up' = IF s_auto_retry_timer THEN gave_up ELSE "turn timeout"
  /\ UNCHANGED <<s_auto_retry_timer, s_auto_retry_count, s_auto_retry_suppressed, jobs, chains>>

\* A timeout locks the failover, without mark_k144_unavailable.
TextFails ==
  /\ job = "text" /\ Finish /\ s_m5_failover_in_flight' = FALSE /\ SetState("READY")
  /\ \/ UNCHANGED <<s_m5_failover, gave_up>>
     \/ /\ s_m5_failover' = "UNAVAILABLE"
        /\ gave_up' = IF s_auto_retry_timer THEN gave_up ELSE "turn timeout"
  /\ UNCHANGED <<s_auto_retry_timer, s_auto_retry_count, s_auto_retry_suppressed, jobs, chains>>

\* onboard_chain_tts_job.
TtsBegins ==
  /\ Take("tts", "play")
  /\ UNCHANGED <<s_m5_failover, s_m5_failover_in_flight, retry, voice, chains, pump>>
\* Without memory for the samples it returns at once and leaves SPEAKING to another
\* speech or to the chain, if there is one.
TtsNoMemory ==
  /\ job = "tts" /\ Finish
  /\ orphan' = (orphan \/ (/\ s_state = "SPEAKING" /\ ~Active /\ tails = 0
                           /\ \A i \in DOMAIN jobs : jobs[i] # "tts"))
  /\ UNCHANGED <<s_m5_failover, s_m5_failover_in_flight, retry, jobs, s_state, chains, pump>>
TtsPlayed ==
  /\ job = "tts" /\ Finish
  /\ IF ~Active /\ s_state = "SPEAKING" THEN SetState("READY") ELSE UNCHANGED <<voice, pump>>
  /\ UNCHANGED <<s_m5_failover, s_m5_failover_in_flight, retry, jobs, chains>>

WorkerNext ==
  \/ ProbeBegins \/ ProbeUnanswered \/ WarmOk \/ WarmFails
  \/ ArmEnds \/ ArmRefused \/ PumpBaud \/ ArmPump \/ ArmJob
  \/ TextBegins \/ TextAnswered \/ TextFails \/ TtsBegins \/ TtsNoMemory \/ TtsPlayed

-----------------------------------------------------------------------------
(* The chain: started and stopped on the LVGL thread, run by its own task. *)

offChain == <<s_m5_failover, s_m5_failover_in_flight, retry, worker>>

\* voice_onboard_chain_start up to the new task, which may not be created.
ChainStart ==
  /\ ~Active /\ ~starting
  /\ s_chain_stop_flag' = FALSE
  /\ \/ chain' = "setup" /\ starting' = TRUE
     \/ UNCHANGED <<chain, starting>>
  /\ UNCHANGED <<offChain, jobs, tails, voice, pump>>
\* Its last store, which may come when the task has failed and ended already.
ChainStartEnds ==
  /\ starting /\ starting' = FALSE
  /\ s_state' = "PROCESSING" /\ orphan' = (~Active /\ tails = 0)
  /\ UNCHANGED <<offChain, jobs, chain, s_chain_stop_flag, tails, pump>>
\* voice_onboard_chain_stop: nothing takes the flag back but the next start.
ChainStop ==
  /\ Active /\ s_chain_stop_flag' = TRUE
  /\ UNCHANGED <<offChain, jobs, chain, starting, tails, voice, pump>>

\* onboard_chain_drain_task.
ChainReady ==
  /\ chain = "setup" /\ chain' = "run" /\ SetState("LISTENING")
  /\ UNCHANGED <<offChain, jobs, s_chain_stop_flag, starting, tails>>
ChainSetupFails ==
  /\ chain = "setup" /\ chain' = "off" /\ SetState("READY")
  /\ UNCHANGED <<offChain, jobs, s_chain_stop_flag, starting, tails>>
\* onboard_text_callback: the first token of a reply, and its end.
ChainToken ==
  /\ chain = "run" /\ SetState("PROCESSING")
  /\ UNCHANGED <<offChain, jobs, chains>>
ChainReply ==
  /\ chain = "run" /\ SetState("LISTENING")
  /\ Enqueue("tts") \/ UNCHANGED jobs
  /\ UNCHANGED <<offChain, chains>>
\* The run ends on the flag, on an error or after ten minutes; the task stores
\* READY only after it has released the chain.
ChainEnds ==
  /\ chain = "run" /\ tails < MaxTails /\ chain' = "off" /\ tails' = tails + 1
  /\ UNCHANGED <<offChain, jobs, s_chain_stop_flag, starting, voice, pump>>

\* Mutant: the task ends without its last store when a new chain is active.
ChainTailMutant ==
  /\ tails > 0 /\ tails' = tails - 1
  /\ IF s_state = "LISTENING" THEN UNCHANGED <<voice, pump>> ELSE SetState("READY")
  /\ UNCHANGED <<offChain, jobs, chain, s_chain_stop_flag, starting>>

ChainTail ==
  /\ tails > 0 /\ tails' = tails - 1 /\ SetState("READY")
  /\ UNCHANGED <<offChain, jobs, chain, s_chain_stop_flag, starting>>

ChainNext ==
  \/ ChainReady \/ ChainSetupFails \/ ChainToken \/ ChainReply \/ ChainEnds \/ ChainTail
  \/ ChainStart \/ ChainStartEnds \/ ChainStop
FailoverNext ==
  WorkerNext \/ ChainNext \/ PumpNext \/ SendText \/ ResetRequested \/ AutoRetryFires

FailoverFairness ==
  /\ WF_failoverVars(WorkerNext) /\ WF_failoverVars(AutoRetryFires)
  /\ WF_failoverVars(ChainReady \/ ChainSetupFails \/ ChainEnds) /\ WF_failoverVars(ChainTail)

FailoverSpec == FailoverInit /\ [][FailoverNext]_failoverVars /\ FailoverFairness

-----------------------------------------------------------------------------
\* PROBING refuses every reset and every text turn, so it must never outlive the
\* job that probes, whatever that job ends with (voice_onboard.c:283-300).
ProbingHasJob == s_m5_failover = "PROBING" => job \in {"warmup", "reset"}

\* An unavailable module has a retry on its way, a retry that is suppressed still,
\* or it was left alone by one of the five steps that can do so: the timer was not
\* made, the budget is spent, the queue was full, a turn timed out, or the suppression
\* was released over the outage (voice_onboard.c:70-91, 258-281, 326, 338, 576, 1386).
RetryOrReason ==
  s_m5_failover = "UNAVAILABLE" =>
    \/ s_auto_retry_timer \/ \E i \in DOMAIN jobs : jobs[i] = "reset"
    \/ gave_up = "suppressed" /\ s_auto_retry_suppressed
    \/ gave_up \in {"no timer", "exhausted", "queue full", "turn timeout", "released"}

\* The retry is suppressed only while the pump is armed, or by a task that is about
\* to arm it or to give the retry back: disarming does nothing without the pump, so
\* no order of the worker, the HTTP task and the hooks of the state may leave a
\* suppression behind, which would outlive every outage (voice_ext_pcm_stream.c:383).
SuppressedForPump ==
  s_auto_retry_suppressed => s_armed \/ stage = "baud" \/ http = "bump" \/ lowering # {}

\* The device says it listens only while K144 runs the conversation or its task
\* has yet to take the state back (voice_onboard.c:1246, 1265-1277).
ListeningIsReal == s_state = "LISTENING" => chain = "run" \/ tails > 0

\* The job or the chain ends a turn without the help of the stuck watchdog, but for
\* two leaks: speech without memory, and a chain_start that stores PROCESSING when its
\* task has failed already (voice_onboard.c:582, 1039, 1070, 1277, 1339).
TurnEnds == s_state \in Busy ~> s_state \notin Busy \/ orphan

\* Once the retry timer is armed the module comes back, is probed again or is
\* given up for a reason (voice_onboard.c:332).
RetryHappens ==
  s_m5_failover = "UNAVAILABLE" /\ s_auto_retry_timer
    ~> (s_m5_failover # "UNAVAILABLE" \/ gave_up # "no")
=============================================================================

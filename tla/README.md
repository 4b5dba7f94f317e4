# TinkerTab in TLA+

TinkerTab is the firmware of the Tab5, an ESP32-P4 tablet that is the face of a
voice assistant: it records and plays audio, shows the chat and the notes, and
talks over one WebSocket to *Dragon*, the server that hears, thinks and speaks.
This directory models the parts of `src/main` whose correctness depends on the
order in which FreeRTOS tasks, LVGL callbacks, frames of Dragon, reboots and
failures meet.  Paths below are relative to the repository; `ui_notes.c:1350`
means `src/main/ui_notes.c`, line 1350.

- [1. The system](#1-the-system)
- [2. Modules](#2-modules)
- [3. Runs](#3-runs)
- [4. Proofs](#4-proofs)
- [5. Where the code and its texts disagree](#5-where-the-code-and-its-texts-disagree)
- [6. Not modelled](#6-not-modelled)
- [7. Plan](#7-plan)

Everything is checked with

    tlc -workers 2 -config MCNoteStore.cfg MCNoteStore.tla     # a run
    tlapm VoiceTurnProofs.tla                                  # the proofs of a module

## 1. The system

### Tasks and locks

| task | runs | shares |
|---|---|---|
| LVGL (`ui_core.c`, `ui_task`) | all widgets, timers, input handlers and every callback marshalled with `tab5_lv_async_call`, under `s_lvgl_mutex` | the chat ring, the notes ring, the orb |
| WS client | the events and frames of the WebSocket, `voice_ws_proto.c` | the voice state, the playback buffer, the dictation pipeline |
| connector (`async_connect_task`) | starts the client | the voice state, the client |
| shared worker (`task_worker.c`) | queued jobs, one after the other, at most 16 waiting | whatever the job touches |
| microphone, playback (`voice.c`) | capture and drain of audio, alive for ever | `s_mic_running`, the playback buffer, the voice state |
| transcription queue (`ui_notes.c`) | every 15 s uploads one recorded note | the notes ring, without a lock |
| K144 chain task (`voice_onboard.c`) | one spoken conversation with the stacked module | the voice state, `s_chain_active` |
| boot task (`main.c`) | the order of start-up; applies a pending update, marks the image valid | NVS, the app partitions |
| HTTP debug server, timers | test access, grace and retry timers | everything above |

`s_state_mutex` guards single reads and writes of the voice state, never a
check followed by a write.  The dictation state machine has a mutex of its own
and dispatches to its subscribers while holding it.  The notes ring and the chat
ring have none: the chat ring is confined to the LVGL thread by convention, the
notes ring is not.

### Components

For each: the state it keeps, its operations, what makes it hard, and what makes
it correct.

**Chat store** (`chat_msg_store.c`).  A ring of bubbles with a write index, a
count and the active session.  `add`, `update_last_text`, `attach_receipt_ex`,
`pop_last`, `clear`, `set_session`, writes through `get_mut`.  Hard: eviction and
wrap-around against logical indices.  Correct: it is a bounded log, nothing lives
outside its window, receipts sit under replies, one session at a time.

**Chat overlay** (`ui_chat.c`, and the receipts of `voice_billing.c`).  The overlay,
a `s_streaming` flag and the state it last polled.  Typed text, the final push of
a reply, deltas, tool and media bubbles, the 150 ms poll of the voice state,
receipts, the session drawer, "new chat".  Called by the WS task through
marshalled callbacks.  Hard: four writers look for "the same" reply with two
different walks.  Correct: one reply is one bubble; a reply never replaces what
the user wrote.

**Dictation pipeline** (`voice_dictation.c`, `voice_dictation_lvgl.c`).  One event
record (state, failure reason, note slot), a mutex, a table of subscribers.
`set_state`, `set_note_slot`, `get`, `subscribe`.  Moved by the WS task, the
transcription queue, the microphone, a grace timer, the debug server and LVGL
handlers.  Hard: dispatch under the lock into the LVGL lock; callback order.
Correct: only legal transitions; a failure reason goes with FAILED and with
nothing else, IDLE has no note; every surface ends up showing the pipeline's state; no
deadlock.

**Orb and home chip** (`ui_orb.c`, `ui_home.c`).  The painted pipeline state and the
two-second fade of SAVED.  Correct: a fade never ends a recording.

**Notes** (`ui_notes.c`).  A ring of notes, a count, the next slot, a recording
counter, one open WAV, an armed slot, and two files (a JSON file on the SD card,
an NVS blob).  Add, edit, delete, retry, clear failed; start, arm, cancel and stop
a recording; the transcription queue, the fetch of a full transcript; load and save.
Hard: a task that holds a note across a two-minute upload, saves of several threads on
one temporary file without a lock, reboots and power loss inside a save, a card that
refuses writes, a count kept by hand.  Correct: the next boot shows the notes that are
shown, a WAV belongs to one note, the queue writes to the note it read.

**Voice session** (`voice.c`, `voice_ws_proto.c`, the watchdog of `ui_voice.c`).  The
voice state, conversation mode, a one-slot queue of texts, the playback buffer,
the microphone flag and semaphore, the client and its reconnect state.
Start/stop listening, cancel, send text, connect, disconnect, the frames and link
events, hooks on READY.  Hard: six tasks store the state after the network call
they made on the strength of an older one; frames of a cancelled turn still arrive; the
link fails anywhere.  Correct: a text is sent once; the state agrees with the
link; the microphone opens only when the user wants it.

**Task worker** (`task_worker.c`).  A bounded queue that drops when full.  Correct:
callers survive a drop.

**K144** (`voice_onboard.c`, `voice_m5_llm.c`).  The failover state of the stacked
module, a retry timer with a budget and a switch that suppresses it, worker jobs (warm-up,
reset, text turn, speech, wake word), and a chain task for spoken conversations.
Hard: every job has many exits and each must take PROBING, BUSY or SPEAKING back; the
queue drops; chains overlap.  Correct: no state outlives what justifies it; an outage
is retried or given up for a recorded reason; a turn ends.

**Solo mode** (`voice_solo.c`, `openrouter_client.c`, `solo_session_store.c`).  One
turn at a time (`s_busy`), a cancel flag, a session file replaced by a temporary one.
Typed and spoken turns, the cancel, two appends per turn.  Hard: the cancel comes
from another thread at any moment of a blocking call; writes and power fail between any two
of them.  Correct: a cancelled turn leaves nothing; history is not lost; `s_busy` and
the state always come back.

**OTA** (`ota.c`, `main.c`).  Three NVS keys of a pending update, the version tried
last, two app partitions.  Schedule, restart, read and erase the keys, download,
check, flash, restart, mark valid.  Hard: two callers, and power loss between any two
writes.  Correct: an update is tried once, with its hash, never into the partition that
starts.

**Voice modes** (`voice_modes.c`, `mode_manager.c`).  Which of the routes a turn
takes, and the mode switch under its lock.  Correct: one route per turn.

**Wake word** (`voice_wake_stream.c`), **widgets** (`widget_store.c`: 32 slots
with priorities), **service registry** (`service_registry.c`: dependency order),
**settings** (`settings.c`), **health** (`heap_watchdog.c`), **media
cache** (`media_cache.c`), **codec and calls** (`voice_codec.c`, `voice_video.c`),
**camera** (`ui_camera.c`), **debug server** (`debug_server*.c`), **board support**
(`src/bsp`), vendored components.

### How they interact

    user ──> LVGL handlers ──> voice.c ──frames──> Dragon
                 │                ▲                   │
                 │      READY hooks, worker           │ frames
                 ▼                                    ▼
    chat ring <── marshalled callbacks <───── voice_ws_proto.c ──> dictation pipeline
                                                                        │ subscribers
    notes ring <── transcription queue ──> dictation pipeline ──> orb, chip, notes row

    user ──> voice_modes.c ──> worker jobs ──> K144 (UART) or OpenRouter (HTTP)
                                   │                  │
                                   ▼                  ▼
                             voice state        playback, chat, session file

    Settings, debug server ──> NVS keys ──restart──> boot task ──> other partition ──restart──> mark valid

## 2. Modules

| module | what | code |
|---|---|---|
| `ChatLog` | abstract: a bounded log of bubbles | `chat_msg_store.h` |
| `ChatStore` | the ring, implements `ChatLog` | `chat_msg_store.c` |
| `ChatUI` | extends `ChatStore` and implements it: the overlay's handlers and the voice state they poll | `ui_chat.c` |
| `DictationPipeline` | transitions of the pipeline as functions on its record | `voice_dictation.c` |
| `DictationView` | extends it: lock, dispatch, marshalling, a pass of `ui_task`, the orb | `voice_dictation.c`, `voice_dictation_lvgl.c`, `ui_orb.c`, `ui_core.c` |
| `NoteStore` | ring, recorder, the steps of `notes_save`, transcription queue, fetch task, reboots | `ui_notes.c` |
| `TextDelivery` | abstract: what `voice_send_text` promises of a text | `voice.c` |
| `VoiceTurn` | one conversation: voice state, commands, worker, playback, mic, link, frames; implements `TextDelivery` | `voice.c`, `voice_ws_proto.c`, `task_worker.c` |
| `OnboardFailover` | K144 in place of Dragon: failover state, retry timer, worker jobs, chain, the microphone pump that suppresses the retry | `voice_onboard.c`, `task_worker.c`, `debug_server_tinkeron.c`, `voice_ext_pcm_stream.c`, the hooks of `voice.c` |
| `SessionLog` | abstract: what an append to a session promises | `solo_session_store.c` |
| `SoloTurn` | a turn against OpenRouter and the file of its history, implements `SessionLog` | `voice_solo.c`, `solo_session_store.c`, the solo branches of `voice.c` |
| `UpdateOnce` | abstract: an update that is asked for is tried once | `ota.c` |
| `Ota` | schedule, boots, flash, report of a rollback; implements `UpdateOnce` | `ota.c`, `main.c` |
| `ChatStoreProofs`, `ChatUIProofs`, `DictationProofs`, `NoteStoreProofs`, `VoiceTurnProofs`, `OnboardProofs`, `SoloProofs`, `OtaProofs` | theorems | |
| `MC...` | instances for TLC | |

Variables keep the names of the C statics.  An action is a handler, or the part
of a handler between two points where another task can matter; its comment names
the function.  A definition called `...Mutant` is not part of a specification: it
is the definition after it with a plausible bug, which shows that a property can fail.

**Atomicity.**  A handler on the LVGL thread that touches only LVGL-confined state
is one action, with the save or refresh it ends in.  In `DictationView` the
acquisition of each mutex is a step.  In `NoteStore` every operation on a file is one:
a save prints the ring in the step of its caller and then opens the temporary
file, writes it, removes the old file, renames, or falls back on the blob, interleaved with
the saves of the other threads and with power loss.  The queue task checks its guards,
picks a note, opens its WAV and takes the answer in steps of its own.  In
`VoiceTurn` a step ends at a network send, at the stop of the client, before the write of
decoded audio, and after `voice_set_state` has stored the state, whose hooks are further
steps; so every check-then-act across a send, a stop or a hook is interleaved with all
other tasks.
In `OnboardFailover` and `SoloTurn` a job is cut where it blocks (a ping, an inference,
a request, a file operation) and where it hands over to another task; a ping that is
answered and the first inference after it are one step, because the job touches nothing
shared between them.  Every task that changes the baud rate for the microphone pump (the
worker, `POST /tinkeron/wake_src`, the hook of IDLE) does so in two steps, what comes
before the blocking call and what comes after it.  The hook of READY arms the pump, and
the hook of IDLE lowers its flag, in the step that stores the state, which collapses the
at most 200 ms that `voice_set_state` waits for the LVGL lock in between.  In `Ota` every
NVS write and every flash operation is a step, and power may be lost before each.

**Abstractions.**  Texts are model values or numbers; a WAV is the number in its
name, so a reused number is a reused file.  Notes are `Short`, `Long` (what the
64 KB limit of the reader counts) or the transcript of a recording.  Audio is a
buffer that is empty or not.  Timers (the poll, fade, watchdog, back-off, the 250 ms
before the mic reopens) may fire at any time after they are armed.  `malloc` fails where
that loses a text or a turn: the frame of a text, the job of a queued text, the
samples of a speech, the retry timer; elsewhere it does not, or a full queue stands for it.
Auxiliary variables: `from` in a bubble of `ChatStore` (the session it was added
in); `crowded` in `DictationView` (the last event marshalled found another one waiting);
`saves` and `doubt` in `NoteStore` (the latter what section 3 says of it); `sent` in
`VoiceTurn`; `gave_up` (why nothing retries an unavailable module) and `orphan` (nobody is
left to end the turn) in `OnboardFailover`; `turn`, `cancelled`, `heard` and `saved` in
`SoloTurn`; `schedules`, `applies`, `writer` (the task whose schedule alone wrote the
keys) and `due` (the hash the update is to be checked against) in `Ota`.  No guard looks
at them, except where a bound does.

**External code.**  Dragon is in `VoiceTurn` an automaton over the frames its
handlers know: register, hear, think, speak, with errors.  Frames it sent before it
saw a cancel stay under way.  LVGL's order of marshalled callbacks is the constant
`NewestFirst` of `DictationView`, because the repository states both orders:
`ui_notes.c:1035` and `1408` say LIFO, `voice_billing.c:139` relies on FIFO.  What
`DictationView` proves holds in either order; its three runs use the newest first, and
`dictation_order` shows what that order does to two events that wait together.  `ChatUI` lets
callbacks arrive in any order.  In `VoiceTurn` the client reports a drop with
DISCONNECTED or a graceful end with CLOSED, tries again by itself, and its stop
waits for the WS task, as `voice_ws_proto.c` and `voice.c` expect of it.  K144 and
OpenRouter are choices: each call answers, fails or times out.  The bootloader of `Ota`
starts the partition set last, because `src/sdkconfig.defaults` does not enable
`CONFIG_BOOTLOADER_APP_ROLLBACK_ENABLE`; an image outside `Good` never reaches
`MarkValid`.  The version in an image's descriptor (`Desc`) is another value than
`TAB5_FIRMWARE_VER` (`Ver`), because `src/CMakeLists.txt` sets no `PROJECT_VER` and
ESP-IDF then takes `git describe`.

**Details worth knowing.**

- `ChatStore`: the argument of every operation comes from all values a caller may
  pass, so the module holds without its callers; `ChatUI` then restricts them.
- `ChatUI`: `overlay` tells a handler that runs before `ui_chat_create` from one on
  a hidden overlay, since the poll only runs on a shown one.  `v_llm` changes under
  the poll as the WS task streams.
- `DictationPipeline`: `Moved` refuses an illegal transition and a repeated one, as
  the code does; two moves in one handler compose.
- `NoteStore`: `saving[t]` is how far a thread is in `notes_save` and the JSON it has
  printed, which leaves out hidden slots.  The card is mounted.  With `SdFails` it may
  refuse any operation; a rename also fails when the name exists, as in FatFs.  A save goes
  to the NVS blob when the card did not take it, and a blob longer than NVS holds
  (`BlobRoom`) is not written.  `Reboot` may come between any two steps and loads the first
  file that can be read.  `Threads` are those that run handlers (LVGL, the serial console);
  the queue task saves besides, and so does one fetch of a full transcript at a time.  The
  second save of a dictated note, for its chip, is left out.  `s_note_count` may become
  negative: the type invariant bounds it by the number of slots either way.  That the queue
  picks a note without a WAV takes a fifth save and is in no passing run; the proofs cover
  it.
- `VoiceTurn`: `after[t]` is how far task `t` is in the hooks; a task does nothing else
  meanwhile.  `cmd[c]` is where a caller stands in a command; the names `started`,
  `stopped`, `cancelled`, `sending` are after the send, which may fail with the link up (its
  timeout, no memory for the frame); `closing` and `closed` are before and after
  `voice_disconnect` stops the client, `restarting` is the connector before it does.
  `commands`, `texts` and `links` only count towards the bounds.
- `OnboardFailover`: `s_state` is the voice state as far as K144 and the pump depend on it.
  `Storers` are the tasks that store IDLE, whose hook disarms the pump: the
  WS task, LVGL, the HTTP task with a cancel.  `lowering` holds the tasks between
  `s_armed = false` and the release of the retry, `http` is "bump" while
  `POST /tinkeron/wake_src` raises the baud rate, the stage `baud` while a warm-up or
  reset does.  `tails` counts chain tasks that have released the chain and not yet
  stored READY, `starting` a `voice_onboard_chain_start` before its last store.
  `ResetRequested` stands for all that ask for a reset (Settings, `POST /m5/reset`, the
  pump's watchdog).  The wake sources "dragon" and "off", the UART and the
  watchdog's escalation are left out.
- `SoloTurn`: a session is a set of entries `<<turn, role>>`; the limit of 50 turns, at
  which the oldest are dropped, is not modelled.  `file` is never half written, `tmp` may
  be.  `PowerLoss` includes `solo_session_open` of the next boot.  READY stands for IDLE
  too.  `Modes` are the voice modes the settings may hold: a cancel is told to the job in
  "solo" only, while a turn can go to OpenRouter in another mode as well.  The mutex of
  `s_busy` is taken to exist (`voice_solo.c:44` creates it on first use).
- `Ota`: a failed write ends a schedule and leaves what is written; the result of
  `nvs_erase_key`, which the code ignores, is taken to be success.  The hash may be unreadable
  at boot, which is then none.  Tasks schedule from the moment the home screen is there,
  before the image is marked valid.  The request of a task in `Shared` lies in statics that
  a second check rewrites in the middle of its schedule (`CheckAgain`).  `Downloaded` delivers
  any image, since the server may have changed meanwhile.

## 3. Runs

**Fairness.**  `OnboardFailover` and `SoloTurn` state weak fairness of what a task or
a timer does by itself, never of the user.  For the worker and the chain task: FreeRTOS
schedules a ready task, and every call they block in returns, because each has a timeout
(`M5_PING_TIMEOUT_MS`, the `M5_FAILOVER_*` timeouts, those of the HTTP client, ten
minutes for a chain).  For the retry timer (`esp_timer`) and the playback task: once armed
they fire.  Nothing is assumed of the stuck watchdog: it is a one-shot LVGL timer that only
`ui_voice_on_state_change` makes (`ui_voice.c:399`), and `voice_set_state` skips that when
the LVGL lock is busy for 200 ms (`voice.c:437`).  The turns of `OnboardFailover` and `SoloTurn`
are to end without it.  Which answer a fair step brings stays a
choice.  The other specifications state no fairness, and nothing is claimed there to
happen eventually.

### Passing

| run | instance | distinct states | shows |
|---|---|---|---|
| `chat_store` | 3 slots, 2 sessions, 1 text | 29,259 | `StoreTypeOK`; `OnlyWindowIsActive`: nothing is left outside the window; `ReceiptsUnderReplies`; `OneSessionShown`; `ImplementsLog`: the ring refines `ChatLog` |
| `chat_ui` | 3 slots, a question and an answer, windows 3 and 2 | 332,784 | `ChatTypeOK`; `RepliesNotSplit`: one reply is one bubble as far as the walks reach; `AsyncTextSparesUser`: only a poll that believes it is streaming may edit a user's bubble; `UsesStore`: every edit is an operation of the store |
| `dictation_view` | 2 tasks, 3 queued callbacks, newest first | 24,889 | `ViewTypeOK`; `EventConsistent`; `LoneEventShown`: an event that was marshalled alone is what the orb shows in the end; `FadeSparesRecording`: nor does an old fade end its recording |
| `note_store` | 2 slots, 1 recording, 4 saves, a card that fails, typed notes long, one fits the card file and none the blob; LVGL, queue and fetch task | 1,195,651 | `NoteTypeOK`; `NextBootShowsNotes`: what is on the screen is what the next boot reads; `WavOwned` |
| `voice_turn` | 2 texts, 4 commands, 2 connections, 2 frames under way, queue of 1 | 983,437 | `TurnTypeOK`; `TextSentOnce`; `StateFitsLink`; `ImplementsDelivery`: slot, jobs and callers refine `TextDelivery`; `LostForCause`: a text that waits goes to Dragon or is lost in one of three places, its own send that fails, a job without a link, the slot that gives it up |
| `onboard_failover` | queue of 1, 1 retry, 2 pings, 1 ended chain, one task besides the HTTP server that disarms the pump | 460,078 | `FailoverTypeOK`; `ProbingHasJob`: PROBING never outlives the probe; `RetryOrReason`: an outage without a retry is one of five that the code leaves alone; `SuppressedForPump`: no suppression of the retry outlives the pump; `ListeningIsReal`; liveness `TurnEnds` (without the watchdog, but for two leaks), `RetryHappens` |
| `solo_turn` | 2 turns, 2 modes | 141,498 | `SoloTypeOK`; `HeardNotKept`: a cancel the running job was told of before its last look keeps the turn out of the history; `RunKeepsHistory`; `ImplementsSession`: files and buffer refine `SessionLog`; liveness `BusyEnds`, `TurnEnds` |
| `ota` | 3 images (one that does not come up), 2 callers, one of them with rewritable statics, 2 schedules | 1,711,269 | `OtaTypeOK`; `FlagHasUrl`; `AppliedOnce`; `BootIsComplete`; `HashNotLost`: what one schedule alone wrote is installed with its hash, if the hash can be read; `ImplementsUpdate`: keys, partitions and boots refine `UpdateOnce` |

Why the bounds are enough.  Three slots make the ring evict, wrap and leave a
bubble between two others; the windows 6 and 4 of the code become 3 and 2, which
keeps one larger than the other and lets bubbles leave both (`MergeWindow` equals
the ring there, so the limit that matters is `UpdateWindow`).  Two tasks besides
LVGL are the number needed for one to wait while another holds a lock.  Two note slots and
one recording let a slot be deleted and reused under the queue, the ring wrap,
and a number come back after a reboot.  Four saves allow three threads in `notes_save`
at once and one after them, or an overlap on either side of a reboot.  What a user types is
long in this run: short notes come from recordings, and one note of each fits the reader's
limit where two long ones do not; the blob takes the short ones.  In `voice_turn` one text can
be in its turn while the other is queued; four commands allow connect, start, stop
and a text, or a text, a second one and a cancel; two connections give a drop and
a recovery; a queue of one job is full as soon as the drained text meets
the relisten job (the code's 16 would never be).  In `onboard_failover` a queue of one is
full with any job that waits behind the one that runs; one retry is spent and then
exhausted; the second ping is the last; one ended chain can overlap with a new one; two tasks
disarm the pump while the worker arms it.  In `solo_turn` the second turn
meets what the first left in flags, files and the playback task.  In `ota`
two callers interleave the writes of two schedules, the second of which may be made by an
image the first installed.

What `NextBootShowsNotes` leaves out is in `doubt`: the last save overlapped
another, was refused by a card that still holds an older file, or is too long for what
will be read, or the last boot found a file that an overlap had torn.  The code loses or revives
notes in each of these (section 5); the next save that is free of them ends the doubt.

`dictation_view` and `voice_turn` do not check for deadlock.  The first has the lock
cycle of section 5; in the second the device waits for ever once the bounds on
commands and connections are used up.

Each property of these runs is broken by the mutant listed for it: a count that
forgets its cap, a walk that skips too much, a fade that survives a repaint, a
failed write of the temporary file taken for done, a recording saved with the counter that
is yet to move, a queued text handed over but not cleared, a
closed link that leaves the state alone, an early return that the code once had
while the retry was suppressed, keys that are cleared after the update and not
before it, a hash that does not match and is only reported, a session file that is
written in place, one that cannot be read and is begun anew, a baud rate that could not be
raised and leaves the pump alone, and so on.

### Violations

`dictation_locks`, `dictation_order`, `note_queue_slot`, `solo_cancel`: each checks one
sentence of the repository and TLC finds a behaviour of the code against it; see section 5.

## 4. Proofs

Each theorem holds for every value of the constants under the assumptions named
in the module that declares them: positive ring size, distinct "none" values, and
the like.  TLC evaluates those assumptions in the runs.

**`ChatStoreProofs!StoreTypeSafe`** (`StoreTypeOK`).  Inductive as it stands; the work
is in showing that every index computed modulo the ring size is a slot
(`ModInSlots`), the index of `pop_last` and the start of the window included.
`OneSessionSafe` (`OneSessionShown`) and `ReceiptsSafe` (`ReceiptsUnderReplies`) follow
from it, one operation at a time.

**`ChatStoreProofs!OnlyWindowSafe`** (`OnlyWindowIsActive`) and **`RingImplementsLog`**
(`ImplementsLog`).  Neither solver reasons about `%`, so the proofs count the age of a
bubble instead: `Age(w, i)` is 1 for the slot written last, and `Aged` is its inverse.
`RealIsAged` shows once that the code's modular index is the slot of an age, `AgeMoves`
that a new bubble makes all others one older and that `pop_last` takes this back.  `ByAge`
(a slot holds a bubble exactly when its age is at most `s_count`) is equivalent to
`OnlyWindowIsActive` and inductive (`WindowStep`).  By it the transcript is the ring read by
ages (`TranscriptReads`), and each operation of the ring is one of the log on it, or none:
`AddAppends`, `RewriteEdits`, `PopDrops`, `WipeEmpties`, put together in `LogStep`.

**`ChatUIProofs`** (`ChatTypeSafe`, `OverlayUsesStore`, `StoreUnderOverlay`,
`RepliesNotSplitSafe`, `AsyncTextSparesUserSafe`).  `MergeWalk` and `UpdateWalk` say that
each of the two walks ends on a reply or there is none near (`NoneNear`).  By them
`StepKind` cuts every handler of the overlay down to five things it can do to the store: add
a bubble, a reply only where none is near (`Grows`); rewrite a reply, or what the blind poll
takes for one (`Edits`); drop the newest; wipe; nothing.  Each is an operation of
`ChatStore`, so the store's theorems hold under the overlay.  For `RepliesNotSplit` the
transcript is taken as the log it is (`SplitFree`): a log stays free of split replies when
its oldest bubble is evicted, when its newest is dropped, and when a reply is added with
`RoomAtEnd`. `AsyncTextSparesUserSafe` assumes `MaxMessages # 1`: in a ring of one slot an
added bubble overwrites the question without moving the index (the code has 100).  There is
a text for replies (`TextAssumption`), because a card carries some text.

**`DictationProofs`** (`EventSafe`, `ViewTypes`, `OrbFollows`, `FadeSafe`).  `Sane` says of
the event record what `EventConsistent` does, with its type, and each transition and
attachment keeps it, since callers pass a reason with FAILED and with nothing else (`Asked`).
`LoneEventShown` speaks of the moment when no callback is outstanding; `Follows` says of every
moment that, unless the last event found another one waiting or a task is about to
post, the one callback queued, or without one the orb, has the pipeline's state, and that
the fade is armed only while the orb shows SAVED.  `Held` (which task owns which mutex) and
`Queued` (the types of queue and orb) carry it.  No order of callbacks is assumed: with one
waiting there is none.

**`NoteStoreProofs!WavOwnedSafe`** (`WavOwned`).  Not inductive: a new recording gets
the counter's number, so no note may have that number yet, and a reboot loads
counter and notes from either file, each possibly older than the other.  `WavInv` says of the
ring, of *both files, the temporary one and what every thread has printed* that notes
have numbers below their own counter and no two share one (`Owned`), hidden slots
included, because completing an armed recording makes one visible again.  A save
prints the ring (`PrintsOwned`), its steps move what was printed from place to place, and
`RebootOwned` carries it back into the ring, where the counter is the larger of two;
`RecordOwned` and `SameWavs` are the two kinds of change to the ring.  No step needs that saves
do not overlap.

**`NoteStoreProofs!NoteTypeSafe`** (`NoteTypeOK`) and **`NextBootSafe`**
(`NextBootShowsNotes`).  Handlers add and subtract one from `s_note_count`, `Delete` without a
floor and `Cancel` for a note that was taken off before.  What bounds it is that the count is
never below the number of visible notes by more than the ring's size, in the ring and
wherever a printed file is, because a reboot loads the count with the notes.
`KeptInv` follows one save through its steps: unless there is `doubt`, at most one thread is in
`notes_save` (`Active`), what it printed shows the ring as it is, and at each of its steps it
is known which of the files already does (`Stage`); when no thread is, the file that a boot
would read shows the ring (`BootShows`).  `StepKinds` cuts the handlers down to those that print
(`Prints`), those that leave ring and files alone (`Quiet`), the steps of a save, the
hiding of an armed note and the reboot.

**`VoiceTurnProofs!StateFitsLinkSafe`** (`StateFitsLink`).  Between a loss of the link and the
state the WS task stores for it, other tasks run.  `FitInv` adds that the link is
then `down`, which no other task changes: the connector and
`voice_disconnect` stop the client, which waits for the WS task, and each of them is
between the stop and its own store in a step the property names.  Steps of other
tasks fall under `CalmStep`: they leave the link alone and store neither SPEAKING nor
RECONNECTING.

**`VoiceTurnProofs!TurnTypeSafe`** (`TurnTypeOK`).  Inductive as it stands; it is cut into
the flags (`FlagType`) and the other variables (`DataType`), which do not need each other.

**`VoiceTurnProofs!TextSentOnceSafe`** (`TextSentOnce`).  Not inductive: that a text has
not gone yet says nothing of a second copy that may still go.  `OnceInv` says that a
text that may still go is in one place only (the slot, one job, or one command that
has not sent it: `Held`), that it has not gone, and that the user sent it, so that a
new text is nowhere yet.  Most steps give no text a new place (`KeepStep`); five move
one: from a command to the slot, from the slot to a job (or nowhere, when the queue is
full), from a job to a command of the worker, from a command to Dragon, and the
typing of a new one.  `AppendHas` and `TailHas` are what the proof needs of the
worker's queue.  `OnceInv` relies on `DataType`.

**`DeliveryImplemented`** (`ImplementsDelivery`) and **`LostForCauseSafe`**
(`LostForCause`), of `VoiceTurnProofs` too, read the same lemmas as a refinement: of all
texts together a step keeps where they are (`Keeps`), accepts a new one (`Types`), sends one
(`Sends`) or loses one (`Loses`), and what `Loses` is one of the three causes: a send that
fails with the link up or without it, a job that finds no link, the slot whose text is
replaced or finds no room or memory for its job.  `CallerInv` adds at which points of a
command a caller has a text: none while it records, one from the moment the text may be
queued or sent.

**`OnboardProofs`** (`FailoverTypes`, `ProbingEnds`, `RetriedOrGivenUp`, `SuppressionHeld`,
`ListeningReal`).  `FailoverInv` adds to the types that the job and the stage at which the
state may be PROBING are known (`Probing`), that a running retry timer still has budget when
it fires (`TimerLeft`), and that UNAVAILABLE has its timer, a reason or a queued reset
(`Retried`), where the reason "suppressed" lasts only as long as the suppression
(`StillSuppressed`); the worker that takes the reset leaves UNAVAILABLE in the same step,
and the lemmas about `Append` and `Tail` say that no other step loses it. `Suppressed` needs
that only a warm-up or a reset raises the baud rate (`Raising`), that only the pump's steps,
the wake source and the stores of a state touch the suppression and the pump (`OnlyPump`),
and that whoever lowers the pump's flag has yet to give the retry back (`DisarmSuppressed`),
for any number of tasks that do.

**`SoloProofs`** (`SoloTypes`, `CancelHeard`, `HistoryKept`, `SessionImplemented`).
`SoloInv` says that a turn that was told of a cancel has no entry in either file or in the
buffer (`Kept`), that a turn has none before its answer has come (`Fresh`), that
`s_cancel_requested` stands while the running turn was told and a turn being saved was not
(`Told`), that a job holds `s_busy`, so that no second turn moves `turn` under it (`Taken`),
and at which stage which file holds what is saved (`Stored`): between `unlink` and `rename`
only the temporary one. The refinement of `SessionLog` reads the session from the file, or,
while it is gone, from its replacement.  `Placed` says that the buffer is the file and the
one entry that is being saved, `InOrder` that of the running turn nothing but the question
is there when the answer is saved; by `Kept` no later turn has an entry at all.  Each step
then leaves the session, adds to it, puts it in place or loses it (`SessionStep`).

**`OtaProofs`** (`OtaTypes`, `FlagUrl`, `AtMostOnce`, `AlwaysBoots`, `AlwaysChecked`,
`UpdateImplemented`).
`OtaInv` adds that tasks schedule only while the device is up (`TasksWait`), that a URL
is written before the hash and the flag (`UrlFirst`), that the flag is down once it was
erased and what is pending is one more schedule than was applied (`FlagOnce`,
`Counted`), that the partition that runs is the one to start until the other is complete
(`Partitions`), and that a hash that is due is wherever the update is: in the
task that wrote the URL last and alone, in the keys, in the locals of the boot
(`Hashed`).  For the refinement of `UpdateOnce` it adds that what is about to
be installed has the hash that was read (`Verified`); the erasure of the flag is what
begins the attempt, the choice of the partition what installs, and every other step of a boot
waits or fails (`UpdateStep`).

Every safety, action and refinement property of the passing runs is a theorem.  Only
model-checked: the liveness properties (`TurnEnds`, `RetryHappens`, `BusyEnds`).  Out of the
prover's reach: liveness under fairness and ENABLED, and what a recursively defined operator
computes for every input.  No module uses RECURSIVE.

## 5. Where the code and its texts disagree

With a run:

| run | the text | the code |
|---|---|---|
| `dictation_locks` | `docs/STABILITY-INVESTIGATION.md:454`: no path holds another mutex while taking the LVGL mutex | `voice_dictation_set_state` dispatches with its mutex held (`voice_dictation.c:176`) into a callback that takes the LVGL mutex, while handlers take the two in the other order |
| `dictation_order` | `docs/superpowers/specs/2026-05-14-dictation-pipeline-notes-redesign-design.md:114`: all surfaces render the same state, they never disagree | each transition is marshalled by itself (`voice_dictation_lvgl.c:27`) and LVGL runs the newest first (`ui_notes.c:1408`): of two events in one pass the older is painted last and stays |
| `note_queue_slot` | `ui_notes.c:1603`: the queue uploads a WAV and updates the note | it keeps a slot pointer for the whole upload; a deleted and reused slot gets the transcript |
| `solo_cancel` | `voice_solo.c:191`: a cancelled reply is not persisted | a spoken turn's job clears `s_cancel_requested` when it starts (`voice_solo.c:325`, a typed one at `160`), so a cancel while it is queued is lost |

The models reach these too; no run of their own is kept for them (for the rollback report,
`INVARIANT RollbackReportTrue` in `MCOta.cfg` shows it):

- `settings.h:157`: a version mismatch after an update means a rollback.  `ota.c:330`
  records the descriptor's version (`git describe`) and `main.c:665` compares it with
  `TAB5_FIRMWARE_VER`, so an update that came up is reported as rolled back.
- `ota.c:411`: two schedules at a time, of Settings and the debug server, write the keys in
  turn, and a second check of Settings rewrites the statics its schedule still
  reads: the flag then announces the URL of one update with the hash of another, or with
  none.  `HashNotLost` leaves these out.  `ota.c:467`: a hash that cannot be read is none, and
  the image is flashed unchecked.
- `chat_msg_store.h:122` says a receipt goes to the newest bubble that is not the user's;
  the code (`chat_msg_store.c:196`) looks for a reply of type MSG_TEXT, so
  that a card or an image that came in between does not take it.  `ReceiptsUnderReplies` states
  the latter; the comment in the code gives the reason, and the header was not changed with it.
- `voice.c:2135`: `voice_cancel` tells the job of a solo turn only in SOLO_DIRECT, so a turn
  under an `llm_engine` override goes on and is kept.
- `ui_notes.c:592` against `ui_notes.h:5`: the card file is read first.  When the card
  refuses a save and still holds an older file, the blob takes the notes and the next boot
  does not show them.  A list that is too long for the blob (`nvs_set_blob` is not checked)
  is nowhere.
- `ui_notes.c:571`: two saves at once share `NOTES_TMP_PATH`: one is renamed while the other
  writes it, or the second `remove` takes what the first renamed and finds nothing to
  rename.  The file is torn, old or gone until the next save.
- `voice_onboard.c:1386`: releasing the suppression starts no timer, so an outage that came
  under it is retried by nothing ("released"); a wake source of "k144" has no pump whose
  watchdog would ask for a reset.  `voice_onboard.c:326`, `338`: neither is one whose timer
  could not be made.
- `voice.c:547` against `voice_onboard.c:88`: the retry is said to be suppressed while the
  pump owns the channel.  The hook of READY arms the pump without suppressing it, and a
  release that comes late, from a task still lowering the baud rate, leaves an armed pump
  without it.
- `voice_onboard.c:1339`: `voice_onboard_chain_start` stores PROCESSING when its task may
  have failed and ended already; `1039`: speech without memory returns with SPEAKING.  Both
  leave the turn to the stuck watchdog, a one-shot timer that is not made when the LVGL lock
  was busy at the last store (`voice.c:437`).
- `voice.c:1759`, against `voice.h:89`: LISTENING and PROCESSING are stored after the send,
  whatever the WS task stored since, and stay on a link that dropped meanwhile.
- `ui_chat.c:873` says the branch that overwrote a user bubble with the reply is gone;
  its twin in `poll_voice` (`ui_chat.c:521`) still does so, once the reply left the walk.
- `ui_notes.c:1325`: an armed note is hidden after its first save, and the
  next save of any note drops it from the files.
- `ui_notes.h:84` against `ui_notes.c`: the flag of an armed recording outlives it when an
  offline one replaces it, and cancel then deletes audio that waits for transcription.
- `voice.h:87`: IDLE is "Not connected and not trying"; a cancel while connecting (for instance
  `ui_mode_sheet.c:194`) stores IDLE, `session_start` is then ignored
  (`voice_ws_proto.c:817`), and the session lives while the device shows IDLE.
- `solo_session_store.c:172`: power loss between `unlink` and `rename` leaves no session
  file; `solo_session_open` creates an empty one (`95`), and the next append overwrites the
  temporary one.  `175`: a rename that fails removes it as well.
- `voice_onboard.c:445` and `961`: the resets asked for when the wake word is refused are
  outside the retry budget.  `910`: the stop flag of an ended chain makes every
  later reset give up after one ping.
- `voice.c:2076`: a spoken turn refused because a typed one runs stores READY over it.
- `SECURITY.md:189` says the bootloader reverts an image that crashes; no
  `sdkconfig.defaults*` enables it, and an image that does not come up stays.
- `ui_chat.c:1273`: an empty `text_update`, meant to remove the last reply, pops
  whatever bubble is last, a card that came in between included.
- `ui_chat.c:386` against `chat_msg_store.h:84`: the drawer's "new conversation" can
  keep bubbles.
- `voice_dictation.c:126` against `voice_dictation.h:82`: SAVED may go to RECORDING.
- `voice_dictation.c:139` against `voice_dictation.h:65`: a recording that follows SAVED or
  FAILED keeps the note slot of the last dictation until another is attached.
- `ui_notes.c:1379` against `3195` and the list loop at `3234`: `s_note_count` can differ
  from the number of used notes.
- `ui_notes.c:636` against `ui_notes.h:5`: a notes file of 64 KB or more is written but
  not read back.
- `ui_notes.c:585` against `563` and `584`: power loss between `remove` and `rename`
  leaves no notes file.
- `ui_notes.c:1619` against `1617`: the queue can upload while a recording runs.
- `voice.c:355-357`: conversation mode is said to end with `voice_stop_listening`, an
  empty transcript and a dropped link; none of the three clears `s_conv_active`.
- `voice.h:89`: READY is "Connected"; a cancel or a stale `s_tts_done` stores it after
  the link dropped.

## 6. Not modelled

Dictation frames inside `VoiceTurn` (the pipeline has modules of its own), calls
and video, the back-off arithmetic, the hard kick of the Wi-Fi and the give-up after
repeated 401s; sync of notes to Dragon; the UART protocol of K144 (`voice_m5_llm.c`,
`m5_stackflow.c`), the HTTP client of OpenRouter, retrieval and new sessions in solo mode,
`version.json` and progress of an update; audio itself, codecs, drivers, display, camera,
caches: signal processing, I/O or linear code, where order does not matter.  Widgets, the
service registry, the mode manager and the wake word have control worth modelling and are
planned.  `src/components` is vendored code; the models take from it what `src/main`
expects of it.

Hazards no module reaches: `debug_server_voice.c:96` (the chat store cleared from the HTTP
thread), `voice_onboard.c:531` (a receipt attached by the worker, off the LVGL thread),
`voice_billing.c:142` (a receipt queued after a reply that has yet to be pushed),
`voice_solo.c:44` (the mutex of `s_busy` created on first use by two tasks at once),
`voice_ws_proto.c:61` and `872` (the grace timer and late frames of an earlier dictation).

The model merges reads of the voice state with the step that uses them
unless a send, a stop of the client or a hook lies between.  Windows of a few instructions, such
as the one between the check of READY and the send in `_conv_relisten_job`, are
therefore wider or narrower than in the code, as the comments say.

## 7. Plan

In this order:

1. `VoiceTurn` further: liveness (which turns end by themselves, under fairness of the
   tasks, and which only by the watchdog; a queued text leaves the slot), what the end of a
   recording at its 60 s cap leaves behind, an abstract specification of a whole turn, as
   `TextDelivery` is one of a text.
2. `DictationSession`: pipeline with Dragon's sessions, the 45 s grace timer
   (`voice_ws_proto.c:61`), late `dictation_postprocessing_*` frames and the recorder of
   `NoteStore`.
3. `ChatMarshal`: the order of marshalled callbacks towards `ChatUI` (receipts of
   `voice_billing.c`, replay of session messages, the debug server's clear from its
   own thread).
4. `WsLink`: back-off, the kick at the fifth failure that CLOSED steps over, 401s,
   `s_disconnecting`, the fallback to ngrok.
5. `ModeManager`: the mode switch under its lock, and one voice state shared by
   `VoiceTurn`, `SoloTurn` and `OnboardFailover`, which today are three instances of it.
6. `WakeWord`: the stream of `voice_wake_stream.c`, wake sources "dragon" and "off".
7. `WidgetStore`, `ServiceRegistry`: eviction, dependency order, each against an
   abstract specification.

Theorems: the safety of the modules above, and the refinements their abstract
specifications call for.

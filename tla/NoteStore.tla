----------------------------- MODULE NoteStore -----------------------------
(***************************************************************************)
(* main/ui_notes.c: the notes ring, its file on the SD card with the NVS   *)
(* fallback, the recorder that owns at most one WAV at a time, the task of *)
(* the transcription queue and the task that fetches a full transcript.    *)
(* They all edit the ring and call notes_save without a lock, so their     *)
(* saves may interleave on the one temporary file; a reboot may come at    *)
(* any moment.  Note bodies are reduced to what the file limit and the     *)
(* transcripts tell apart; needs_sync, chips, dates and the list widgets   *)
(* are left out.                                                           *)
(***************************************************************************)
EXTENDS Integers, FiniteSets

CONSTANTS
  Threads,      \* the threads that run handlers: LVGL's, the serial console's
  MaxNotes,     \* MAX_NOTES
  MaxRec,       \* bound on recordings ever started
  FileRoom,     \* how many full-length notes a card file under 64 KB can hold
  BlobRoom,     \* how many the NVS partition can hold
  MaxSaves,     \* bound on saves ever begun
  SdFails,      \* whether a mounted card may refuse an operation
  Lengths,      \* how long the notes are that a user types or dictates online
  NoFile, Torn  \* no file; one that is empty or does not parse

ASSUME NoteAssumption ==
  /\ MaxNotes \in Nat \ {0} /\ MaxRec \in Nat /\ FileRoom \in Nat /\ BlobRoom \in Nat
  /\ MaxSaves \in Nat /\ SdFails \in BOOLEAN /\ {"queue", "fetch"} \cap Threads = {}

VARIABLES
  s_notes, s_note_count, s_next_slot, s_next_rec_id,
  s_rec_file, s_rec_path,      \* a recording's number, 0 for none
  s_rec_note_slot, s_pipeline_armed_slot,
  q_pc, q_slot, q_wav,         \* transcription_queue_task
  f_slot,                      \* fetch_full_transcript_task: its note, -1 for none
  wavs,                        \* recordings on the card
  sd, tmp,                     \* /sdcard/notes.json and notes.json.tmp
  nvs, nvs_recid,              \* the NVS blob and counter
  saving, saves,               \* how far each thread is in notes_save; saves begun
  doubt                        \* auxiliary: the last save overlapped another, was
                               \* refused by the card or is too long to be read, or
                               \* the last boot found a torn card file

ring == <<s_notes, s_note_count, s_next_slot>>
recorder == <<s_rec_file, s_rec_path, s_rec_note_slot, s_pipeline_armed_slot>>
queue == <<q_pc, q_slot, q_wav>>
memory == <<ring, s_next_rec_id, recorder, queue, f_slot>>
files == <<sd, tmp, nvs, nvs_recid>>
saver == <<saving, saves, doubt>>
noteVars == <<memory, wavs, files, saver>>

Slots == 0..MaxNotes - 1
Recordings == 1..MaxRec
NoteStates == {"TEXT", "RECORDED", "TRANSCRIBING", "TRANSCRIBED", "FAILED"}
Savers == Threads \cup {"queue", "fetch"}

\* text: the number of the recording it transcribes, or else how long it is.
Short == 0
Long == -1

ASSUME LengthAssumption == Lengths \subseteq {Short, Long}

Note == [used : BOOLEAN, state : NoteStates, wav : Recordings \cup {0},
         text : {Short, Long} \cup Recordings]
Blank == [used |-> FALSE, state |-> "TEXT", wav |-> 0, text |-> Short]

NoteFile == [notes : [Slots -> Note], count : -MaxNotes..MaxNotes, next : Slots,
             recid : 1..MaxRec + 1]

ASSUME NoFileAssumption == NoFile # Torn /\ {NoFile, Torn} \cap NoteFile = {}

\* pc: the step of notes_save to come; "hide": ui_notes_pipeline_arm_recording
\* has yet to hide the note it saved.
SavePcs == {"idle", "open", "write", "remove", "rename", "blob", "hide"}
Idle == [pc |-> "idle", file |-> NoFile, arms |-> FALSE]

\* Each cancel of an armed recording takes its note off s_note_count a second
\* time, Delete does so without a floor, yet never by more than there are slots.
NoteTypeOK ==
  /\ s_notes \in [Slots -> Note] /\ s_note_count \in -MaxNotes..MaxNotes
  /\ s_next_slot \in Slots /\ s_next_rec_id \in 1..MaxRec + 1
  /\ s_rec_file \in Recordings \cup {0} /\ s_rec_path \in Recordings \cup {0}
  /\ s_rec_note_slot \in Slots \cup {-1} /\ s_pipeline_armed_slot \in BOOLEAN
  /\ q_pc \in {"wait", "checked", "picked", "upload"}
  /\ q_slot \in Slots \cup {-1} /\ q_wav \in Recordings \cup {0}
  /\ f_slot \in Slots \cup {-1} /\ wavs \subseteq Recordings
  /\ sd \in NoteFile \cup {NoFile, Torn} /\ tmp \in NoteFile \cup {NoFile, Torn}
  /\ nvs \in NoteFile \cup {NoFile} /\ nvs_recid \in 1..MaxRec + 1
  /\ saving \in [Savers -> [pc : SavePcs, file : NoteFile \cup {NoFile}, arms : BOOLEAN]]
  /\ saves \in 0..MaxSaves /\ doubt \in BOOLEAN

NoteInit ==
  /\ s_notes = [i \in Slots |-> Blank]
  /\ s_note_count = 0 /\ s_next_slot = 0 /\ s_next_rec_id = 1
  /\ s_rec_file = 0 /\ s_rec_path = 0
  /\ s_rec_note_slot = -1 /\ s_pipeline_armed_slot = FALSE
  /\ q_pc = "wait" /\ q_slot = -1 /\ q_wav = 0 /\ f_slot = -1
  /\ wavs = {} /\ sd = NoFile /\ tmp = NoFile /\ nvs = NoFile /\ nvs_recid = 1
  /\ saving = [t \in Savers |-> Idle] /\ saves = 0 /\ doubt = FALSE

---------------------------------------------------------------------------
(* notes_save, a step for each of its calls *)

Longs(file) == Cardinality({i \in Slots : file.notes[i].used /\ file.notes[i].text = Long})

\* The thread prints the ring; its file is still to be written.
SaveAs(t, recid, arms) ==
  /\ saving[t] = Idle /\ saves < MaxSaves /\ saves' = saves + 1
  /\ saving' = [saving EXCEPT ![t] =
       [pc |-> "open", arms |-> arms,
        file |-> [notes |-> [i \in Slots |-> IF s_notes'[i].used THEN s_notes'[i] ELSE Blank],
                  count |-> s_note_count', next |-> s_next_slot', recid |-> recid]]]
  /\ doubt' = (\E u \in Savers \ {t} : saving[u].pc \notin {"idle", "hide"})
  /\ UNCHANGED files

Save(t) == SaveAs(t, s_next_rec_id', FALSE)

StepTo(t, pc) == saving' = [saving EXCEPT ![t].pc = pc]

\* notes_save returns.
Done(t) ==
  saving' = [saving EXCEPT ![t] = IF saving[t].arms THEN [Idle EXCEPT !.pc = "hide"] ELSE Idle]

\* fopen for writing empties a file that is there.
OpenTmp(t) ==
  /\ saving[t].pc = "open"
  /\ \/ tmp' = Torn /\ StepTo(t, "write")
     \/ SdFails /\ UNCHANGED tmp /\ StepTo(t, "blob")
  /\ UNCHANGED <<memory, wavs, saves, sd, nvs, nvs_recid, doubt>>

\* Mutant: whether the file was written is not asked.
WriteTmpMutant(t) ==
  /\ saving[t].pc = "write"
  /\ \/ tmp' = saving[t].file
     \/ SdFails /\ UNCHANGED tmp
  /\ StepTo(t, "remove")
  /\ UNCHANGED <<memory, wavs, saves, sd, nvs, nvs_recid, doubt>>

\* fputs, fsync and fclose.  What two writers of one file leave is anyone's
\* guess, and so is a file renamed under its writer.
WriteTmp(t) ==
  /\ saving[t].pc = "write"
  /\ \/ /\ tmp # NoFile /\ UNCHANGED sd /\ StepTo(t, "remove")
        /\ tmp' \in {saving[t].file} \cup
             IF tmp = Torn /\ \A u \in Savers \ {t} : saving[u].pc # "write" THEN {}
             ELSE {tmp, Torn}
     \/ /\ tmp = NoFile /\ UNCHANGED tmp /\ StepTo(t, "remove")
        /\ sd' \in IF sd = NoFile THEN {sd} ELSE {sd, Torn}
     \/ SdFails /\ UNCHANGED <<sd, tmp>> /\ StepTo(t, "blob")
  /\ UNCHANGED <<memory, wavs, saves, nvs, nvs_recid, doubt>>

RemoveSd(t) ==
  /\ saving[t].pc = "remove"
  /\ sd' \in IF SdFails THEN {NoFile, sd} ELSE {NoFile}
  /\ StepTo(t, "rename") /\ UNCHANGED <<memory, wavs, saves, tmp, nvs, nvs_recid, doubt>>

\* FatFs renames to a free name only.  A card file of 64 KB or more will not be
\* read.
RenameTmp(t) ==
  /\ saving[t].pc = "rename"
  /\ \/ /\ tmp # NoFile /\ sd = NoFile
        /\ sd' = tmp /\ tmp' = NoFile /\ Done(t)
        /\ doubt' = (doubt \/ Longs(saving[t].file) > FileRoom)
     \/ /\ tmp = NoFile \/ sd # NoFile \/ SdFails
        /\ UNCHANGED <<sd, tmp, doubt>> /\ StepTo(t, "blob")
  /\ UNCHANGED <<memory, wavs, saves, nvs, nvs_recid>>

\* The fallback: the blob, kept as it was when the new one does not fit, and the
\* counter as it is by now.  A card file that is still there will be read first.
SaveBlob(t) ==
  LET fits == Longs(saving[t].file) <= BlobRoom IN
  /\ saving[t].pc = "blob"
  /\ nvs' = IF fits THEN saving[t].file ELSE nvs
  /\ nvs_recid' = s_next_rec_id
  /\ doubt' = (doubt \/ ~fits \/ sd # NoFile)
  /\ Done(t) /\ UNCHANGED <<memory, wavs, saves, sd, tmp>>

SaveStep(t) == OpenTmp(t) \/ WriteTmp(t) \/ RemoveSd(t) \/ RenameTmp(t) \/ SaveBlob(t)

---------------------------------------------------------------------------
(* notes_load *)

\* The file notes_load reads: the card's, if it is under 64 KB and not empty,
\* else the blob.  One that does not parse loads nothing.
LoadedFrom(file) ==
  \/ sd = Torn /\ file \in {Torn, nvs}
  \/ sd \notin {NoFile, Torn} /\ file = IF Longs(sd) <= FileRoom THEN sd ELSE nvs
  \/ sd = NoFile /\ file = nvs

\* A note caught mid-transcription is queued again.
Restored(n) == IF n.state = "TRANSCRIBING" THEN [n EXCEPT !.state = "RECORDED"] ELSE n

Load(file) ==
  IF file \in {NoFile, Torn}
    THEN /\ s_notes' = [i \in Slots |-> Blank]
         /\ s_note_count' = 0 /\ s_next_slot' = 0 /\ s_next_rec_id' = 1
    ELSE /\ s_notes' = [i \in Slots |-> Restored(file.notes[i])]
         /\ s_note_count' = file.count /\ s_next_slot' = file.next
         /\ s_next_rec_id' = IF nvs_recid > file.recid THEN nvs_recid ELSE file.recid

\* Power is lost, in the middle of any save, and comes back: memory is gone, the
\* files are not.
Reboot ==
  /\ \E file \in {sd, nvs, Torn} : LoadedFrom(file) /\ Load(file)
  /\ s_rec_file' = 0 /\ s_rec_path' = 0
  /\ s_rec_note_slot' = -1 /\ s_pipeline_armed_slot' = FALSE
  /\ q_pc' = "wait" /\ q_slot' = -1 /\ q_wav' = 0 /\ f_slot' = -1
  /\ saving' = [t \in Savers |-> Idle] /\ doubt' = (sd = Torn)
  /\ UNCHANGED <<wavs, files, saves>>

---------------------------------------------------------------------------
(* The ring, on a handler's thread *)

NextSlot == (s_next_slot + 1) % MaxNotes

\* Mutant: a full ring counts the note it overwrites again.
CountedMutant == s_note_count + 1

Counted == IF s_note_count < MaxNotes THEN s_note_count + 1 ELSE s_note_count
Uncounted(n) == IF n > 0 THEN n - 1 ELSE n

\* ui_notes_add: the slot at s_next_slot, whatever note it holds.
Add(t, text) ==
  /\ s_notes' = [s_notes EXCEPT ![s_next_slot] =
                   [used |-> TRUE, state |-> "TEXT", wav |-> 0, text |-> text]]
  /\ s_next_slot' = NextSlot /\ s_note_count' = Counted
  /\ UNCHANGED <<s_next_rec_id, recorder, queue, f_slot, wavs>> /\ Save(t)

\* ui_notes_delete, on the user's confirmation: the WAV stays on the card.
Delete(t, i) ==
  /\ s_notes[i].used
  /\ s_notes' = [s_notes EXCEPT ![i].used = FALSE]
  /\ s_note_count' = s_note_count - 1
  /\ UNCHANGED <<s_next_slot, s_next_rec_id, recorder, queue, f_slot, wavs>> /\ Save(t)

\* ui_notes_clear_failed.
ClearFailed(t) ==
  LET failed == {i \in Slots : s_notes[i].used /\ s_notes[i].state = "FAILED"} IN
  /\ failed # {}
  /\ s_notes' = [i \in Slots |-> [s_notes[i] EXCEPT !.used = @ /\ i \notin failed]]
  /\ s_note_count' = s_note_count - Cardinality(failed)
  /\ UNCHANGED <<s_next_slot, s_next_rec_id, recorder, queue, f_slot, wavs>> /\ Save(t)

\* cb_note_retry.
Retry(t, i) ==
  /\ s_notes[i].used /\ s_notes[i].state = "FAILED" /\ s_notes[i].wav # 0
  /\ s_notes' = [s_notes EXCEPT ![i].state = "RECORDED"]
  /\ UNCHANGED <<s_note_count, s_next_slot, s_next_rec_id, recorder, queue, f_slot, wavs>>
  /\ Save(t)

\* cb_edit_save.
Edit(t, i, text) ==
  /\ s_notes[i].used
  /\ s_notes' = [s_notes EXCEPT ![i].text = text]
  /\ UNCHANGED <<s_note_count, s_next_slot, s_next_rec_id, recorder, queue, f_slot, wavs>>
  /\ Save(t)

\* cb_note_tap: a note that is not at full length is looked up in Dragon by a
\* task of its own; the model has one at a time.
FetchStarts(t, i) ==
  /\ saving[t] = Idle /\ s_notes[i].used /\ s_notes[i].text # Long /\ f_slot = -1
  /\ f_slot' = i
  /\ UNCHANGED <<ring, s_next_rec_id, recorder, queue, wavs, files, saver>>

\* fetch_full_transcript_task: the answer goes to the slot, whatever it holds by
\* then.
FetchFinishes ==
  /\ f_slot # -1 /\ saving["fetch"] = Idle
  /\ f_slot' = -1
  /\ UNCHANGED <<s_note_count, s_next_slot, s_next_rec_id, recorder, queue, wavs>>
  /\ \/ s_notes' = [s_notes EXCEPT ![f_slot].text = Long] /\ Save("fetch")
     \/ UNCHANGED <<s_notes, files, saver>>

---------------------------------------------------------------------------
(* The recorder *)

RecordingNote(rec) ==
  [used |-> TRUE, state |-> "RECORDED", wav |-> rec, text |-> Short]

\* fopen of the next path: an older WAV of that name is truncated, a file
\* still open is forgotten.
OpenWav ==
  /\ s_next_rec_id <= MaxRec
  /\ s_rec_file' = s_next_rec_id /\ s_rec_path' = s_next_rec_id
  /\ wavs' = wavs \cup {s_next_rec_id}
  /\ s_next_rec_id' = s_next_rec_id + 1

\* The card refuses the new file: its number is spent, nothing else is done.
OpenWavFails(t) ==
  /\ saving[t] = Idle /\ SdFails /\ s_next_rec_id <= MaxRec
  /\ s_rec_file' = 0 /\ s_rec_path' = 0
  /\ s_next_rec_id' = s_next_rec_id + 1
  /\ UNCHANGED <<ring, s_rec_note_slot, s_pipeline_armed_slot, queue, f_slot, wavs,
                 files, saver>>

\* The slot taken for the recording, with the file to be saved.
ReserveSlot ==
  /\ s_rec_note_slot' = s_next_slot /\ s_next_slot' = NextSlot
  /\ s_notes' = [s_notes EXCEPT ![s_next_slot] = RecordingNote(s_next_rec_id)]
  /\ s_note_count' = Counted

\* Mutant: the file is saved with the counter that is yet to move.
RecordAsMutant(t, arms) ==
  /\ OpenWav /\ ReserveSlot /\ SaveAs(t, s_next_rec_id, arms)
  /\ UNCHANGED <<s_pipeline_armed_slot, queue, f_slot>>

\* ui_notes_start_recording.
RecordAs(t, arms) ==
  /\ OpenWav /\ ReserveSlot /\ SaveAs(t, s_next_rec_id', arms)
  /\ UNCHANGED <<s_pipeline_armed_slot, queue, f_slot>>

\* An offline dictation, or the voice overlay's offline fallback.
StartRecording(t) == RecordAs(t, FALSE) \/ OpenWavFails(t)

\* ui_notes_pipeline_arm_recording: the note is saved as a visible one.
Arm(t) ==
  /\ s_rec_file = 0 /\ s_rec_note_slot = -1
  /\ RecordAs(t, TRUE) \/ OpenWavFails(t)

\* Once it is saved, the slot the recorder has by then is hidden.
Armed(t) ==
  /\ saving[t].pc = "hide" /\ saving' = [saving EXCEPT ![t] = Idle]
  /\ s_pipeline_armed_slot' = TRUE
  /\ IF s_rec_note_slot = -1 THEN UNCHANGED <<s_notes, s_note_count>>
     ELSE /\ s_notes' = [s_notes EXCEPT ![s_rec_note_slot].used = FALSE,
                                        ![s_rec_note_slot].text = Short]
          /\ s_note_count' = Uncounted(s_note_count)
  /\ UNCHANGED <<s_next_slot, s_next_rec_id, s_rec_file, s_rec_path, s_rec_note_slot,
                 queue, f_slot, wavs, files, saves, doubt>>

\* ui_notes_pipeline_cancel_recording: the chip tap whose start was refused,
\* dictation_postprocessing_cancelled.
Cancel(t) ==
  /\ s_pipeline_armed_slot /\ s_pipeline_armed_slot' = FALSE
  /\ s_rec_file' = 0 /\ s_rec_path' = 0 /\ s_rec_note_slot' = -1
  /\ wavs' = wavs \ {s_rec_path}
  /\ IF s_rec_note_slot = -1 THEN UNCHANGED <<s_notes, s_note_count>>
     ELSE /\ s_notes' = [s_notes EXCEPT ![s_rec_note_slot].used = FALSE]
          /\ s_note_count' = Uncounted(s_note_count)
  /\ UNCHANGED <<s_next_slot, s_next_rec_id, queue, f_slot>> /\ Save(t)

\* ui_notes_stop_recording on the notes as the caller leaves them; no transcript
\* when the dictation was offline.
CloseWav(t, notes, heard) ==
  /\ s_rec_file # 0 /\ s_rec_file' = 0 /\ s_rec_note_slot' = -1
  /\ s_notes' =
       IF s_rec_note_slot = -1 THEN notes
       ELSE [notes EXCEPT
               ![s_rec_note_slot].state = IF heard THEN "TRANSCRIBED" ELSE "RECORDED",
               ![s_rec_note_slot].text = IF heard THEN s_rec_file ELSE Short]
  /\ UNCHANGED <<s_next_slot, s_next_rec_id, s_rec_path, queue, f_slot, wavs>> /\ Save(t)

StopRecording(t) ==
  UNCHANGED <<s_note_count, s_pipeline_armed_slot>> /\ CloseWav(t, s_notes, FALSE)

\* notes_add_dictated_async_cb, once dictation_summary has come: the armed slot
\* is completed; another open slot wins over the text; else a note of its own,
\* whose second save, for the chip, the model leaves out.
AddDictated(t, text) ==
  \/ /\ s_pipeline_armed_slot /\ s_rec_note_slot # -1
     /\ s_pipeline_armed_slot' = FALSE
     /\ s_note_count' = IF s_notes[s_rec_note_slot].used THEN s_note_count ELSE Counted
     /\ CloseWav(t, [s_notes EXCEPT ![s_rec_note_slot].used = TRUE], TRUE)
  \/ s_rec_note_slot = -1 /\ Add(t, text)

\* ui_notes_write_audio closes and reopens the WAV every two seconds; the card
\* may refuse.
ReopenFails ==
  /\ SdFails /\ s_rec_file # 0 /\ s_rec_file' = 0
  /\ UNCHANGED <<ring, s_next_rec_id, s_rec_path, s_rec_note_slot, s_pipeline_armed_slot,
                 queue, f_slot, wavs, files, saver>>

---------------------------------------------------------------------------
(* transcription_queue_task *)

\* The guards are read once, every 15 s.
QueueChecks ==
  /\ q_pc = "wait" /\ saving["queue"] = Idle /\ s_rec_file = 0
  /\ q_pc' = "checked"
  /\ UNCHANGED <<ring, s_next_rec_id, recorder, q_slot, q_wav, f_slot, wavs, files, saver>>

\* The scan, on from the slot it has come to, for the first RECORDED note; one
\* that names no file fails and the scan goes on.
QueuePicks ==
  LET todo == {i \in Slots : i > q_slot /\ s_notes[i].used /\ s_notes[i].state = "RECORDED"}
  IN
  /\ q_pc = "checked" /\ saving["queue"] = Idle
  /\ UNCHANGED <<s_note_count, s_next_slot, s_next_rec_id, recorder, q_wav, f_slot, wavs>>
  /\ \/ /\ todo = {} /\ q_pc' = "wait" /\ q_slot' = -1
        /\ UNCHANGED <<s_notes, files, saver>>
     \/ \E slot \in todo :
          /\ \A i \in todo : slot <= i
          /\ q_slot' = slot
          /\ IF s_notes[slot].wav # 0
             THEN /\ s_notes' = [s_notes EXCEPT ![slot].state = "TRANSCRIBING"]
                  /\ q_pc' = "picked"
             ELSE /\ s_notes' = [s_notes EXCEPT ![slot].state = "FAILED", ![slot].text = Short]
                  /\ UNCHANGED q_pc
          /\ Save("queue")

QueueRests == q_pc' = "wait" /\ q_slot' = -1 /\ q_wav' = 0 /\ Save("queue")

\* The WAV is opened through the pointer taken at the pick; a file that is gone
\* or empty fails the note.
QueueOpens ==
  /\ q_pc = "picked" /\ saving["queue"] = Idle
  /\ UNCHANGED <<s_note_count, s_next_slot, s_next_rec_id, recorder, f_slot, wavs>>
  /\ \/ /\ s_notes[q_slot].wav \in wavs
        /\ q_pc' = "upload" /\ q_wav' = s_notes[q_slot].wav
        /\ UNCHANGED <<s_notes, q_slot, files, saver>>
     \/ /\ s_notes[q_slot].wav \notin wavs
        /\ s_notes' = [s_notes EXCEPT ![q_slot].state = "FAILED"] /\ QueueRests
     \/ /\ s_notes[q_slot].wav \in wavs
        /\ s_notes' = [s_notes EXCEPT ![q_slot].state = "FAILED", ![q_slot].text = Short]
        /\ QueueRests

\* Up to two minutes later the answer goes through the same pointer: a
\* transcript, a failure, or a reply that does not parse.
QueueFinishes ==
  /\ q_pc = "upload" /\ saving["queue"] = Idle
  /\ s_notes' \in {[s_notes EXCEPT ![q_slot].state = "TRANSCRIBED", ![q_slot].text = q_wav],
                   [s_notes EXCEPT ![q_slot].state = "FAILED"],
                   [s_notes EXCEPT ![q_slot].state = "FAILED", ![q_slot].text = Short],
                   s_notes}
  /\ UNCHANGED <<s_note_count, s_next_slot, s_next_rec_id, recorder, f_slot, wavs>>
  /\ QueueRests

Handler(t) ==
  \/ \E text \in Lengths : Add(t, text) \/ AddDictated(t, text)
  \/ \E i \in Slots : Delete(t, i) \/ Retry(t, i) \/ FetchStarts(t, i)
  \/ \E i \in Slots, text \in Lengths : Edit(t, i, text)
  \/ ClearFailed(t)
  \/ StartRecording(t) \/ Arm(t) \/ Armed(t) \/ Cancel(t) \/ StopRecording(t)

NoteNext ==
  \/ \E t \in Threads : Handler(t)
  \/ \E t \in Savers : SaveStep(t)
  \/ ReopenFails
  \/ FetchFinishes
  \/ QueueChecks \/ QueuePicks \/ QueueOpens \/ QueueFinishes
  \/ Reboot

NoteSpec == NoteInit /\ [][NoteNext]_noteVars

---------------------------------------------------------------------------
(* Properties *)

Visible == {i \in Slots : s_notes[i].used}

\* A note whose recording the pipeline has armed is on file, and not yet shown.
Awaited == IF s_pipeline_armed_slot THEN {s_rec_note_slot} ELSE {}

NoteIn(file, i) == IF file \in {NoFile, Torn} THEN Blank ELSE file.notes[i]

\* What a boot from this file would list is what is listed now.
Shows(file) ==
  \A i \in Slots \ Awaited :
    /\ NoteIn(file, i).used <=> i \in Visible
    /\ i \in Visible => Restored(NoteIn(file, i)) = Restored(s_notes[i])

\* ui_notes.h:5: notes persist across reboots.  When no save is in progress, the
\* file the next boot reads holds what the list shows, no note less and none
\* more, unless the last save overlapped another, was refused by a card that
\* still holds an older file, or is too long for what will be read, or the last
\* boot found a file that an overlap had torn.
NextBootShowsNotes ==
  (\A t \in Savers : saving[t] = Idle) /\ ~doubt =>
    \A file \in {sd, nvs, Torn} : LoadedFrom(file) => Shows(file)

\* No two visible notes play the same WAV, across reboots, lost files and
\* cancelled recordings, so that a discard removes nobody else's audio.
WavOwned ==
  \A i, j \in Visible : i # j /\ s_notes[i].wav = s_notes[j].wav => s_notes[i].wav = 0

\* transcription_queue_task 1602: the queue uploads a WAV and updates "the note",
\* so the slot it will write to still holds the note it picked.
QueueUpdatesItsNote ==
  q_pc = "upload" /\ s_notes[q_slot].used => s_notes[q_slot].wav = q_wav
=============================================================================

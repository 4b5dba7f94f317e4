-------------------------- MODULE NoteStoreProofs --------------------------
(***************************************************************************)
(* NoteStore keeps its types, gives each WAV to one note only, and leaves  *)
(* the next boot the notes it shows, for any ring size, any number of      *)
(* recordings, any set of threads that save at once and any failure of the *)
(* card.  None of the three is inductive by itself: what a save has        *)
(* printed, the temporary file and both stored files carry the same facts  *)
(* as the ring, because any of them may be what a reboot loads.            *)
(***************************************************************************)
EXTENDS NoteStore, FiniteSetTheorems, TLAPS

(***************************************************************************)
(* Types                                                                   *)
(***************************************************************************)

\* s_note_count needs a floor, for Delete lowers it without looking: it is never
\* below the visible notes by more than there are slots, in the ring and in what
\* a reboot may load.
Shown(notes) == {i \in Slots : notes[i].used}
Floor(notes, count) == count >= Cardinality(Shown(notes)) - MaxNotes

Ring(notes, count, next, recid) ==
  /\ notes \in [Slots -> Note] /\ count \in -MaxNotes..MaxNotes
  /\ next \in Slots /\ recid \in 1..MaxRec + 1
  /\ Floor(notes, count)

File(file) ==
  file \notin {NoFile, Torn} => file \in NoteFile /\ Floor(file.notes, file.count)

SaveRecord == [pc : SavePcs, file : NoteFile \cup {NoFile}, arms : BOOLEAN]

RingOK == Ring(s_notes, s_note_count, s_next_slot, s_next_rec_id)
FilesOK == File(sd) /\ File(tmp) /\ File(nvs) /\ nvs # Torn /\ nvs_recid \in 1..MaxRec + 1
SavingOK ==
  /\ saving \in [Savers -> SaveRecord] /\ \A t \in Savers : File(saving[t].file)
  /\ saves \in 0..MaxSaves /\ doubt \in BOOLEAN
RestOK ==
  /\ s_rec_file \in Recordings \cup {0} /\ s_rec_path \in Recordings \cup {0}
  /\ s_rec_note_slot \in Slots \cup {-1} /\ s_pipeline_armed_slot \in BOOLEAN
  /\ q_pc \in {"wait", "checked", "picked", "upload"}
  /\ q_slot \in Slots \cup {-1} /\ q_wav \in Recordings \cup {0}
  /\ f_slot \in Slots \cup {-1} /\ wavs \subseteq Recordings

NoteInv == RingOK /\ FilesOK /\ SavingOK /\ RestOK

LEMMA SlotCount == IsFiniteSet(Slots) /\ Cardinality(Slots) = MaxNotes
  <1>1. /\ IsFiniteSet(0..MaxNotes - 1)
        /\ Cardinality(0..MaxNotes - 1) =
             IF 0 > MaxNotes - 1 THEN 0 ELSE (MaxNotes - 1) - 0 + 1
    BY NoteAssumption, FS_Interval
  <1> QED BY <1>1, NoteAssumption DEF Slots

LEMMA ShownCount ==
  ASSUME NEW notes
  PROVE  IsFiniteSet(Shown(notes)) /\ Cardinality(Shown(notes)) \in 0..MaxNotes
  <1>1. Shown(notes) \in SUBSET Slots
    BY DEF Shown
  <1>2. /\ IsFiniteSet(Shown(notes))
        /\ Cardinality(Shown(notes)) <= Cardinality(Slots)
    BY <1>1, SlotCount, FS_Subset
  <1> QED BY <1>2, SlotCount, FS_CardinalityType, NoteAssumption

\* The count of a ring may stay when no note appears, and goes up by one when one does.
LEMMA FloorStays ==
  ASSUME NEW old, NEW new, NEW count \in Int, Floor(old, count), Shown(new) \subseteq Shown(old)
  PROVE  Floor(new, count)
  <1>1. Cardinality(Shown(new)) <= Cardinality(Shown(old))
    BY ShownCount, FS_Subset
  <1> QED BY <1>1, ShownCount, NoteAssumption DEF Floor

LEMMA FloorRises ==
  ASSUME RingOK, NEW new, NEW i, Shown(new) \subseteq Shown(s_notes) \cup {i}
  PROVE  Counted \in -MaxNotes..MaxNotes /\ Floor(new, Counted)
  <1>0. IsFiniteSet(Shown(s_notes)) /\ Cardinality(Shown(s_notes)) \in Nat
    BY ShownCount, NoteAssumption
  <1>1. /\ IsFiniteSet(Shown(s_notes) \cup {i})
        /\ Cardinality(Shown(s_notes) \cup {i}) <= Cardinality(Shown(s_notes)) + 1
    <2>1. /\ IsFiniteSet(Shown(s_notes) \cup {i})
          /\ Cardinality(Shown(s_notes) \cup {i}) =
               IF i \in Shown(s_notes) THEN Cardinality(Shown(s_notes))
               ELSE Cardinality(Shown(s_notes)) + 1
      BY <1>0, FS_AddElement, Zenon
    <2> QED BY <1>0, <2>1
  <1>2. Cardinality(Shown(new)) <= Cardinality(Shown(s_notes) \cup {i})
    BY <1>1, FS_Subset
  <1>3. Cardinality(Shown(s_notes) \cup {i}) \in Nat
    BY <1>1, FS_CardinalityType
  <1>4. Cardinality(Shown(new)) \in 0..MaxNotes /\ Cardinality(Shown(s_notes)) \in 0..MaxNotes
    BY ShownCount
  <1>5. s_note_count \in -MaxNotes..MaxNotes /\ Floor(s_notes, s_note_count)
    BY DEF RingOK, Ring
  <1> QED BY <1>1, <1>2, <1>3, <1>4, <1>5, NoteAssumption DEF Floor, Counted

LEMMA FloorFalls ==
  ASSUME NEW old, NEW new, NEW count \in -MaxNotes..MaxNotes, Floor(old, count),
         Shown(new) \subseteq Shown(old)
  PROVE  Uncounted(count) \in -MaxNotes..MaxNotes /\ Floor(new, Uncounted(count))
  <1>1. Floor(new, count)
    BY FloorStays
  <1> QED BY <1>1, ShownCount, NoteAssumption DEF Floor, Uncounted

LEMMA NextSlotInSlots == RingOK => NextSlot \in Slots
  BY NoteAssumption DEF RingOK, Ring, Slots, NextSlot

LEMMA BlankNote == Blank \in Note /\ Blank.used = FALSE /\ Blank.wav = 0
  BY DEF Blank, Note, NoteStates, Short

\* What notes_save prints of a good ring is a good file.
LEMMA PrintedFile ==
  ASSUME NoteInv, RingOK', NEW t \in Savers, NEW arms \in BOOLEAN,
         SaveAs(t, s_next_rec_id', arms)
  PROVE  /\ FilesOK' /\ SavingOK'
         /\ saving'[t].pc = "open" /\ saving'[t].file \in NoteFile
         /\ \A i \in Slots : saving'[t].file.notes[i] = IF s_notes'[i].used THEN s_notes'[i] ELSE Blank
         /\ saving'[t].file.recid = s_next_rec_id'
         /\ \A u \in Savers \ {t} : saving'[u] = saving[u]
  <1> DEFINE saved == [i \in Slots |-> IF s_notes'[i].used THEN s_notes'[i] ELSE Blank]
             file == [notes |-> saved, count |-> s_note_count', next |-> s_next_slot',
                      recid |-> s_next_rec_id']
             entry == [pc |-> "open", arms |-> arms, file |-> file]
  <1>1. s_notes' \in [Slots -> Note] /\ Floor(s_notes', s_note_count')
        /\ s_note_count' \in -MaxNotes..MaxNotes /\ s_note_count' \in Int
        /\ s_next_slot' \in Slots /\ s_next_rec_id' \in 1..MaxRec + 1
    BY NoteAssumption DEF RingOK, Ring
  <1>2. saved \in [Slots -> Note]
    BY <1>1, BlankNote
  <1>3. Shown(saved) \subseteq Shown(s_notes')
    BY BlankNote DEF Shown
  <1>4. Floor(saved, s_note_count')
    BY <1>1, <1>3, FloorStays
  <1>5. file \in NoteFile
    BY <1>1, <1>2 DEF NoteFile
  <1>6. file.notes = saved /\ file.count = s_note_count' /\ file.recid = s_next_rec_id'
    OBVIOUS
  <1>7. saving' = [saving EXCEPT ![t] = entry]
    BY DEF SaveAs
  <1>8. \A i \in Slots : saved[i] = IF s_notes'[i].used THEN s_notes'[i] ELSE Blank
    OBVIOUS
  <1> HIDE DEF saved
  <1>9. File(file)
    BY <1>4, <1>5, <1>6 DEF File
  <1> HIDE DEF file
  <1>10. entry \in SaveRecord /\ entry.file = file /\ entry.pc = "open"
    BY <1>5 DEF SaveRecord, SavePcs
  <1> HIDE DEF entry
  <1>11. saving \in [Savers -> SaveRecord]
    BY DEF NoteInv, SavingOK
  <1>12. saving' \in [Savers -> SaveRecord] /\ saving'[t] = entry
         /\ \A u \in Savers \ {t} : saving'[u] = saving[u]
    BY <1>7, <1>10, <1>11
  <1>13. \A u \in Savers : File(saving'[u].file)
    BY <1>9, <1>10, <1>12 DEF NoteInv, SavingOK
  <1>14. saves' \in 0..MaxSaves /\ doubt' \in BOOLEAN
    BY NoteAssumption DEF SaveAs, NoteInv, SavingOK
  <1>15. FilesOK'
    BY DEF SaveAs, files, NoteInv, FilesOK, File
  <1> QED BY <1>5, <1>6, <1>8, <1>10, <1>12, <1>13, <1>14, <1>15 DEF SavingOK

\* A step of notes_save changes nothing in memory but how far it is, and each file
\* becomes another one or the printed one, or is lost.
LEMMA SaveStepFiles ==
  ASSUME NoteInv, NEW t \in Savers, SaveStep(t)
  PROVE  /\ UNCHANGED <<memory, wavs>> /\ saves' = saves /\ doubt' \in BOOLEAN
         /\ sd' \in {sd, tmp, NoFile, Torn} /\ tmp' \in {tmp, saving[t].file, NoFile, Torn}
         /\ nvs' \in {nvs, saving[t].file} /\ nvs_recid' \in {nvs_recid, s_next_rec_id}
         /\ saving' \in [Savers -> SaveRecord]
         /\ \A u \in Savers : saving'[u].file \in {saving[u].file, NoFile}
  <1>1. saving \in [Savers -> SaveRecord] /\ doubt \in BOOLEAN
    BY DEF NoteInv, SavingOK
  <1>2. UNCHANGED <<memory, wavs>> /\ saves' = saves
    BY DEF SaveStep, OpenTmp, WriteTmp, RemoveSd, RenameTmp, SaveBlob
  <1>3. /\ sd' \in {sd, tmp, NoFile, Torn} /\ tmp' \in {tmp, saving[t].file, NoFile, Torn}
        /\ nvs' \in {nvs, saving[t].file} /\ nvs_recid' \in {nvs_recid, s_next_rec_id}
        /\ doubt' \in BOOLEAN
    BY <1>1 DEF SaveStep, OpenTmp, WriteTmp, RemoveSd, RenameTmp, SaveBlob
  <1>4. \/ \E pc \in SavePcs : StepTo(t, pc)
        \/ Done(t)
    BY DEF SaveStep, OpenTmp, WriteTmp, RemoveSd, RenameTmp, SaveBlob, SavePcs
  <1>5. saving' \in [Savers -> SaveRecord]
        /\ \A u \in Savers : saving'[u].file \in {saving[u].file, NoFile}
    <2>1. CASE \E pc \in SavePcs : StepTo(t, pc)
      BY <1>1, <2>1 DEF StepTo, SaveRecord
    <2>2. CASE Done(t)
      <3>1. /\ Idle \in SaveRecord /\ Idle.file = NoFile
            /\ [Idle EXCEPT !.pc = "hide"] \in SaveRecord /\ [Idle EXCEPT !.pc = "hide"].file = NoFile
        BY DEF Idle, SaveRecord, SavePcs
      <3> QED BY <1>1, <2>2, <3>1 DEF Done
    <2> QED BY <1>4, <2>1, <2>2
  <1> QED BY <1>2, <1>3, <1>5

LEMMA SaveStepKeeps ==
  ASSUME NoteInv, NEW t \in Savers, SaveStep(t)
  PROVE  NoteInv'
  <1>1. RingOK' /\ RestOK'
    BY SaveStepFiles DEF memory, ring, recorder, queue, NoteInv, RingOK, RestOK
  <1>2. /\ saving[t].file \in NoteFile \cup {NoFile} /\ saving[t].file # Torn
        /\ \A u \in Savers : File(saving[u].file)
    BY NoFileAssumption DEF NoteInv, SavingOK, SaveRecord
  <1>3. FilesOK'
    BY <1>2, SaveStepFiles DEF NoteInv, FilesOK, File, RingOK, Ring
  <1>4. \A u \in Savers : File(saving'[u].file)
    BY <1>2, SaveStepFiles DEF File
  <1> QED BY <1>1, <1>3, <1>4, SaveStepFiles DEF NoteInv, SavingOK

\* A step that leaves the ring, the files and all saves alone.
LEMMA QuietStep ==
  ASSUME NoteInv, UNCHANGED <<ring, files, saver>>, s_next_rec_id' \in 1..MaxRec + 1
  PROVE  RingOK' /\ FilesOK' /\ SavingOK'
  BY DEF NoteInv, RingOK, Ring, FilesOK, File, SavingOK, ring, files, saver

\* A step that edits notes and shows no other one.
LEMMA EditedRing ==
  ASSUME NoteInv, s_notes' \in [Slots -> Note], Shown(s_notes') \subseteq Shown(s_notes),
         UNCHANGED <<s_note_count, s_next_slot, s_next_rec_id>>
  PROVE  RingOK'
  <1>1. /\ s_note_count \in -MaxNotes..MaxNotes /\ s_note_count \in Int
        /\ Floor(s_notes, s_note_count)
    BY NoteAssumption DEF NoteInv, RingOK, Ring
  <1>2. Floor(s_notes', s_note_count)
    BY <1>1, FloorStays
  <1> QED BY <1>1, <1>2 DEF NoteInv, RingOK, Ring

\* A reboot loads a good file, or none.
LEMMA RebootKeeps ==
  ASSUME NoteInv, Reboot
  PROVE  NoteInv'
  <1>1. PICK file \in {sd, nvs, Torn} : LoadedFrom(file) /\ Load(file)
    BY DEF Reboot
  <1>2. RestOK'
    BY DEF Reboot, NoteInv, RestOK
  <1>3. FilesOK'
    BY DEF Reboot, files, NoteInv, FilesOK, File
  <1>4. SavingOK'
    <2>1. Idle \in SaveRecord /\ File(Idle.file)
      BY DEF Idle, SaveRecord, SavePcs, File
    <2>2. saving' = [t \in Savers |-> Idle] /\ saves' = saves /\ doubt' \in BOOLEAN
      BY DEF Reboot
    <2> QED BY <2>1, <2>2 DEF NoteInv, SavingOK
  <1>5. CASE file \in {NoFile, Torn}
    <2>1. /\ s_notes' = [i \in Slots |-> Blank]
          /\ s_note_count' = 0 /\ s_next_slot' = 0 /\ s_next_rec_id' = 1
      BY <1>1, <1>5 DEF Load
    <2>2. Floor(s_notes', 0)
      BY ShownCount, NoteAssumption DEF Floor
    <2>3. RingOK'
      BY <2>1, <2>2, BlankNote, NoteAssumption DEF RingOK, Ring, Slots
    <2> QED BY <1>2, <1>3, <1>4, <2>3 DEF NoteInv
  <1>6. CASE file \notin {NoFile, Torn}
    <2>1. file \in NoteFile /\ Floor(file.notes, file.count)
      BY <1>1, <1>6 DEF NoteInv, FilesOK, File
    <2>2. /\ s_notes' = [i \in Slots |-> Restored(file.notes[i])]
          /\ s_note_count' = file.count /\ s_next_slot' = file.next
          /\ s_next_rec_id' = IF nvs_recid > file.recid THEN nvs_recid ELSE file.recid
      BY <1>1, <1>6 DEF Load
    <2>3. \A n \in Note : Restored(n) \in Note /\ Restored(n).used = n.used
      BY DEF Restored, Note, NoteStates
    <2>4. /\ file.notes \in [Slots -> Note] /\ file.count \in -MaxNotes..MaxNotes
          /\ file.next \in Slots /\ file.recid \in 1..MaxRec + 1
      BY <2>1 DEF NoteFile
    <2>5. s_notes' \in [Slots -> Note]
      BY <2>2, <2>3, <2>4
    <2>6. Shown(s_notes') \subseteq Shown(file.notes)
      BY <2>2, <2>3, <2>4 DEF Shown
    <2>7. file.count \in Int
      BY <2>4, NoteAssumption
    <2>8. Floor(s_notes', file.count)
      BY <2>1, <2>6, <2>7, FloorStays
    <2>9. s_next_rec_id' \in 1..MaxRec + 1
      BY <2>2, <2>4 DEF NoteInv, FilesOK
    <2>10. RingOK'
      BY <2>2, <2>4, <2>5, <2>8, <2>9 DEF RingOK, Ring
    <2> QED BY <1>2, <1>3, <1>4, <2>10 DEF NoteInv
  <1> QED BY <1>5, <1>6

---------------------------------------------------------------------------

LEMMA NoteInitInv == NoteInit => NoteInv
  <1> SUFFICES ASSUME NoteInit PROVE NoteInv
    OBVIOUS
  <1>1. Floor(s_notes, 0)
    BY ShownCount, NoteAssumption DEF Floor
  <1>2. RingOK
    BY <1>1, BlankNote, NoteAssumption DEF NoteInit, RingOK, Ring, Slots
  <1>3. Idle \in SaveRecord /\ File(Idle.file)
    BY DEF Idle, SaveRecord, SavePcs, File
  <1>4. SavingOK
    <2>1. saving = [t \in Savers |-> Idle]
      BY DEF NoteInit
    <2>2. saving \in [Savers -> SaveRecord]
      BY <1>3, <2>1
    <2>3. ASSUME NEW t \in Savers PROVE File(saving[t].file)
      <3>1. saving[t] = Idle
        BY <2>1
      <3> QED BY <1>3, <3>1
    <2>4. saves \in 0..MaxSaves
      BY NoteAssumption DEF NoteInit
    <2>5. doubt \in BOOLEAN
      BY Zenon DEF NoteInit
    <2> QED BY <2>2, <2>3, <2>4, <2>5 DEF SavingOK
  <1>5. FilesOK
    <2>1. sd = NoFile /\ tmp = NoFile /\ nvs = NoFile /\ nvs_recid = 1
      BY DEF NoteInit
    <2>2. 1 \in 1..MaxRec + 1
      BY NoteAssumption
    <2> QED BY <2>1, <2>2, NoFileAssumption DEF FilesOK, File
  <1>6. RestOK
    BY DEF NoteInit, RestOK
  <1> QED BY <1>2, <1>4, <1>5, <1>6 DEF NoteInv

\* A note put where the ring goes on, whatever it writes over.
LEMMA PutNote ==
  ASSUME NoteInv, NEW note \in Note, s_notes' = [s_notes EXCEPT ![s_next_slot] = note],
         s_next_slot' = NextSlot, s_next_rec_id' \in 1..MaxRec + 1,
         s_note_count' = Counted
  PROVE  RingOK'
  <1>1. RingOK /\ s_notes \in [Slots -> Note] /\ s_next_slot \in Slots
    BY DEF NoteInv, RingOK, Ring
  <1>2. s_notes' \in [Slots -> Note] /\ s_next_slot' \in Slots
    BY <1>1, NextSlotInSlots
  <1>3. Shown(s_notes') \subseteq Shown(s_notes) \cup {s_next_slot}
    BY <1>1 DEF Shown
  <1>4. Counted \in -MaxNotes..MaxNotes /\ Floor(s_notes', Counted)
    BY <1>1, <1>3, FloorRises
  <1> QED BY <1>2, <1>4 DEF RingOK, Ring

\* ui_notes_delete and ui_notes_clear_failed count off what they hide.
LEMMA HideNotes ==
  ASSUME NoteInv, NEW hidden \in SUBSET Shown(s_notes),
         s_notes' \in [Slots -> Note], Shown(s_notes') = Shown(s_notes) \ hidden,
         s_note_count' = s_note_count - Cardinality(hidden),
         UNCHANGED <<s_next_slot, s_next_rec_id>>
  PROVE  RingOK'
  <1>1. /\ s_note_count \in -MaxNotes..MaxNotes /\ Floor(s_notes, s_note_count)
        /\ s_next_slot \in Slots /\ s_next_rec_id \in 1..MaxRec + 1
    BY DEF NoteInv, RingOK, Ring
  <1>2. IsFiniteSet(Shown(s_notes)) /\ Shown(s_notes) \cap hidden = hidden
    BY ShownCount
  <1>3. Cardinality(Shown(s_notes) \ hidden)
          = Cardinality(Shown(s_notes)) - Cardinality(Shown(s_notes) \cap hidden)
    BY <1>2, FS_Difference
  <1>4. Cardinality(Shown(s_notes')) = Cardinality(Shown(s_notes)) - Cardinality(hidden)
    BY <1>2, <1>3
  <1>5. Cardinality(hidden) \in Nat /\ Cardinality(hidden) <= Cardinality(Shown(s_notes))
    BY <1>2, FS_Subset, FS_CardinalityType
  <1>6. Cardinality(Shown(s_notes)) \in 0..MaxNotes
    BY ShownCount
  <1>7. s_note_count' \in -MaxNotes..MaxNotes /\ Floor(s_notes', s_note_count')
    BY <1>1, <1>4, <1>5, <1>6, NoteAssumption DEF Floor
  <1> QED BY <1>1, <1>7 DEF RingOK, Ring

LEMMA NoteStep == NoteInv /\ [NoteNext]_noteVars => NoteInv'
  <1> SUFFICES ASSUME NoteInv, [NoteNext]_noteVars PROVE NoteInv'
    OBVIOUS
  <1>0. /\ s_notes \in [Slots -> Note] /\ s_next_slot \in Slots
        /\ s_next_rec_id \in 1..MaxRec + 1 /\ s_note_count \in -MaxNotes..MaxNotes
        /\ Floor(s_notes, s_note_count)
        /\ \A i \in Slots : s_notes[i] \in Note
    BY DEF NoteInv, RingOK, Ring
  <1>r. /\ RestOK
        /\ s_rec_file \in Recordings \cup {0} /\ s_rec_path \in Recordings \cup {0}
        /\ q_wav \in Recordings \cup {0}
    BY DEF NoteInv, RestOK
  <1>a. ASSUME RingOK', RestOK', NEW t \in Savers, NEW arms \in BOOLEAN,
               SaveAs(t, s_next_rec_id', arms)
        PROVE  NoteInv'
    BY <1>a, PrintedFile DEF NoteInv
  <1>s. ASSUME RingOK', RestOK', NEW t \in Savers, Save(t) PROVE NoteInv'
    BY <1>a, <1>s DEF Save
  <1>t. Threads \subseteq Savers /\ "queue" \in Savers /\ "fetch" \in Savers
    BY DEF Savers
  <1>1. ASSUME NEW t \in Threads, NEW text \in {Short, Long}, Add(t, text) PROVE NoteInv'
    <2> DEFINE note == [used |-> TRUE, state |-> "TEXT", wav |-> 0, text |-> text]
    <2>1. note \in Note
      BY DEF Note, NoteStates
    <2>2. RingOK'
      BY <1>0, <1>1, <2>1, PutNote DEF Add
    <2>3. RestOK'
      BY <1>1, <1>r DEF Add, recorder, queue, RestOK
    <2> QED BY <1>1, <1>s, <1>t, <2>2, <2>3 DEF Add
  <1>2. ASSUME NEW t \in Threads, NEW i \in Slots, Delete(t, i) PROVE NoteInv'
    <2>1. {i} \in SUBSET Shown(s_notes)
      BY <1>2 DEF Delete, Shown
    <2>2. s_notes' = [s_notes EXCEPT ![i].used = FALSE]
      BY <1>2 DEF Delete
    <2>3. s_notes' \in [Slots -> Note] /\ Shown(s_notes') = Shown(s_notes) \ {i}
      BY <1>0, <2>2 DEF Shown, Note
    <2>4. Cardinality({i}) = 1
      BY FS_Singleton
    <2>5. RingOK'
      BY <1>2, <2>1, <2>3, <2>4, HideNotes DEF Delete
    <2>6. RestOK'
      BY <1>2, <1>r DEF Delete, recorder, queue, RestOK
    <2> QED BY <1>2, <1>s, <1>t, <2>5, <2>6 DEF Delete
  <1>3. ASSUME NEW t \in Threads, ClearFailed(t) PROVE NoteInv'
    <2> DEFINE failed == {i \in Slots : s_notes[i].used /\ s_notes[i].state = "FAILED"}
    <2>1. s_notes' = [i \in Slots |-> [s_notes[i] EXCEPT !.used = @ /\ i \notin failed]]
      BY <1>3 DEF ClearFailed
    <2>2. failed \in SUBSET Shown(s_notes)
      BY DEF Shown
    <2>3. s_note_count' = s_note_count - Cardinality(failed)
      BY <1>3 DEF ClearFailed
    <2> HIDE DEF failed
    <2>4. ASSUME NEW k \in Slots
          PROVE  s_notes'[k] \in Note /\ (s_notes'[k].used <=> s_notes[k].used /\ k \notin failed)
      <3>1. s_notes'[k] = [s_notes[k] EXCEPT !.used = s_notes[k].used /\ k \notin failed]
        BY <2>1
      <3>2. (s_notes[k].used /\ k \notin failed) \in BOOLEAN
        OBVIOUS
      <3> QED BY <1>0, <3>1, <3>2 DEF Note
    <2>5. s_notes' \in [Slots -> Note] /\ Shown(s_notes') = Shown(s_notes) \ failed
      BY <2>1, <2>4 DEF Shown
    <2>6. RingOK'
      BY <1>3, <2>2, <2>3, <2>5, HideNotes DEF ClearFailed
    <2>7. RestOK'
      BY <1>3, <1>r DEF ClearFailed, recorder, queue, RestOK
    <2> QED BY <1>3, <1>s, <1>t, <2>6, <2>7 DEF ClearFailed
  <1>e. ASSUME NEW i, NEW state \in NoteStates,
               s_notes' \in {[s_notes EXCEPT ![i].state = state], s_notes}
        PROVE  s_notes' \in [Slots -> Note] /\ Shown(s_notes') \subseteq Shown(s_notes)
    BY <1>0, <1>e DEF Shown, Note
  <1>x. ASSUME NEW i, NEW state \in NoteStates, NEW text \in {Short, Long} \cup Recordings,
               \/ s_notes' = [s_notes EXCEPT ![i].text = text]
               \/ s_notes' = [s_notes EXCEPT ![i].state = state, ![i].text = text]
        PROVE  s_notes' \in [Slots -> Note] /\ Shown(s_notes') \subseteq Shown(s_notes)
    BY <1>0, <1>x DEF Shown, Note
  <1>n. /\ "RECORDED" \in NoteStates /\ "TRANSCRIBING" \in NoteStates
        /\ "FAILED" \in NoteStates /\ "TRANSCRIBED" \in NoteStates
        /\ q_wav \in {Short, Long} \cup Recordings /\ Short \in {Short, Long} \cup Recordings
        /\ Long \in {Short, Long} \cup Recordings
    BY <1>r DEF NoteStates, Short
  <1>4. ASSUME NEW t \in Threads, NEW i \in Slots, Retry(t, i) PROVE NoteInv'
    <2>1. RingOK'
      BY <1>4, <1>e, <1>n, EditedRing DEF Retry
    <2>2. RestOK'
      BY <1>4, <1>r DEF Retry, recorder, queue, RestOK
    <2> QED BY <1>4, <1>s, <1>t, <2>1, <2>2 DEF Retry
  <1>5. ASSUME NEW t \in Threads, NEW i \in Slots, NEW text \in {Short, Long}, Edit(t, i, text)
        PROVE  NoteInv'
    <2>1. RingOK'
      BY <1>5, <1>x, <1>n, EditedRing DEF Edit
    <2>2. RestOK'
      BY <1>5, <1>r DEF Edit, recorder, queue, RestOK
    <2> QED BY <1>5, <1>s, <1>t, <2>1, <2>2 DEF Edit
  <1>6. ASSUME NEW t \in Threads, NEW i \in Slots, FetchStarts(t, i) PROVE NoteInv'
    <2>1. RestOK'
      BY <1>6, <1>r DEF FetchStarts, recorder, queue, RestOK
    <2> QED BY <1>0, <1>6, <2>1, QuietStep DEF FetchStarts, NoteInv
  <1>7. ASSUME FetchFinishes PROVE NoteInv'
    <2>1. RestOK'
      BY <1>7, <1>r DEF FetchFinishes, recorder, queue, RestOK
    <2>2. CASE s_notes' = [s_notes EXCEPT ![f_slot].text = Long] /\ Save("fetch")
      <3>1. RingOK'
        BY <1>7, <1>x, <1>n, <2>2, EditedRing DEF FetchFinishes
      <3> QED BY <1>s, <1>t, <2>1, <2>2, <3>1
    <2>3. CASE UNCHANGED <<s_notes, files, saver>>
      BY <1>0, <1>7, <2>1, <2>3, QuietStep DEF FetchFinishes, ring, NoteInv
    <2> QED BY <1>7, <2>2, <2>3 DEF FetchFinishes
  <1>8. ASSUME NEW t \in Threads, NEW arms \in BOOLEAN, RecordAs(t, arms) PROVE NoteInv'
    <2>1. s_next_rec_id \in Recordings /\ s_next_rec_id' \in 1..MaxRec + 1
      BY <1>0, <1>8, NoteAssumption DEF RecordAs, OpenWav, Recordings
    <2>2. RecordingNote(s_next_rec_id) \in Note
      BY <2>1 DEF RecordingNote, Note, NoteStates
    <2>3. RingOK'
      BY <1>8, <2>1, <2>2, PutNote DEF RecordAs, ReserveSlot
    <2>4. RestOK'
      BY <1>0, <1>8, <1>r, <2>1 DEF RecordAs, OpenWav, ReserveSlot, queue, RestOK
    <2> QED BY <1>8, <1>a, <1>t, <2>3, <2>4 DEF RecordAs
  <1>9. ASSUME NEW t \in Threads, OpenWavFails(t) PROVE NoteInv'
    <2>1. s_next_rec_id' \in 1..MaxRec + 1
      BY <1>0, <1>9, NoteAssumption DEF OpenWavFails
    <2>2. RestOK'
      BY <1>9, <1>r DEF OpenWavFails, queue, RestOK
    <2> QED BY <1>9, <2>1, <2>2, QuietStep DEF OpenWavFails, NoteInv
  <1>10. ASSUME NEW t \in Threads, Armed(t) PROVE NoteInv'
    <2>1. saving \in [Savers -> SaveRecord] /\ Idle \in SaveRecord /\ File(Idle.file)
      BY DEF NoteInv, SavingOK, Idle, SaveRecord, SavePcs, File
    <2>2. saving' = [saving EXCEPT ![t] = Idle] /\ saves' = saves /\ doubt' = doubt
      BY <1>10 DEF Armed
    <2>3. SavingOK'
      BY <2>1, <2>2 DEF NoteInv, SavingOK
    <2>4. FilesOK'
      BY <1>10 DEF Armed, files, NoteInv, FilesOK, File
    <2>5. RestOK'
      BY <1>10, <1>r DEF Armed, queue, RestOK
    <2>6. s_note_count \in Int
      BY <1>0, NoteAssumption
    <2>7. CASE UNCHANGED <<s_notes, s_note_count>>
      BY <1>10, <2>3, <2>4, <2>5, <2>7 DEF Armed, NoteInv, RingOK, Ring, Floor
    <2>8. CASE /\ s_notes' = [s_notes EXCEPT ![s_rec_note_slot].used = FALSE,
                                             ![s_rec_note_slot].text = Short]
               /\ s_note_count' = Uncounted(s_note_count)
      <3> DEFINE hidden == [s_notes EXCEPT ![s_rec_note_slot].used = FALSE]
      <3>1. hidden \in [Slots -> Note] /\ Shown(hidden) \subseteq Shown(s_notes)
        BY <1>0 DEF Note, Shown
      <3>2. s_notes' = [hidden EXCEPT ![s_rec_note_slot].text = Short]
        BY <1>0, <2>8
      <3> HIDE DEF hidden
      <3>3. s_notes' \in [Slots -> Note] /\ Shown(s_notes') \subseteq Shown(hidden)
        BY <1>n, <3>1, <3>2 DEF Note, Shown
      <3>4. s_notes' \in [Slots -> Note] /\ Shown(s_notes') \subseteq Shown(s_notes)
        BY <3>1, <3>3
      <3>5. /\ Uncounted(s_note_count) \in -MaxNotes..MaxNotes
            /\ Floor(s_notes', Uncounted(s_note_count))
        BY <1>0, <3>4, FloorFalls
      <3>6. s_note_count' \in -MaxNotes..MaxNotes /\ Floor(s_notes', s_note_count')
        BY <2>8, <3>5
      <3>7. RingOK'
        BY <1>0, <1>10, <3>4, <3>6 DEF Armed, RingOK, Ring
      <3> QED BY <2>3, <2>4, <2>5, <3>7 DEF NoteInv
    <2> QED BY <1>10, <2>7, <2>8 DEF Armed
  <1>11. ASSUME NEW t \in Threads, Cancel(t) PROVE NoteInv'
    <2>1. \/ s_notes' = s_notes /\ s_note_count' = s_note_count
          \/ /\ s_notes' = [s_notes EXCEPT ![s_rec_note_slot].used = FALSE]
             /\ s_note_count' = Uncounted(s_note_count)
      BY <1>11 DEF Cancel
    <2>2. s_notes' \in [Slots -> Note] /\ Shown(s_notes') \subseteq Shown(s_notes)
      <3>1. CASE s_notes' = s_notes
        BY <1>0, <3>1
      <3>2. CASE s_notes' = [s_notes EXCEPT ![s_rec_note_slot].used = FALSE]
        BY <1>0, <3>2 DEF Note, Shown
      <3> QED BY <2>1, <3>1, <3>2
    <2>3. s_note_count \in Int
      BY <1>0, NoteAssumption
    <2>4. s_note_count' \in -MaxNotes..MaxNotes /\ Floor(s_notes', s_note_count')
      BY <1>0, <2>1, <2>2, <2>3, FloorStays, FloorFalls
    <2>5. RingOK'
      BY <1>0, <1>11, <2>2, <2>4 DEF Cancel, RingOK, Ring
    <2>6. RestOK'
      BY <1>11, <1>r DEF Cancel, queue, RestOK
    <2> QED BY <1>11, <1>s, <1>t, <2>5, <2>6 DEF Cancel
  <1>12. ASSUME NEW t \in Threads, NEW notes \in [Slots -> Note], NEW heard \in BOOLEAN,
                CloseWav(t, notes, heard)
        PROVE  /\ s_notes' \in [Slots -> Note] /\ Shown(s_notes') \subseteq Shown(notes)
               /\ s_rec_file' = 0 /\ s_rec_note_slot' = -1
               /\ UNCHANGED <<s_next_slot, s_next_rec_id, s_rec_path, queue, f_slot, wavs>>
               /\ Save(t)
    <2> DEFINE state == IF heard THEN "TRANSCRIBED" ELSE "RECORDED"
               text == IF heard THEN s_rec_file ELSE Short
    <2>1. state \in NoteStates /\ text \in {Short, Long} \cup Recordings
      BY <1>n, <1>r, <1>12 DEF CloseWav
    <2>2. \/ s_notes' = notes
          \/ s_notes' = [notes EXCEPT ![s_rec_note_slot].state = state,
                                      ![s_rec_note_slot].text = text]
      BY <1>12 DEF CloseWav
    <2> HIDE DEF state, text
    <2>3. s_notes' \in [Slots -> Note] /\ Shown(s_notes') \subseteq Shown(notes)
      BY <1>12, <2>1, <2>2 DEF Note, Shown
    <2> QED BY <1>12, <2>3 DEF CloseWav
  <1>13. ASSUME NEW t \in Threads, StopRecording(t) PROVE NoteInv'
    <2>1. /\ s_notes' \in [Slots -> Note] /\ Shown(s_notes') \subseteq Shown(s_notes)
          /\ s_rec_file' = 0 /\ s_rec_note_slot' = -1
          /\ UNCHANGED <<s_next_slot, s_next_rec_id, s_rec_path, queue, f_slot, wavs>>
          /\ Save(t)
      BY <1>0, <1>12, <1>13 DEF StopRecording
    <2>2. RingOK'
      BY <1>13, <2>1, EditedRing DEF StopRecording
    <2>3. RestOK'
      BY <1>13, <1>r, <2>1 DEF StopRecording, queue, RestOK
    <2> QED BY <1>s, <1>t, <2>1, <2>2, <2>3
  <1>14. ASSUME NEW t \in Threads, NEW text \in {Short, Long}, AddDictated(t, text)
         PROVE  NoteInv'
    <2> DEFINE shown == [s_notes EXCEPT ![s_rec_note_slot].used = TRUE]
    <2>1. CASE Add(t, text)
      BY <1>1, <2>1
    <2>2. CASE /\ s_pipeline_armed_slot' = FALSE
               /\ s_note_count' = IF s_notes[s_rec_note_slot].used THEN s_note_count ELSE Counted
               /\ CloseWav(t, shown, TRUE)
               /\ s_rec_note_slot \in Slots
      <3>1. /\ shown \in [Slots -> Note]
            /\ Shown(shown) \subseteq Shown(s_notes) \cup {s_rec_note_slot}
            /\ s_notes[s_rec_note_slot].used => Shown(shown) \subseteq Shown(s_notes)
        BY <1>0, <2>2 DEF Note, Shown
      <3> HIDE DEF shown
      <3>2. /\ s_notes' \in [Slots -> Note] /\ Shown(s_notes') \subseteq Shown(shown)
            /\ s_rec_file' = 0 /\ s_rec_note_slot' = -1
            /\ UNCHANGED <<s_next_slot, s_next_rec_id, s_rec_path, queue, f_slot, wavs>>
            /\ Save(t)
        BY <1>12, <2>2, <3>1
      <3>3. RingOK /\ s_note_count \in Int
        BY <1>0, NoteAssumption DEF NoteInv
      <3>4. Counted \in -MaxNotes..MaxNotes /\ Floor(s_notes', Counted)
        BY <3>1, <3>2, <3>3, FloorRises
      <3>5. s_notes[s_rec_note_slot].used => Floor(s_notes', s_note_count)
        BY <1>0, <3>1, <3>2, <3>3, FloorStays
      <3>6. RingOK'
        BY <1>0, <2>2, <3>2, <3>4, <3>5 DEF RingOK, Ring
      <3>7. RestOK'
        BY <1>r, <2>2, <3>2 DEF queue, RestOK
      <3> QED BY <1>s, <1>t, <3>2, <3>6, <3>7
    <2> QED BY <1>14, <1>r, <2>1, <2>2 DEF AddDictated, RestOK
  <1>15. ASSUME ReopenFails \/ QueueChecks PROVE NoteInv'
    <2>1. RestOK'
      BY <1>15, <1>r DEF ReopenFails, QueueChecks, recorder, queue, RestOK
    <2>2. UNCHANGED <<ring, s_next_rec_id, files, saver>>
      BY <1>15 DEF ReopenFails, QueueChecks
    <2> QED BY <1>0, <2>1, <2>2, QuietStep DEF NoteInv
  <1>16. ASSUME QueuePicks PROVE NoteInv'
    <2>1. CASE q_pc' = "wait" /\ q_slot' = -1 /\ UNCHANGED <<s_notes, files, saver>>
      <3>1. RestOK'
        BY <1>16, <1>r, <2>1 DEF QueuePicks, recorder, RestOK
      <3> QED BY <1>0, <1>16, <2>1, <3>1, QuietStep DEF QueuePicks, NoteInv, ring
    <2>2. ASSUME NEW slot \in Slots, Save("queue"), q_pc' \in {"picked", q_pc}, q_slot' = slot,
                 \/ s_notes' = [s_notes EXCEPT ![slot].state = "TRANSCRIBING"]
                 \/ s_notes' = [s_notes EXCEPT ![slot].state = "FAILED", ![slot].text = Short]
          PROVE  NoteInv'
      <3>1. s_notes' \in [Slots -> Note] /\ Shown(s_notes') \subseteq Shown(s_notes)
        BY <1>e, <1>x, <1>n, <2>2
      <3>2. RingOK'
        BY <1>16, <3>1, EditedRing DEF QueuePicks
      <3>3. RestOK'
        BY <1>16, <1>r, <2>2 DEF QueuePicks, recorder, RestOK
      <3> QED BY <1>s, <1>t, <2>2, <3>2, <3>3
    <2> QED BY <1>16, <2>1, <2>2 DEF QueuePicks
  <1>17. ASSUME s_notes' \in [Slots -> Note], Shown(s_notes') \subseteq Shown(s_notes), QueueRests,
                UNCHANGED <<s_note_count, s_next_slot, s_next_rec_id, recorder, f_slot, wavs>>
         PROVE  NoteInv'
    <2>1. RingOK'
      BY <1>17, EditedRing
    <2>2. RestOK'
      BY <1>17, <1>r DEF QueueRests, recorder, RestOK
    <2> QED BY <1>17, <1>s, <1>t, <2>1, <2>2 DEF QueueRests
  <1>18. ASSUME QueueOpens PROVE NoteInv'
    <2>1. CASE /\ s_notes[q_slot].wav \in wavs
               /\ q_pc' = "upload" /\ q_wav' = s_notes[q_slot].wav
               /\ UNCHANGED <<s_notes, q_slot, files, saver>>
      <3>1. RestOK'
        BY <1>18, <1>r, <2>1 DEF QueueOpens, recorder, RestOK
      <3> QED BY <1>0, <1>18, <2>1, <3>1, QuietStep DEF QueueOpens, NoteInv, ring
    <2>2. CASE /\ QueueRests
               /\ \/ s_notes' = [s_notes EXCEPT ![q_slot].state = "FAILED"]
                  \/ s_notes' = [s_notes EXCEPT ![q_slot].state = "FAILED", ![q_slot].text = Short]
      <3>1. s_notes' \in [Slots -> Note] /\ Shown(s_notes') \subseteq Shown(s_notes)
        BY <1>e, <1>x, <1>n, <2>2
      <3> QED BY <1>17, <1>18, <2>2, <3>1 DEF QueueOpens
    <2> QED BY <1>18, <2>1, <2>2 DEF QueueOpens
  <1>19. ASSUME QueueFinishes PROVE NoteInv'
    <2>1. s_notes' \in [Slots -> Note] /\ Shown(s_notes') \subseteq Shown(s_notes)
      BY <1>e, <1>x, <1>n, <1>19 DEF QueueFinishes
    <2> QED BY <1>17, <1>19, <2>1 DEF QueueFinishes
  <1>20. ASSUME NEW t \in Threads, Handler(t) PROVE NoteInv'
    <2>1. CASE \E text \in Lengths : Add(t, text) \/ AddDictated(t, text)
      BY <1>1, <1>14, <2>1, LengthAssumption
    <2>2. CASE \E i \in Slots : Delete(t, i) \/ Retry(t, i) \/ FetchStarts(t, i)
      BY <1>2, <1>4, <1>6, <2>2
    <2>3. CASE \E i \in Slots, text \in Lengths : Edit(t, i, text)
      BY <1>5, <2>3, LengthAssumption
    <2>4. CASE StartRecording(t) \/ Arm(t)
      BY <1>8, <1>9, <2>4 DEF StartRecording, Arm
    <2> QED BY <1>3, <1>10, <1>11, <1>13, <1>20, <2>1, <2>2, <2>3, <2>4 DEF Handler
  <1>21. CASE UNCHANGED noteVars
    <2>1. RestOK'
      BY <1>21, <1>r DEF noteVars, memory, recorder, queue, RestOK
    <2> QED BY <1>0, <1>21, <2>1, QuietStep DEF noteVars, memory, NoteInv
  <1> QED
    BY <1>7, <1>15, <1>16, <1>18, <1>19, <1>20, <1>21, SaveStepKeeps, RebootKeeps DEF NoteNext

\* NoteTypeOK for every ring size, number of recordings and threads, and failure of the
\* card: in particular s_note_count, which handlers change by one, stays within the
\* ring's size of zero (ui_notes.c: ui_notes_add, ui_notes_delete, cancel, clear_failed).
THEOREM NoteTypeSafe == NoteSpec => []NoteTypeOK
  <1>1. NoteInv => NoteTypeOK
    BY DEF NoteInv, RingOK, Ring, FilesOK, File, SavingOK, SaveRecord, RestOK, NoteTypeOK
  <1>2. NoteSpec => []NoteInv
    BY NoteInitInv, NoteStep, PTL DEF NoteSpec
  <1> QED BY <1>1, <1>2, PTL

---------------------------------------------------------------------------
(***************************************************************************)
(* The kinds of step                                                       *)
(***************************************************************************)

Edits ==
  /\ s_next_rec_id' = s_next_rec_id
  /\ \A i \in Slots : s_notes'[i].wav \in {s_notes[i].wav, 0}
Records ==
  /\ s_next_rec_id' = s_next_rec_id + 1
  /\ s_notes' = [s_notes EXCEPT ![s_next_slot] = RecordingNote(s_next_rec_id)]

\* An edit or a new recording that is printed in the same step, and a step that
\* leaves notes, files and saves alone.
Prints ==
  /\ \E t \in Savers, arms \in BOOLEAN : SaveAs(t, s_next_rec_id', arms)
  /\ Edits \/ Records
Quiet ==
  /\ UNCHANGED <<s_notes, s_rec_note_slot, s_pipeline_armed_slot, files, saver>>
  /\ s_next_rec_id' \in {s_next_rec_id, s_next_rec_id + 1}

LEMMA StepKinds ==
  ASSUME NoteInv, [NoteNext]_noteVars
  PROVE  \/ Prints \/ Quiet \/ Reboot
         \/ \E t \in Savers : SaveStep(t)
         \/ \E t \in Threads : Armed(t)
  <1>0. s_notes \in [Slots -> Note] /\ \A i \in Slots : s_notes[i] \in Note
    BY DEF NoteInv, RingOK, Ring
  <1>s. ASSUME NEW t \in Savers, Save(t), Edits PROVE Prints
    BY <1>s DEF Save, Prints
  <1>t. Threads \subseteq Savers /\ "queue" \in Savers /\ "fetch" \in Savers
    BY DEF Savers
  <1>e. ASSUME NEW i, NEW state, NEW text, s_next_rec_id' = s_next_rec_id,
               \/ s_notes' = s_notes
               \/ s_notes' = [s_notes EXCEPT ![i].used = FALSE]
               \/ s_notes' = [s_notes EXCEPT ![i].state = state]
               \/ s_notes' = [s_notes EXCEPT ![i].text = text]
               \/ s_notes' = [s_notes EXCEPT ![i].state = state, ![i].text = text]
        PROVE  Edits
    BY <1>0, <1>e DEF Edits, Note
  <1>1. ASSUME NEW t \in Threads, NEW text, Add(t, text) PROVE Prints
    <2>1. Edits
      BY <1>0, <1>1 DEF Add, Edits
    <2> QED BY <1>1, <1>s, <1>t, <2>1 DEF Add
  <1>2. ASSUME NEW t \in Threads, NEW i \in Slots, NEW text,
               Delete(t, i) \/ Retry(t, i) \/ Edit(t, i, text)
        PROVE  Prints
    <2>1. Edits
      BY <1>2, <1>e DEF Delete, Retry, Edit
    <2> QED BY <1>2, <1>s, <1>t, <2>1 DEF Delete, Retry, Edit
  <1>3. ASSUME NEW t \in Threads, ClearFailed(t) PROVE Prints
    <2> DEFINE failed == {i \in Slots : s_notes[i].used /\ s_notes[i].state = "FAILED"}
    <2>1. s_notes' = [i \in Slots |-> [s_notes[i] EXCEPT !.used = @ /\ i \notin failed]]
      BY <1>3 DEF ClearFailed
    <2> HIDE DEF failed
    <2>2. Edits
      BY <1>0, <1>3, <2>1 DEF ClearFailed, Edits, Note
    <2> QED BY <1>3, <1>s, <1>t, <2>2 DEF ClearFailed
  <1>4. ASSUME NEW t \in Threads, NEW arms \in BOOLEAN, RecordAs(t, arms) PROVE Prints
    BY <1>4, <1>t DEF RecordAs, OpenWav, ReserveSlot, Prints, Records
  <1>5. ASSUME NEW t \in Threads, Cancel(t) PROVE Prints
    <2>1. Edits
      BY <1>5, <1>e DEF Cancel
    <2> QED BY <1>5, <1>s, <1>t, <2>1 DEF Cancel
  <1>6. ASSUME NEW t \in Threads, NEW notes \in [Slots -> Note], NEW heard,
               CloseWav(t, notes, heard), \A i \in Slots : notes[i].wav = s_notes[i].wav
        PROVE  Prints
    <2>1. Edits
      <3>1. PICK state, text :
              \/ s_notes' = notes
              \/ s_notes' = [notes EXCEPT ![s_rec_note_slot].state = state,
                                          ![s_rec_note_slot].text = text]
        BY <1>6 DEF CloseWav
      <3>2. \A i \in Slots : s_notes'[i].wav = notes[i].wav
        BY <1>6, <3>1 DEF Note
      <3> QED BY <1>6, <3>2 DEF CloseWav, Edits
    <2> QED BY <1>6, <1>s, <1>t, <2>1 DEF CloseWav
  <1>7. ASSUME NEW t \in Threads, NEW text, AddDictated(t, text) PROVE Prints
    <2> DEFINE shown == [s_notes EXCEPT ![s_rec_note_slot].used = TRUE]
    <2>1. shown \in [Slots -> Note] /\ \A i \in Slots : shown[i].wav = s_notes[i].wav
      BY <1>0 DEF Note
    <2> HIDE DEF shown
    <2>2. CASE CloseWav(t, shown, TRUE)
      BY <1>6, <2>1, <2>2
    <2> QED BY <1>1, <1>7, <2>2 DEF AddDictated, shown
  <1>8. ASSUME NEW t \in Threads, StopRecording(t) PROVE Prints
    BY <1>0, <1>6, <1>8 DEF StopRecording
  <1>9. ASSUME NEW t \in Threads, Handler(t)
        PROVE  Prints \/ Quiet \/ Armed(t)
    <2>1. ASSUME NEW i \in Slots, FetchStarts(t, i) PROVE Quiet
      BY <2>1 DEF FetchStarts, Quiet, ring, recorder
    <2>2. ASSUME OpenWavFails(t), s_pipeline_armed_slot' = s_pipeline_armed_slot PROVE Quiet
      BY <2>2 DEF OpenWavFails, Quiet, ring
    <2>3. CASE StartRecording(t) \/ Arm(t)
      BY <1>4, <2>2, <2>3 DEF StartRecording, Arm, OpenWavFails
    <2> QED BY <1>1, <1>2, <1>3, <1>5, <1>7, <1>8, <1>9, <2>1, <2>3 DEF Handler
  <1>10. ASSUME FetchFinishes PROVE Prints \/ Quiet
    <2>1. CASE s_notes' = [s_notes EXCEPT ![f_slot].text = Long] /\ Save("fetch")
      BY <1>10, <1>e, <1>s, <1>t, <2>1 DEF FetchFinishes
    <2>2. CASE UNCHANGED <<s_notes, files, saver>>
      BY <1>10, <2>2 DEF FetchFinishes, recorder, Quiet
    <2> QED BY <1>10, <2>1, <2>2 DEF FetchFinishes
  <1>11. ASSUME ReopenFails \/ QueueChecks PROVE Quiet
    BY <1>11 DEF ReopenFails, QueueChecks, ring, recorder, Quiet
  <1>12. ASSUME QueuePicks PROVE Prints \/ Quiet
    <2>1. CASE UNCHANGED <<s_notes, files, saver>>
      BY <1>12, <2>1 DEF QueuePicks, recorder, Quiet
    <2>2. ASSUME NEW slot, Save("queue"),
                 \/ s_notes' = [s_notes EXCEPT ![slot].state = "TRANSCRIBING"]
                 \/ s_notes' = [s_notes EXCEPT ![slot].state = "FAILED", ![slot].text = Short]
          PROVE  Prints
      BY <1>12, <1>e, <1>s, <1>t, <2>2 DEF QueuePicks
    <2> QED BY <1>12, <2>1, <2>2 DEF QueuePicks
  <1>13. ASSUME QueueOpens PROVE Prints \/ Quiet
    <2>1. CASE UNCHANGED <<s_notes, q_slot, files, saver>>
      BY <1>13, <2>1 DEF QueueOpens, recorder, Quiet
    <2>2. CASE /\ QueueRests
               /\ \/ s_notes' = [s_notes EXCEPT ![q_slot].state = "FAILED"]
                  \/ s_notes' = [s_notes EXCEPT ![q_slot].state = "FAILED", ![q_slot].text = Short]
      BY <1>13, <1>e, <1>s, <1>t, <2>2 DEF QueueOpens, QueueRests
    <2> QED BY <1>13, <2>1, <2>2 DEF QueueOpens
  <1>14. ASSUME QueueFinishes PROVE Prints
    BY <1>14, <1>e, <1>s, <1>t DEF QueueFinishes, QueueRests
  <1>15. CASE UNCHANGED noteVars
    BY <1>15 DEF noteVars, memory, ring, recorder, Quiet
  <1> QED
    BY <1>9, <1>10, <1>11, <1>12, <1>13, <1>14, <1>15 DEF NoteNext

---------------------------------------------------------------------------
(***************************************************************************)
(* WAV ownership                                                           *)
(***************************************************************************)

\* WavOwned is not inductive: the next recording's number must be above every
\* number in use, and all of this must hold of each file a boot may load.
Owned(notes, recid) ==
  /\ \A i \in Slots : notes[i].wav < recid
  /\ \A i, j \in Slots : i # j /\ notes[i].wav = notes[j].wav => notes[i].wav = 0

FileOwned(file) == file \notin {NoFile, Torn} => Owned(file.notes, file.recid)

WavInv ==
  /\ Owned(s_notes, s_next_rec_id)
  /\ FileOwned(sd) /\ FileOwned(tmp) /\ FileOwned(nvs)
  /\ \A t \in Savers : FileOwned(saving[t].file)

LEMMA WavNumber == \A n \in Note : n.wav \in Nat
  BY DEF Note, Recordings

LEMMA RingNotes ==
  NoteInv => /\ s_notes \in [Slots -> Note] /\ s_next_slot \in Slots
             /\ s_next_rec_id \in Nat \ {0}
             /\ \A i \in Slots : s_notes[i] \in Note /\ s_notes[i].wav \in Nat
  BY WavNumber, NoteAssumption DEF NoteInv, RingOK, Ring

LEMMA FileNotes ==
  ASSUME NEW file \in NoteFile
  PROVE  /\ \A i \in Slots : file.notes[i] \in Note /\ file.notes[i].wav \in Nat
         /\ file.recid \in Nat \ {0}
  BY WavNumber, NoteAssumption DEF NoteFile

\* Bodies, states and visibility may change as they like, and numbers be skipped.
LEMMA SameWavs ==
  ASSUME NEW old, NEW new, NEW recid \in Nat, NEW next \in Nat, Owned(old, recid), recid <= next,
         recid # 0, \A i \in Slots : old[i].wav \in Nat /\ new[i].wav \in {old[i].wav, 0}
  PROVE  Owned(new, next)
  <1>1. \A i \in Slots : new[i].wav < next
    BY DEF Owned
  <1> QED BY <1>1 DEF Owned

\* A slot takes the next recording and the counter moves on.
LEMMA RecordOwned ==
  ASSUME NoteInv, Owned(s_notes, s_next_rec_id), Records
  PROVE  Owned(s_notes', s_next_rec_id')
  <1>1. \A i \in Slots : s_notes'[i].wav = IF i = s_next_slot THEN s_next_rec_id ELSE s_notes[i].wav
    BY RingNotes DEF Records, RecordingNote
  <1>2. \A i \in Slots : s_notes[i].wav \in Nat /\ s_notes[i].wav < s_next_rec_id
    BY RingNotes DEF Owned
  <1>3. \A i \in Slots : s_notes'[i].wav < s_next_rec_id'
    BY <1>1, <1>2, RingNotes DEF Records
  <1>4. \A i, j \in Slots : i # j /\ s_notes'[i].wav = s_notes'[j].wav => s_notes'[i].wav = 0
    BY <1>1, <1>2, RingNotes DEF Owned
  <1> QED BY <1>3, <1>4 DEF Owned

LEMMA PrintsOwned ==
  ASSUME NoteInv, NoteInv', WavInv, Prints
  PROVE  WavInv'
  <1>1. PICK t \in Savers, arms \in BOOLEAN : SaveAs(t, s_next_rec_id', arms)
    BY DEF Prints
  <1>2. Owned(s_notes', s_next_rec_id')
    <2>1. CASE Edits
      BY <2>1, RingNotes, SameWavs DEF Edits, WavInv
    <2>2. CASE Records
      BY <2>2, RecordOwned DEF WavInv
    <2> QED BY <2>1, <2>2 DEF Prints
  <1>3. RingOK'
    BY DEF NoteInv
  <1>4. /\ saving'[t].file.recid = s_next_rec_id'
        /\ \A i \in Slots : saving'[t].file.notes[i] = IF s_notes'[i].used THEN s_notes'[i] ELSE Blank
        /\ \A u \in Savers \ {t} : saving'[u] = saving[u]
    BY <1>1, <1>3, PrintedFile
  <1>5. /\ s_next_rec_id' \in Nat \ {0}
        /\ \A i \in Slots : s_notes'[i].wav \in Nat
    BY <1>3, WavNumber, NoteAssumption DEF RingOK, Ring
  <1>6. Owned(saving'[t].file.notes, saving'[t].file.recid)
    <2>1. \A i \in Slots : saving'[t].file.notes[i].wav \in {s_notes'[i].wav, 0}
      BY <1>4, BlankNote
    <2> QED BY <1>2, <1>4, <1>5, <2>1, SameWavs
  <1>7. \A u \in Savers : FileOwned(saving'[u].file)
    BY <1>4, <1>6 DEF WavInv, FileOwned
  <1>8. UNCHANGED <<sd, tmp, nvs>>
    BY <1>1 DEF SaveAs, files
  <1> QED BY <1>2, <1>7, <1>8 DEF WavInv, FileOwned

LEMMA RebootOwned ==
  ASSUME NoteInv, NoteInv', WavInv, Reboot
  PROVE  WavInv'
  <1>1. PICK file \in {sd, nvs, Torn} : LoadedFrom(file) /\ Load(file)
    BY DEF Reboot
  <1>2. Owned(s_notes', s_next_rec_id')
    <2>1. CASE file \in {NoFile, Torn}
      <3>1. s_notes' = [i \in Slots |-> Blank] /\ s_next_rec_id' = 1
        BY <1>1, <2>1 DEF Load
      <3> QED BY <3>1, BlankNote DEF Owned
    <2>2. CASE file \notin {NoFile, Torn}
      <3>1. file \in NoteFile /\ Owned(file.notes, file.recid)
        BY <1>1, <2>2 DEF NoteInv, FilesOK, File, WavInv, FileOwned
      <3>2. /\ s_notes' = [i \in Slots |-> Restored(file.notes[i])]
            /\ s_next_rec_id' = IF nvs_recid > file.recid THEN nvs_recid ELSE file.recid
        BY <1>1, <2>2 DEF Load
      <3>3. nvs_recid \in Nat
        BY NoteAssumption DEF NoteInv, FilesOK
      <3>4. file.recid \in Nat \ {0} /\ \A i \in Slots : file.notes[i] \in Note /\ file.notes[i].wav \in Nat
        BY <3>1, FileNotes
      <3>5. \A n \in Note : Restored(n).wav = n.wav
        BY DEF Restored, Note
      <3>6. \A i \in Slots : s_notes'[i].wav = file.notes[i].wav
        BY <3>2, <3>4, <3>5
      <3>7. s_next_rec_id' \in Nat /\ file.recid <= s_next_rec_id'
        BY <3>2, <3>3, <3>4
      <3> QED BY <3>1, <3>4, <3>6, <3>7, SameWavs
    <2> QED BY <2>1, <2>2
  <1>3. \A t \in Savers : saving'[t].file = NoFile
    BY DEF Reboot, Idle
  <1>4. UNCHANGED <<sd, tmp, nvs>>
    BY DEF Reboot, files
  <1> QED BY <1>2, <1>3, <1>4 DEF WavInv, FileOwned

LEMMA WavInitInv == NoteInit => WavInv
  <1> SUFFICES ASSUME NoteInit PROVE WavInv
    OBVIOUS
  <1>1. Owned(s_notes, s_next_rec_id)
    BY BlankNote DEF NoteInit, Owned
  <1>2. \A t \in Savers : saving[t].file = NoFile
    BY DEF NoteInit, Idle
  <1> QED BY <1>1, <1>2 DEF NoteInit, WavInv, FileOwned

LEMMA WavStep == NoteInv /\ NoteInv' /\ WavInv /\ [NoteNext]_noteVars => WavInv'
  <1> SUFFICES ASSUME NoteInv, NoteInv', WavInv, [NoteNext]_noteVars PROVE WavInv'
    OBVIOUS
  <1>1. CASE Quiet
    <2>1. Owned(s_notes', s_next_rec_id')
      BY <1>1, RingNotes, SameWavs DEF Quiet, WavInv
    <2> QED BY <1>1, <2>1 DEF Quiet, files, saver, WavInv, FileOwned
  <1>2. ASSUME NEW t \in Savers, SaveStep(t) PROVE WavInv'
    <2>1. Owned(s_notes', s_next_rec_id')
      BY <1>2, SaveStepFiles DEF memory, ring, WavInv
    <2>2. FileOwned(sd') /\ FileOwned(tmp') /\ FileOwned(nvs')
      BY <1>2, SaveStepFiles DEF WavInv, FileOwned
    <2>3. \A u \in Savers : FileOwned(saving'[u].file)
      BY <1>2, SaveStepFiles DEF WavInv, FileOwned
    <2> QED BY <2>1, <2>2, <2>3 DEF WavInv, FileOwned
  <1>3. ASSUME NEW t \in Threads, Armed(t) PROVE WavInv'
    <2>1. s_next_rec_id' = s_next_rec_id /\ \A i \in Slots : s_notes'[i].wav = s_notes[i].wav
      BY <1>3, RingNotes DEF Armed, Note
    <2>2. Owned(s_notes', s_next_rec_id')
      BY <2>1, RingNotes, SameWavs DEF WavInv
    <2>3. \A u \in Savers : saving'[u].file \in {saving[u].file, NoFile}
      BY <1>3 DEF Armed, Idle, NoteInv, SavingOK
    <2> QED BY <1>3, <2>2, <2>3 DEF Armed, files, WavInv, FileOwned
  <1> QED BY <1>1, <1>2, <1>3, StepKinds, PrintsOwned, RebootOwned

\* WavOwned for every ring size and number of recordings: ui_notes_start_recording and
\* ui_notes_pipeline_arm_recording (ui_notes.c:1265-1355) never give a note the WAV of
\* another one, whatever saves overlap, whatever the card refuses and whichever file
\* notes_load takes.
THEOREM WavOwnedSafe == NoteSpec => []WavOwned
  <1>1. WavInv => WavOwned
    BY DEF WavInv, Owned, WavOwned, Visible
  <1>2. NoteSpec => [](NoteInv /\ WavInv)
    BY NoteInitInv, NoteStep, WavInitInv, WavStep, PTL DEF NoteSpec
  <1> QED BY <1>1, <1>2, PTL

---------------------------------------------------------------------------
(***************************************************************************)
(* The next boot                                                           *)
(***************************************************************************)

\* NextBootShowsNotes looks at moments without a save.  In between, as long as there
\* is no doubt, one thread at most is in notes_save; the file it has printed shows the
\* list, and from the write on is the temporary file.
Active == {t \in Savers : saving[t].pc \notin {"idle", "hide"}}

Stage(t) ==
  /\ saving[t].pc = "write" => tmp = Torn
  /\ saving[t].pc \in {"remove", "rename"} => tmp = saving[t].file

BootShows == \A file \in {sd, nvs, Torn} : LoadedFrom(file) => Shows(file)

KeptInv ==
  ~doubt => /\ \A t \in Active : Active = {t} /\ Shows(saving[t].file) /\ Stage(t)
            /\ Active = {} => BootShows

LEMMA RestoredTwice == \A n \in Note : Restored(Restored(n)) = Restored(n) /\ Restored(n).used = n.used
  BY DEF Restored, Note, NoteStates

LEMMA RestoredBlank == Restored(Blank) = Blank
  BY DEF Restored, Blank

\* Which file shows the list depends on the notes and on who is awaited only.
LEMMA ShowsStays ==
  ASSUME NEW file, Shows(file), UNCHANGED <<s_notes, s_rec_note_slot, s_pipeline_armed_slot>>
  PROVE  Shows(file)'
  BY DEF Shows, Visible, Awaited, NoteIn

LEMMA PrintsKept ==
  ASSUME NoteInv, NoteInv', KeptInv, Prints
  PROVE  KeptInv'
  <1>1. PICK t \in Savers, arms \in BOOLEAN : SaveAs(t, s_next_rec_id', arms)
    BY DEF Prints
  <1>2. RingOK'
    BY DEF NoteInv
  <1>3. /\ saving'[t].pc = "open" /\ saving'[t].file \in NoteFile
        /\ \A i \in Slots : saving'[t].file.notes[i] = IF s_notes'[i].used THEN s_notes'[i] ELSE Blank
        /\ \A u \in Savers \ {t} : saving'[u] = saving[u]
    BY <1>1, <1>2, PrintedFile
  <1>4. SUFFICES ASSUME ~doubt' PROVE KeptInv'
    BY DEF KeptInv
  <1>5. Active' = {t}
    BY <1>1, <1>3, <1>4 DEF SaveAs, Active
  <1>6. Shows(saving[t].file)'
    <2>1. saving'[t].file \notin {NoFile, Torn}
      BY <1>3, NoFileAssumption
    <2>2. \A i \in Slots : NoteIn(saving'[t].file, i) = IF s_notes'[i].used THEN s_notes'[i] ELSE Blank
      BY <1>3, <2>1 DEF NoteIn
    <2> QED BY <2>2, BlankNote DEF Shows, NoteIn, Visible
  <1>7. Stage(t)'
    BY <1>3 DEF Stage
  <1> QED BY <1>5, <1>6, <1>7 DEF KeptInv

\* A boot from a file that parses is one after which the next boot loads it again.
LEMMA RebootKept ==
  ASSUME NoteInv, NoteInv', Reboot
  PROVE  KeptInv'
  <1>1. PICK file \in {sd, nvs, Torn} : LoadedFrom(file) /\ Load(file)
    BY DEF Reboot
  <1>2. SUFFICES ASSUME ~doubt' PROVE KeptInv'
    BY DEF KeptInv
  <1>3. sd # Torn /\ nvs # Torn /\ UNCHANGED <<sd, nvs>>
    BY <1>2 DEF Reboot, NoteInv, FilesOK, files
  <1>4. file # Torn /\ \A other \in {sd, nvs, Torn} : LoadedFrom(other)' => other = file
    BY <1>1, <1>3 DEF LoadedFrom, Longs
  <1>5. Active' = {}
    BY DEF Reboot, Active, Idle
  <1>6. Shows(file)'
    <2>1. CASE file = NoFile
      <3>1. s_notes' = [i \in Slots |-> Blank]
        BY <1>1, <2>1 DEF Load
      <3> QED BY <2>1, <3>1, BlankNote DEF Shows, NoteIn, Visible
    <2>2. CASE file # NoFile
      <3>1. s_notes' = [i \in Slots |-> Restored(file.notes[i])]
        BY <1>1, <1>4, <2>2 DEF Load
      <3>2. file \in NoteFile
        BY <1>1, <1>4, <2>2 DEF NoteInv, FilesOK, File
      <3>3. \A i \in Slots : file.notes[i] \in Note
        BY <3>2, FileNotes
      <3>4. \A i \in Slots : /\ s_notes'[i].used = file.notes[i].used
                             /\ Restored(s_notes'[i]) = Restored(file.notes[i])
        BY <3>1, <3>3, RestoredTwice
      <3>5. \A i \in Slots : NoteIn(file, i) = file.notes[i]
        BY <1>4, <2>2 DEF NoteIn
      <3> QED BY <3>4, <3>5 DEF Shows, NoteIn, Visible
    <2> QED BY <2>1, <2>2
  <1>7. BootShows'
    BY <1>3, <1>4, <1>6 DEF BootShows, LoadedFrom, Shows
  <1> QED BY <1>5, <1>7 DEF KeptInv

LEMMA SaveStepKept ==
  ASSUME NoteInv, NoteInv', KeptInv, NEW t \in Savers, SaveStep(t)
  PROVE  KeptInv'
  <1>1. SUFFICES ASSUME ~doubt' PROVE KeptInv'
    BY DEF KeptInv
  <1>2. ~doubt
    BY <1>1 DEF SaveStep, OpenTmp, WriteTmp, RemoveSd, RenameTmp, SaveBlob
  <1>3. saving[t].pc \in SavePcs \ {"idle", "hide"}
    BY DEF SaveStep, OpenTmp, WriteTmp, RemoveSd, RenameTmp, SaveBlob, SavePcs
  <1>4. t \in Active
    BY <1>3 DEF Active
  <1>5. Active = {t} /\ Shows(saving[t].file) /\ Stage(t)
    BY <1>2, <1>4 DEF KeptInv
  <1>6. \A file : Shows(file) => Shows(file)'
    BY SaveStepFiles, ShowsStays DEF memory, ring, recorder
  <1>s. saving \in [Savers -> SaveRecord]
    BY DEF NoteInv, SavingOK
  <1>f. saving[t].file \in NoteFile \cup {NoFile} /\ saving[t].file # Torn
    BY <1>s, NoFileAssumption DEF SaveRecord
  <1>7. ASSUME NEW pc \in SavePcs \ {"idle", "hide"}, StepTo(t, pc)
        PROVE  /\ saving'[t].pc = pc /\ saving'[t].file = saving[t].file
               /\ Active' = {t} /\ Shows(saving[t].file)'
    <2>1. saving'[t].pc = pc /\ saving'[t].file = saving[t].file
          /\ \A u \in Savers \ {t} : saving'[u] = saving[u]
      BY <1>s, <1>7 DEF StepTo, SaveRecord
    <2>2. Active' = {t}
      BY <1>5, <1>7, <2>1 DEF Active
    <2> QED BY <1>5, <1>6, <2>1, <2>2
  <1>8. ASSUME Done(t) PROVE Active' = {}
    <2>1. saving'[t].pc \in {"idle", "hide"} /\ \A u \in Savers \ {t} : saving'[u] = saving[u]
      BY <1>s, <1>8 DEF Done, Idle
    <2> QED BY <1>5, <2>1 DEF Active
  <1>9. ASSUME NEW pc \in SavePcs \ {"idle", "hide"}, StepTo(t, pc),
               pc = "write" => tmp' = Torn,
               pc \in {"remove", "rename"} => tmp' = saving[t].file
        PROVE  KeptInv'
    <2>1. Stage(t)'
      BY <1>7, <1>9 DEF Stage
    <2>2. Shows(saving[t].file)'
      BY <1>7, <1>9 DEF Shows, NoteIn
    <2> QED BY <1>7, <1>9, <2>1, <2>2 DEF KeptInv
  <1>10. CASE OpenTmp(t)
    BY <1>9, <1>10 DEF OpenTmp, SavePcs
  <1>11. CASE WriteTmp(t)
    <2>1. tmp = Torn
      BY <1>5, <1>11 DEF WriteTmp, Stage
    <2>2. \A u \in Savers \ {t} : saving[u].pc # "write"
      BY <1>5 DEF Active
    <2>3. \/ tmp' = saving[t].file /\ StepTo(t, "remove")
          \/ StepTo(t, "blob")
      BY <1>11, <2>1, <2>2, NoFileAssumption DEF WriteTmp
    <2> QED BY <1>9, <2>3 DEF SavePcs
  <1>12. CASE RemoveSd(t)
    <2>1. tmp' = saving[t].file
      BY <1>5, <1>12 DEF RemoveSd, Stage
    <2> QED BY <1>9, <1>12, <2>1 DEF RemoveSd, SavePcs
  <1>13. CASE RenameTmp(t)
    <2>1. CASE StepTo(t, "blob")
      BY <1>9, <2>1 DEF SavePcs
    <2>2. CASE /\ tmp # NoFile /\ sd' = tmp /\ Done(t)
               /\ doubt' = (doubt \/ Longs(saving[t].file) > FileRoom)
      <3>1. sd' = saving[t].file /\ sd' \in NoteFile /\ sd' \notin {NoFile, Torn}
        BY <1>5, <1>13, <1>f, <2>2 DEF RenameTmp, Stage
      <3>2. Longs(sd') <= FileRoom
        <4>1. /\ IsFiniteSet({i \in Slots : sd'.notes[i].used /\ sd'.notes[i].text = Long})
          BY SlotCount, FS_Subset
        <4>2. Longs(sd') \in Nat
          BY <4>1, FS_CardinalityType DEF Longs
        <4>3. ~(Longs(sd') > FileRoom)
          BY <1>1, <1>2, <2>2, <3>1
        <4> QED BY <4>2, <4>3, NoteAssumption
      <3>3. \A file \in {sd, nvs, Torn}' : LoadedFrom(file)' => file = sd'
        BY <3>1, <3>2 DEF LoadedFrom, Longs
      <3>4. Shows(sd)'
        BY <1>5, <1>6, <3>1 DEF Shows, NoteIn
      <3>5. BootShows'
        BY <3>3, <3>4 DEF BootShows, LoadedFrom, Shows
      <3> QED BY <1>8, <2>2, <3>5 DEF KeptInv
    <2> QED BY <1>13, <2>1, <2>2 DEF RenameTmp
  <1>14. CASE SaveBlob(t)
    <2>1. Longs(saving[t].file) <= BlobRoom /\ sd = NoFile
      BY <1>1, <1>14 DEF SaveBlob
    <2>2. nvs' = saving[t].file /\ sd' = NoFile /\ Done(t)
      BY <1>14, <2>1 DEF SaveBlob
    <2>3. Shows(nvs)'
      BY <1>5, <1>6, <2>2 DEF Shows, NoteIn
    <2>4. BootShows'
      BY <2>2, <2>3, NoFileAssumption DEF BootShows, LoadedFrom, Shows
    <2> QED BY <1>8, <2>2, <2>4 DEF KeptInv
  <1> QED BY <1>10, <1>11, <1>12, <1>13, <1>14 DEF SaveStep

LEMMA ArmedKept ==
  ASSUME NoteInv, NoteInv', KeptInv, NEW t \in Threads, Armed(t)
  PROVE  KeptInv'
  <1>1. t \in Savers /\ saving \in [Savers -> SaveRecord]
    BY DEF Savers, NoteInv, SavingOK
  <1>2. /\ saving'[t].pc = "idle" /\ saving[t].pc = "hide"
        /\ \A u \in Savers \ {t} : saving'[u] = saving[u]
    BY <1>1 DEF Armed, Idle
  <1>3. Active' = Active
    BY <1>2 DEF Active
  <1>4. Awaited' = {s_rec_note_slot} /\ Awaited \subseteq Awaited'
    BY DEF Armed, Awaited
  <1>5. \A i \in Slots \ Awaited' : s_notes'[i] = s_notes[i]
    BY <1>4, RingNotes DEF Armed
  <1>6. \A file : Shows(file) => Shows(file)'
    BY <1>4, <1>5 DEF Shows, Visible, NoteIn
  <1>7. UNCHANGED <<sd, tmp, nvs, doubt>>
    BY DEF Armed, files
  <1>8. ASSUME ~doubt, NEW u \in Active
        PROVE  Shows(saving[u].file)' /\ Stage(u)'
    <2>1. saving'[u] = saving[u] /\ Shows(saving[u].file) /\ Stage(u)
      BY <1>2, <1>8 DEF Active, KeptInv
    <2>2. Stage(u)'
      BY <1>7, <2>1 DEF Stage
    <2>3. PICK file : file = saving[u].file
      OBVIOUS
    <2>4. Shows(file)' /\ file = saving'[u].file
      BY <1>6, <2>1, <2>3
    <2> QED BY <2>2, <2>4 DEF Shows
  <1>9. BootShows => BootShows'
    BY <1>6, <1>7 DEF BootShows, LoadedFrom, Shows
  <1> QED BY <1>3, <1>7, <1>8, <1>9 DEF KeptInv

LEMMA QuietKept ==
  ASSUME KeptInv, Quiet
  PROVE  KeptInv'
  <1>1. UNCHANGED <<sd, tmp, nvs, saving, doubt>>
    BY DEF Quiet, files, saver
  <1>2. \A file : Shows(file) => Shows(file)'
    BY ShowsStays DEF Quiet
  <1>3. Active' = Active /\ \A t : Stage(t) => Stage(t)'
    BY <1>1 DEF Active, Stage
  <1>4. BootShows => BootShows'
    BY <1>1, <1>2 DEF BootShows, LoadedFrom, Shows
  <1>5. \A t : Shows(saving[t].file) => Shows(saving[t].file)'
    BY <1>1, <1>2 DEF Shows, NoteIn
  <1> QED BY <1>1, <1>3, <1>4, <1>5 DEF KeptInv

LEMMA KeptInitInv == NoteInit => KeptInv
  <1> SUFFICES ASSUME NoteInit PROVE KeptInv
    OBVIOUS
  <1>1. Active = {}
    BY DEF NoteInit, Active, Idle
  <1>2. BootShows
    BY BlankNote, NoFileAssumption DEF NoteInit, BootShows, LoadedFrom, Shows, Visible, NoteIn
  <1> QED BY <1>1, <1>2 DEF KeptInv

LEMMA KeptStep == NoteInv /\ NoteInv' /\ KeptInv /\ [NoteNext]_noteVars => KeptInv'
  BY StepKinds, PrintsKept, QuietKept, RebootKept, SaveStepKept, ArmedKept

\* NextBootShowsNotes for every ring size, set of threads, limit of the two files and
\* failure of the card: notes_save and notes_load (ui_notes.c:514-775) leave the next
\* boot the list on the screen, but for the exceptions that doubt stands for.
THEOREM NextBootSafe == NoteSpec => []NextBootShowsNotes
  <1>1. NoteInv /\ KeptInv => NextBootShowsNotes
    <2>1. (\A t \in Savers : saving[t] = Idle) => Active = {}
      BY DEF Active, Idle
    <2> QED BY <2>1 DEF KeptInv, NextBootShowsNotes, BootShows
  <1>2. NoteSpec => [](NoteInv /\ KeptInv)
    BY NoteInitInv, NoteStep, KeptInitInv, KeptStep, PTL DEF NoteSpec
  <1> QED BY <1>1, <1>2, PTL

=============================================================================

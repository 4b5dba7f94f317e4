----------------------------- MODULE SoloProofs -----------------------------
(***************************************************************************)
(* SoloTurn for any number of turns: what a cancelled job was told keeps   *)
(* its turn out of the history, and only a power loss or a failed rename   *)
(* takes an entry away.  Both need to know, for each stage of the job,     *)
(* what the two files and the copy in memory may hold.                     *)
(***************************************************************************)
EXTENDS SoloTurn, TLAPS

Answering == {"ask", "stt", "say"}
Saving == {"load", "write", "unlink", "rename"}
Files == {Gone} \cup SUBSET Entries

FlagType ==
  /\ s_busy \in BOOLEAN /\ s_cancel_requested \in BOOLEAN /\ s_tts_done \in BOOLEAN
JobType ==
  /\ vmode \in Modes /\ s_state \in {"READY", "LISTENING"} \cup Busy
  /\ mic \in {"off", "rec", "stop"}
  /\ stage \in {"none", "queued", "end", "handover"} \cup Answering \cup Saving
  /\ kind \in {"text", "audio"} /\ role \in {"user", "assistant"} /\ turn \in 0..MaxTurns
  /\ drain \in {"wait", "ready"}
  /\ stage # "none" => turn # 0
DiskType ==
  /\ file \in Files /\ tmp \in Files \cup {Partial}
  /\ buf \subseteq Entries /\ saved \subseteq Entries
CancelType == heard \subseteq cancelled /\ cancelled \subseteq 1..turn

\* The files and the copy hold turns nobody was told to drop, up to this one; the
\* turn that is being answered is not there yet.
Everything == Contents(file) \cup Contents(tmp) \cup buf
Kept == \A e \in Everything : e[1] \in Nat /\ e[1] \notin heard /\ e[1] <= turn
Fresh == stage \in Answering \cup {"queued"} => \A e \in Everything : e[1] # turn

\* A step adds to the files and the copy only the entry a save is about.
Grows ==
  \/ Everything' \subseteq Everything
  \/ stage = "load" /\ Everything' \subseteq Everything \cup {<<turn, role>>}

\* The turn goes on, the next one is accepted, or the running one is told to stop.
Moves ==
  \/ turn' = turn /\ heard' = heard
  \/ turn' = turn + 1 /\ heard' = heard /\ Everything' = Everything
  \/ /\ turn' = turn /\ heard' = heard \cup {turn} /\ stage \in Answering
     /\ Everything' = Everything

\* The job that was told has the flag up until it looks, and never saves.
Told ==
  /\ stage \in Saving \cup {"queued"} => turn \notin heard
  /\ stage \in Answering /\ turn \in heard => s_cancel_requested = TRUE

\* One turn at a time: a job holds s_busy.
Taken == stage # "none" => s_busy = TRUE

\* What is saved is in the file, except between the removal and the rename.
Stored ==
  /\ stage # "rename" => saved \subseteq Contents(file)
  /\ stage \in {"write", "unlink", "rename"} => saved \cup {<<turn, role>>} \subseteq buf
  /\ stage \in {"unlink", "rename"} => tmp = buf

SoloInv ==
  FlagType /\ JobType /\ DiskType /\ CancelType /\ Kept /\ Fresh /\ Told /\ Taken /\ Stored

(* ---- types ---------------------------------------------------------------------*)
LEMMA FlagStep ==
  ASSUME FlagType, SoloNext
  PROVE  FlagType'
  <1> USE DEF FlagType, disk, aux, job, offUser, offJob, offSave
  <1>1. CASE SetMode \/ SendText
    BY <1>1, Zenon DEF SetMode, SendText, Accept
  <1>2. CASE StartMic \/ StopMic \/ DispatchAudio
    BY <1>2, Zenon
       DEF StartMic, StopMic, DispatchAudio, Accept
  <1>3. CASE VoiceCancel
    BY <1>3, Zenon DEF VoiceCancel
  <1>4. CASE JobBegins \/ SttEnds
    BY <1>4, Zenon DEF JobBegins, SttEnds, Goto
  <1>5. CASE AnswerEnds
    BY <1>5, Zenon DEF AnswerEnds, Goto
  <1>6. CASE JobEnds \/ Handover
    BY <1>6, Zenon DEF JobEnds, Handover, Goto
  <1>7. CASE DrainSees \/ DrainReady
    BY <1>7, Zenon DEF DrainSees, DrainReady
  <1>8. CASE Load
    BY <1>8, Zenon DEF Load, Appended
  <1>9. CASE Write
    BY <1>9, Zenon DEF Write, Appended
  <1>10. CASE Unlink
    BY <1>10, Zenon DEF Unlink
  <1>11. CASE Rename
    BY <1>11, Zenon DEF Rename, Appended
  <1>12. CASE PowerLoss
    BY <1>12, Zenon DEF PowerLoss
  <1> QED BY <1>1, <1>2, <1>3, <1>4, <1>5, <1>6, <1>7, <1>8, <1>9, <1>10, <1>11, <1>12, Zenon
       DEF SoloNext, JobNext, UserNext

LEMMA JobStep ==
  ASSUME JobType, SoloNext
  PROVE  JobType'
  <1> USE DEF JobType, Answering, Saving, Busy, disk, aux, job, offUser, offJob, offSave
  <1>1. CASE SetMode \/ SendText
    BY <1>1, SoloAssumption DEF SetMode, SendText, Accept
  <1>2. CASE StartMic \/ StopMic \/ DispatchAudio
    BY <1>2, SoloAssumption
       DEF StartMic, StopMic, DispatchAudio, Accept
  <1>3. CASE VoiceCancel
    BY <1>3, SoloAssumption DEF VoiceCancel
  <1>4. CASE JobBegins \/ SttEnds
    BY <1>4, SoloAssumption DEF JobBegins, SttEnds, Goto
  <1>5. CASE AnswerEnds
    BY <1>5, SoloAssumption DEF AnswerEnds, Goto
  <1>6. CASE JobEnds \/ Handover
    BY <1>6, SoloAssumption DEF JobEnds, Handover, Goto
  <1>7. CASE DrainSees \/ DrainReady
    BY <1>7, SoloAssumption DEF DrainSees, DrainReady
  <1>8. CASE Load
    BY <1>8, SoloAssumption DEF Load, Appended
  <1>9. CASE Write
    BY <1>9, SoloAssumption DEF Write, Appended
  <1>10. CASE Unlink
    BY <1>10, SoloAssumption DEF Unlink
  <1>11. CASE Rename
    BY <1>11, SoloAssumption DEF Rename, Appended
  <1>12. CASE PowerLoss
    BY <1>12, SoloAssumption DEF PowerLoss
  <1> QED BY <1>1, <1>2, <1>3, <1>4, <1>5, <1>6, <1>7, <1>8, <1>9, <1>10, <1>11, <1>12
       DEF SoloNext, JobNext, UserNext

LEMMA EntryOfTurn ==
  ASSUME JobType, stage # "none"
  PROVE  <<turn, role>> \in Entries
  BY SoloAssumption DEF JobType, Entries

LEMMA ContentsType ==
  ASSUME NEW f \in Files \cup {Partial}
  PROVE  Contents(f) \subseteq Entries /\ (f \in SUBSET Entries => Contents(f) = f)
  BY SoloAssumption DEF Contents, Files

LEMMA DiskStep ==
  ASSUME JobType, DiskType, Stored, SoloNext
  PROVE  DiskType'
  <1> USE DEF DiskType, Files, disk, aux, job, offUser, offJob, offSave
  <1>1. CASE SetMode \/ SendText
    BY <1>1 DEF SetMode, SendText, Accept
  <1>2. CASE StartMic \/ StopMic \/ DispatchAudio
    BY <1>2
       DEF StartMic, StopMic, DispatchAudio, Accept
  <1>3. CASE VoiceCancel
    BY <1>3 DEF VoiceCancel, Waiting
  <1>4. CASE JobBegins \/ SttEnds
    BY <1>4 DEF JobBegins, SttEnds, Goto
  <1>5. CASE AnswerEnds
    BY <1>5 DEF AnswerEnds, Goto
  <1>6. CASE JobEnds \/ Handover
    BY <1>6 DEF JobEnds, Handover, Goto
  <1>7. CASE DrainSees \/ DrainReady
    BY <1>7 DEF DrainSees, DrainReady
  <1>8. CASE Load
    BY <1>8, EntryOfTurn DEF Load, Appended
  <1>9. CASE Write
    BY <1>9 DEF Write, Appended
  <1>10. CASE Unlink
    BY <1>10 DEF Unlink
  <1>11. CASE Rename
    BY <1>11, EntryOfTurn DEF Rename, Appended, Stored
  <1>12. CASE PowerLoss
    BY <1>12, ContentsType DEF PowerLoss
  <1> QED BY <1>1, <1>2, <1>3, <1>4, <1>5, <1>6, <1>7, <1>8, <1>9, <1>10, <1>11, <1>12
       DEF SoloNext, JobNext, UserNext

LEMMA TurnGrows ==
  ASSUME JobType, SendText \/ DispatchAudio
  PROVE  /\ turn' = turn \/ turn' = turn + 1
         /\ 1..turn \subseteq 1..turn' /\ UNCHANGED <<cancelled, heard>>
  <1>1. turn' = turn \/ turn' = turn + 1
    BY DEF SendText, DispatchAudio, Accept, job
  <1>2. turn \in Nat
    BY DEF JobType
  <1>3. UNCHANGED <<cancelled, heard>>
    BY DEF SendText, DispatchAudio, aux
  <1> QED BY <1>1, <1>2, <1>3

LEMMA CancelStep ==
  ASSUME JobType, CancelType, SoloNext
  PROVE  CancelType'
  <1> USE DEF CancelType, disk, aux, job, offUser, offJob, offSave
  <1>1. CASE SetMode \/ SendText
    <2>1. CASE SetMode
      BY <2>1 DEF SetMode
    <2>2. CASE SendText
      BY <2>2, TurnGrows
    <2> QED BY <1>1, <2>1, <2>2
  <1>2. CASE StartMic \/ StopMic \/ DispatchAudio
    <2>1. CASE StartMic \/ StopMic
      BY <2>1 DEF StartMic, StopMic
    <2>2. CASE DispatchAudio
      BY <2>2, TurnGrows
    <2> QED BY <1>2, <2>1, <2>2
  <1>3. CASE VoiceCancel
    BY <1>3 DEF VoiceCancel, Waiting, JobType, Answering
  <1>4. CASE JobBegins \/ SttEnds
    BY <1>4 DEF JobBegins, SttEnds, Goto
  <1>5. CASE AnswerEnds
    BY <1>5 DEF AnswerEnds, Goto
  <1>6. CASE JobEnds \/ Handover
    BY <1>6 DEF JobEnds, Handover, Goto
  <1>7. CASE DrainSees \/ DrainReady
    BY <1>7 DEF DrainSees, DrainReady
  <1>8. CASE Load
    BY <1>8 DEF Load, Appended
  <1>9. CASE Write
    BY <1>9 DEF Write, Appended
  <1>10. CASE Unlink
    BY <1>10 DEF Unlink
  <1>11. CASE Rename
    BY <1>11 DEF Rename, Appended
  <1>12. CASE PowerLoss
    BY <1>12 DEF PowerLoss
  <1> QED BY <1>1, <1>2, <1>3, <1>4, <1>5, <1>6, <1>7, <1>8, <1>9, <1>10, <1>11, <1>12
       DEF SoloNext, JobNext, UserNext

(* ---- the files and the copy -------------------------------------------------------*)
LEMMA ContentsOf ==
  /\ Contents(Gone) = {} /\ Contents(Partial) = {}
  /\ \A s \in SUBSET Entries : Contents(s) = s
  BY SoloAssumption DEF Contents

\* Only a save adds something, and only the entry of its turn.
LEMMA EverythingStep ==
  ASSUME DiskType, SoloNext
  PROVE  Grows
  <1> USE DEF Grows, disk, aux, job, offUser, offJob, offSave
  <1>1. CASE SetMode \/ SendText \/ StartMic \/ StopMic \/ DispatchAudio \/ VoiceCancel
    BY <1>1
       DEF SetMode, SendText, StartMic, StopMic, DispatchAudio, VoiceCancel, Everything
  <1>2. CASE JobBegins \/ SttEnds \/ AnswerEnds \/ JobEnds \/ Handover \/ DrainSees \/
            DrainReady
    BY <1>2
       DEF JobBegins, SttEnds, AnswerEnds, JobEnds, Handover, DrainSees, DrainReady, Everything
  <1>3. CASE Load
    <2>1. CASE Everything' = Everything
      BY <2>1
    <2>2. CASE buf' = file \cup {<<turn, role>>} /\ tmp' = Partial /\ file' = file /\ file # Gone
      <3>1. Contents(file) = file
        BY <2>2, ContentsOf DEF DiskType, Files
      <3> QED BY <1>3, <2>2, <3>1, ContentsOf DEF Load, Everything
    <2>3. Everything' = Everything
          \/ (buf' = file \cup {<<turn, role>>} /\ tmp' = Partial /\ file' = file /\ file # Gone)
      BY <1>3 DEF Load, Everything
    <2> QED BY <2>1, <2>2, <2>3
  <1>4. CASE Write
    <2>1. Contents(buf) = buf
      BY ContentsOf DEF DiskType
    <2> QED BY <1>4, <2>1, ContentsOf DEF Write, Everything
  <1>5. CASE Unlink
    BY <1>5, ContentsOf DEF Unlink, Everything
  <1>6. CASE Rename
    BY <1>6, ContentsOf DEF Rename, Everything
  <1>7. CASE PowerLoss
    <2>1. Contents(Contents(file)) = Contents(file)
      BY ContentsType, ContentsOf DEF DiskType
    <2> QED BY <1>7, <2>1 DEF PowerLoss, Everything
  <1> QED BY <1>1, <1>2, <1>3, <1>4, <1>5, <1>6, <1>7
       DEF SoloNext, JobNext, UserNext

LEMMA MovesStep ==
  ASSUME JobType, SoloNext
  PROVE  Moves
  <1> USE DEF Moves, disk, aux, job, offUser, offJob, offSave
  <1>1. CASE SendText \/ DispatchAudio
    BY <1>1
       DEF SendText, DispatchAudio, Accept, Everything
  <1>2. CASE SetMode \/ StartMic \/ StopMic
    BY <1>2 DEF SetMode, StartMic, StopMic
  <1>3. CASE VoiceCancel
    BY <1>3
       DEF VoiceCancel, Waiting, Everything, Answering, Busy
  <1>4. CASE JobBegins \/ SttEnds \/ AnswerEnds \/ JobEnds \/ Handover \/ DrainSees \/
            DrainReady
    BY <1>4
       DEF JobBegins, SttEnds, AnswerEnds, JobEnds, Handover, DrainSees, DrainReady, Goto
  <1>5. CASE Load \/ Write \/ Unlink \/ Rename \/ PowerLoss
    BY <1>5
       DEF Load, Write, Unlink, Rename, PowerLoss
  <1> QED BY <1>1, <1>2, <1>3, <1>4, <1>5
       DEF SoloNext, JobNext, UserNext

LEMMA KeptStep ==
  ASSUME JobType, DiskType, Kept, Fresh, Told, SoloNext
  PROVE  Kept'
  <1>1. Grows /\ Moves
    BY EverythingStep, MovesStep
  <1>2. turn \in Nat /\ turn' \in {turn, turn + 1}
    BY <1>1 DEF JobType, Moves
  <1>3. ASSUME NEW e \in Everything', e \in Everything
        PROVE  e[1] \in Nat /\ e[1] \notin heard' /\ e[1] <= turn'
    BY <1>1, <1>2, <1>3 DEF Kept, Moves, Fresh
  <1>4. ASSUME NEW e \in Everything', e \notin Everything
        PROVE  e[1] \in Nat /\ e[1] \notin heard' /\ e[1] <= turn'
    <2>1. e = <<turn, role>> /\ stage = "load"
      BY <1>1, <1>4 DEF Grows
    <2>2. e[1] = turn /\ turn \notin heard
      BY <2>1 DEF Told, Saving
    <2>3. turn' = turn /\ heard' = heard
      BY <1>1, <1>4, <2>1 DEF Moves, Answering
    <2> QED BY <1>2, <2>2, <2>3
  <1> QED BY <1>3, <1>4 DEF Kept

\* A turn is new when it is accepted, and nothing is saved before its answer.
LEMMA FreshStep ==
  ASSUME JobType, DiskType, Kept, Fresh, SoloNext
  PROVE  Fresh'
  <1> USE DEF Fresh, Answering, Saving, disk, aux, job, offUser, offJob, offSave
  <1>1. CASE SendText \/ DispatchAudio
    <2>1. turn \in Nat /\ Everything' = Everything
      BY <1>1 DEF JobType, SendText, DispatchAudio, Everything
    <2>2. (stage' = stage /\ turn' = turn) \/ turn' = turn + 1
      BY <1>1 DEF SendText, DispatchAudio, Accept
    <2>3. \A e \in Everything : e[1] \in Nat /\ e[1] <= turn
      BY DEF Kept
    <2> QED BY <2>1, <2>2, <2>3
  <1>2. CASE SetMode \/ StartMic \/ StopMic \/ VoiceCancel
    BY <1>2
       DEF SetMode, StartMic, StopMic, VoiceCancel, Everything
  <1>3. CASE JobBegins \/ SttEnds \/ AnswerEnds \/ JobEnds \/ Handover \/ DrainSees \/
            DrainReady
    BY <1>3
       DEF JobBegins, SttEnds, AnswerEnds, JobEnds, Handover, DrainSees, DrainReady, Goto,
           Everything, JobType
  <1>4. CASE Load \/ Write \/ Unlink \/ Rename \/ PowerLoss
    BY <1>4
       DEF Load, Write, Unlink, Rename, PowerLoss, Appended, JobType
  <1> QED BY <1>1, <1>2, <1>3, <1>4
       DEF SoloNext, JobNext, UserNext

LEMMA CancelSets ==
  ASSUME FlagType, VoiceCancel
  PROVE  s_cancel_requested' = TRUE \/ (s_cancel_requested' = s_cancel_requested /\ vmode # "solo")
  BY Zenon DEF VoiceCancel, FlagType

LEMMA AnswerLooks ==
  ASSUME FlagType, AnswerEnds
  PROVE  /\ turn' = turn /\ heard' = heard /\ stage \in Answering
         /\ stage' = "end" \/ (stage' = "load" /\ s_cancel_requested # TRUE)
  <1>1. turn' = turn /\ heard' = heard /\ stage \in Answering
    BY DEF AnswerEnds, Goto, aux, Answering
  <1>2. stage' = "end" \/ (stage' = "load" /\ s_cancel_requested # TRUE)
    BY Zenon DEF AnswerEnds, Goto, FlagType
  <1> QED BY <1>1, <1>2

\* The flag is looked at before anything is saved.
LEMMA ToldStep ==
  ASSUME FlagType, JobType, CancelType, Told, SoloNext
  PROVE  Told'
  <1> USE DEF Told, Answering, Saving, disk, aux, job, offUser, offJob, offSave
  <1>1. CASE SendText \/ DispatchAudio
    <2>1. turn \in Nat /\ turn + 1 \notin 1..turn
      BY DEF JobType
    <2>2. /\ UNCHANGED <<heard, s_cancel_requested>>
          /\ \/ stage' = stage /\ turn' = turn
             \/ stage' = "queued" /\ turn' = turn + 1
      BY <1>1 DEF SendText, DispatchAudio, Accept
    <2> QED BY <2>1, <2>2 DEF CancelType
  <1>2. CASE SetMode \/ StartMic \/ StopMic
    BY <1>2 DEF SetMode, StartMic, StopMic
  <1>3. CASE VoiceCancel
    <2>1. /\ UNCHANGED <<stage, turn>>
          /\ \/ heard' = heard
             \/ heard' = heard \cup {turn} /\ stage \in Answering /\ vmode = "solo"
      BY <1>3 DEF VoiceCancel
    <2>2. s_cancel_requested' = TRUE \/ (s_cancel_requested' = s_cancel_requested /\ vmode # "solo")
      BY <1>3, CancelSets
    <2> QED BY <2>1, <2>2
  <1>4. CASE JobBegins \/ SttEnds \/ JobEnds \/ Handover \/ DrainSees \/ DrainReady
    BY <1>4
       DEF JobBegins, SttEnds, JobEnds, Handover, DrainSees, DrainReady, Goto
  <1>5. CASE AnswerEnds
    <2>1. /\ UNCHANGED <<turn, heard>> /\ stage \in Answering
          /\ stage' = "end" \/ (stage' = "load" /\ s_cancel_requested # TRUE)
      BY <1>5, AnswerLooks
    <2> QED BY <2>1
  <1>6. CASE Load \/ Write \/ Unlink \/ Rename \/ PowerLoss
    BY <1>6
       DEF Load, Write, Unlink, Rename, PowerLoss, Appended
  <1> QED BY <1>1, <1>2, <1>3, <1>4, <1>5, <1>6
       DEF SoloNext, JobNext, UserNext

(* ---- what is saved ------------------------------------------------------------------*)
LEMMA AcceptsIdle ==
  ASSUME FlagType, Taken, NEW k, Accept(k)
  PROVE  stage = "none" /\ s_busy' = TRUE /\ stage' = "queued"
  <1>1. s_busy # TRUE /\ s_busy' = TRUE /\ stage' = "queued"
    BY Zenon DEF FlagType, Accept
  <1> QED BY <1>1 DEF Taken

LEMMA TakenStep ==
  ASSUME FlagType, Taken, SoloNext
  PROVE  Taken'
  <1> USE DEF Taken, disk, aux, job, offUser, offJob, offSave
  <1>1. CASE SendText \/ DispatchAudio
    <2>1. CASE \E k \in {"text", "audio"} : Accept(k)
      BY <2>1, AcceptsIdle
    <2>2. CASE UNCHANGED <<s_busy, stage>>
      BY <2>2
    <2> QED BY <1>1, <2>1, <2>2 DEF SendText, DispatchAudio
  <1>2. CASE SetMode \/ StartMic \/ StopMic \/ VoiceCancel
    BY <1>2
       DEF SetMode, StartMic, StopMic, VoiceCancel
  <1>3. CASE JobBegins \/ SttEnds \/ AnswerEnds \/ JobEnds \/ Handover \/ DrainSees \/
            DrainReady
    BY <1>3
       DEF JobBegins, SttEnds, AnswerEnds, JobEnds, Handover, DrainSees, DrainReady, Goto
  <1>4. CASE Load \/ Write \/ Unlink \/ Rename
    BY <1>4
       DEF Load, Write, Unlink, Rename, Appended
  <1>5. CASE PowerLoss
    BY <1>5 DEF PowerLoss
  <1> QED BY <1>1, <1>2, <1>3, <1>4, <1>5
       DEF SoloNext, JobNext, UserNext

\* The old file is removed when the new one is complete.
LEMMA StoredStep ==
  ASSUME FlagType, DiskType, Taken, Stored, SoloNext
  PROVE  Stored'
  <1> USE DEF Stored, disk, aux, job, offUser, offJob, offSave
  <1>1. CASE SendText \/ DispatchAudio
    <2>1. UNCHANGED <<file, tmp, buf, saved>>
      BY <1>1 DEF SendText, DispatchAudio
    <2>2. CASE \E k \in {"text", "audio"} : Accept(k)
      <3>1. stage = "none" /\ stage' = "queued"
        BY <2>2, AcceptsIdle
      <3> QED BY <2>1, <3>1
    <2>3. CASE UNCHANGED <<stage, turn, role>>
      BY <2>1, <2>3
    <2> QED BY <1>1, <2>2, <2>3 DEF SendText, DispatchAudio
  <1>2. CASE SetMode \/ StartMic \/ StopMic \/ VoiceCancel
    BY <1>2
       DEF SetMode, StartMic, StopMic, VoiceCancel
  <1>3. CASE JobBegins \/ SttEnds \/ AnswerEnds \/ JobEnds \/ Handover
    BY <1>3
       DEF JobBegins, SttEnds, AnswerEnds, JobEnds, Handover, Goto
  <1>4. CASE DrainSees \/ DrainReady
    BY <1>4 DEF DrainSees, DrainReady
  <1>5. CASE Load
    <2>1. Contents(file) = file \/ file = Gone
      BY ContentsOf DEF DiskType, Files
    <2>2. stage = "load" /\ UNCHANGED <<file, saved, turn>>
      BY <1>5 DEF Load
    <2>3. CASE /\ file # Gone /\ stage' = "write" /\ role' = role
              /\ buf' = file \cup {<<turn, role>>}
      BY <2>1, <2>2, <2>3
    <2>4. CASE Appended
      BY <2>2, <2>4 DEF Appended
    <2> QED BY <1>5, <2>3, <2>4 DEF Load
  <1>6. CASE Write
    <2>1. stage = "write" /\ UNCHANGED <<file, buf, saved, turn>>
      BY <1>6 DEF Write
    <2>2. CASE tmp' = buf /\ stage' = "unlink" /\ role' = role
      BY <2>1, <2>2
    <2>3. CASE Appended
      BY <2>1, <2>3 DEF Appended
    <2> QED BY <1>6, <2>2, <2>3 DEF Write
  <1>7. CASE Unlink
    BY <1>7 DEF Unlink
  <1>8. CASE Rename
    <2>1. /\ stage = "rename" /\ tmp = buf /\ Contents(buf) = buf
          /\ saved \cup {<<turn, role>>} \subseteq buf
      BY <1>8, ContentsOf DEF Rename, DiskType
    <2>2. stage' \in {"load", "handover", "end"}
      BY <1>8 DEF Rename, Appended
    <2>3. saved' \subseteq Contents(file')
      BY <1>8, <2>1 DEF Rename
    <2> QED BY <2>2, <2>3
  <1>9. CASE PowerLoss
    <2>1. Contents(Contents(file)) = Contents(file)
      BY ContentsType, ContentsOf DEF DiskType
    <2> QED BY <1>9, <2>1 DEF PowerLoss
  <1> QED BY <1>1, <1>2, <1>3, <1>4, <1>5, <1>6, <1>7, <1>8, <1>9
       DEF SoloNext, JobNext, UserNext

(* ---- the specification ----------------------------------------------------------------*)
LEMMA InitInv == SoloInit => SoloInv
  <1> SUFFICES ASSUME SoloInit PROVE SoloInv
    OBVIOUS
  <1>1. FlagType
    BY Zenon DEF SoloInit, FlagType
  <1>2. JobType
    BY SoloAssumption DEF SoloInit, JobType, Answering, Saving
  <1>3. DiskType /\ CancelType /\ Told /\ Taken
    BY DEF SoloInit, DiskType, Files, CancelType, Told, Taken, Answering, Saving
  <1>4. Everything = {}
    BY ContentsOf DEF SoloInit, Everything
  <1>5. Kept /\ Fresh
    BY <1>4 DEF Kept, Fresh
  <1>6. Stored
    BY DEF SoloInit, Stored
  <1> QED BY <1>1, <1>2, <1>3, <1>5, <1>6 DEF SoloInv

LEMMA StepInv == SoloInv /\ SoloNext => SoloInv'
  <1> SUFFICES ASSUME SoloInv, SoloNext PROVE SoloInv'
    OBVIOUS
  <1>1. FlagType' /\ JobType' /\ DiskType' /\ CancelType'
    BY FlagStep, JobStep, DiskStep, CancelStep DEF SoloInv
  <1>2. Kept' /\ Fresh' /\ Told'
    BY KeptStep, FreshStep, ToldStep DEF SoloInv
  <1>3. Taken' /\ Stored'
    BY TakenStep, StoredStep DEF SoloInv
  <1> QED BY <1>1, <1>2, <1>3 DEF SoloInv

LEMMA StutterInv == SoloInv /\ UNCHANGED soloVars => SoloInv'
  <1> SUFFICES ASSUME SoloInv, UNCHANGED soloVars PROVE SoloInv'
    OBVIOUS
  <1> USE DEF soloVars, disk, aux, job
  <1>1. FlagType'
    BY Zenon DEF SoloInv, FlagType
  <1>2. (JobType /\ DiskType /\ CancelType)'
    BY DEF SoloInv, JobType, DiskType, CancelType
  <1>3. (Kept /\ Fresh /\ Told /\ Taken /\ Stored)'
    BY DEF SoloInv, Kept, Fresh, Told, Taken, Stored, Everything
  <1> QED BY <1>1, <1>2, <1>3 DEF SoloInv

\* Every reachable state has SoloInv, wherever power is lost and a cancel comes.
LEMMA Invariant == SoloSpec => []SoloInv
  <1>1. SoloInv /\ [SoloNext]_soloVars => SoloInv'
    BY StepInv, StutterInv
  <1> QED BY InitInv, <1>1, PTL DEF SoloSpec

\* Types: voice_solo.c and solo_session_store.c keep their variables in range, and no
\* crash leaves half a session file.
THEOREM SoloTypes == SoloSpec => []SoloTypeOK
  <1>1. SoloInv => SoloTypeOK
    <2> SUFFICES ASSUME SoloInv PROVE SoloTypeOK
      OBVIOUS
    <2>1. FlagType /\ JobType /\ DiskType /\ CancelType
      BY DEF SoloInv
    <2>2. file # Partial
      BY <2>1, SoloAssumption DEF DiskType, Files
    <2>3. cancelled \subseteq 1..MaxTurns
      BY <2>1, SoloAssumption DEF CancelType, JobType
    <2>4. tmp \in {Gone, Partial} \cup SUBSET Entries
      BY <2>1 DEF DiskType, Files
    <2>5. stage \in {"none", "queued", "ask", "stt", "say", "load", "write", "unlink", "rename",
                     "end", "handover"}
      BY <2>1 DEF JobType, Answering, Saving
    <2> QED BY <2>1, <2>2, <2>3, <2>4, <2>5, Zenon
         DEF SoloTypeOK, FlagType, JobType, DiskType, CancelType, Files
  <1> QED BY Invariant, <1>1, PTL

\* A cancel that reached the running job keeps its turn out of the session, and out of
\* the .tmp a later reader might promote (solo_send_text_job, solo_send_audio_job).
THEOREM CancelHeard == SoloSpec => []HeardNotKept
  <1>1. SoloInv => HeardNotKept
    BY DEF SoloInv, Kept, Everything, HeardNotKept
  <1> QED BY Invariant, <1>1, PTL

\* At every moment one of the two files has the history (save_session).
THEOREM HistoryKept == SoloSpec => []RunKeepsHistory
  <1>1. SoloInv => RunKeepsHistory
    <2> SUFFICES ASSUME SoloInv PROVE RunKeepsHistory
      OBVIOUS
    <2>1. CASE stage # "rename"
      BY <2>1 DEF SoloInv, Stored, RunKeepsHistory
    <2>2. CASE stage = "rename"
      BY <2>2, ContentsOf DEF SoloInv, Stored, DiskType, RunKeepsHistory
    <2> QED BY <2>1, <2>2
  <1> QED BY Invariant, <1>1, PTL

(* ---- the session as one --------------------------------------------------------*)
\* Where the entry that is being saved is, and that nothing else of its turn is there
\* but its question.
Placed ==
  /\ stage \in {"write", "unlink"} => file # Gone /\ buf = Contents(file) \cup {<<turn, role>>}
  /\ stage = "rename" => file = Gone
  /\ file = Gone /\ stage # "rename" => tmp = Gone
InOrder ==
  stage \in Saving =>
    \A e \in Session : e[1] = turn =>
      \/ role = "assistant" /\ e[2] = "user"
      \/ stage = "rename" /\ e[2] = role
SessionInv == Placed /\ InOrder

\* What a step may do to the session, in the order of SessionLog.
Rests == Session' = Session /\ (file' = Gone <=> file = Gone)
Adds ==
  /\ file # Gone /\ file' = Gone
  /\ <<turn, role>> \in Entries
  /\ \A f \in Session : History!Before(f, <<turn, role>>)
  /\ Session' = Session \cup {<<turn, role>>}
Settles == file = Gone /\ file' # Gone /\ Session' = Session
Loses == file = Gone /\ Session' = {}
SessionStep == Rests \/ Adds \/ Settles \/ Loses

LEMMA SessionType ==
  ASSUME DiskType
  PROVE  Session \subseteq Entries /\ Session \subseteq Everything
  <1>1. CASE file = Gone
    BY <1>1, ContentsType DEF Session, DiskType, Everything
  <1>2. CASE file # Gone
    BY <1>2, ContentsOf DEF Session, DiskType, Files, Everything
  <1> QED BY <1>1, <1>2

\* Most steps are not about the files, and lead to none of the stages of a save.
LEMMA OtherFiles ==
  ASSUME SoloNext
  PROVE  \/ UNCHANGED <<file, tmp, buf>> \/ Load \/ Write \/ Unlink \/ Rename \/ PowerLoss
  BY DEF SoloNext, JobNext, UserNext, SetMode, SendText, StartMic, StopMic, DispatchAudio,
         VoiceCancel, JobBegins, SttEnds, AnswerEnds, JobEnds, Handover, DrainSees, DrainReady,
         disk, offUser

LEMMA OtherStages ==
  ASSUME FlagType, Taken, SoloNext, ~Load, ~Write, ~Unlink, ~Rename, ~PowerLoss
  PROVE  \/ UNCHANGED <<stage, turn, role>>
         \/ stage \notin Saving /\ stage' \notin Saving
         \/ stage \in Answering /\ stage' = "load" /\ turn' = turn
  <1> USE DEF job, Answering, Saving
  <1>1. CASE SendText \/ DispatchAudio
    <2>1. CASE \E k \in {"text", "audio"} : Accept(k)
      BY <2>1, AcceptsIdle
    <2>2. CASE ~\E k \in {"text", "audio"} : Accept(k)
      BY <1>1, <2>2 DEF SendText, DispatchAudio
    <2> QED BY <2>1, <2>2
  <1>2. CASE SetMode \/ StartMic \/ StopMic \/ VoiceCancel \/ DrainSees \/ DrainReady
    BY <1>2 DEF SetMode, StartMic, StopMic, VoiceCancel, DrainSees, DrainReady
  <1>3. CASE JobBegins \/ SttEnds \/ AnswerEnds \/ JobEnds \/ Handover
    BY <1>3 DEF JobBegins, SttEnds, AnswerEnds, JobEnds, Handover, Goto
  <1> QED BY <1>1, <1>2, <1>3 DEF SoloNext, JobNext, UserNext

LEMMA PlacedStep ==
  ASSUME SoloInv, Placed, SoloNext
  PROVE  Placed'
  <1> USE DEF Placed, offSave
  <1>1. CASE Load
    <2>1. file' = file /\ turn' = turn /\ stage = "load"
      BY <1>1 DEF Load
    <2>2. CASE Appended /\ UNCHANGED <<tmp, buf>>
      BY <2>1, <2>2 DEF Appended
    <2>3. CASE /\ file # Gone /\ stage' = "write" /\ UNCHANGED role
               /\ buf' = file \cup {<<turn, role>>} /\ tmp' = Partial
      BY <2>1, <2>3, ContentsOf DEF SoloInv, DiskType, Files
    <2> QED BY <1>1, <2>2, <2>3 DEF Load
  <1>2. CASE Write
    BY <1>2, SoloAssumption DEF Write, Appended
  <1>3. CASE Unlink
    BY <1>3 DEF Unlink
  <1>4. CASE Rename
    BY <1>4 DEF Rename, Appended
  <1>5. CASE PowerLoss
    <2>1. file' # Gone /\ stage' = "none"
      BY <1>5, SoloAssumption, ContentsType DEF PowerLoss, SoloInv, DiskType
    <2> QED BY <2>1
  <1>6. CASE UNCHANGED <<file, tmp, buf>> /\ ~Load /\ ~Write /\ ~Unlink /\ ~Rename /\ ~PowerLoss
    BY <1>6, OtherStages DEF SoloInv, Saving, Answering
  <1> QED BY <1>1, <1>2, <1>3, <1>4, <1>5, <1>6, OtherFiles

\* A save moves the session in one step, from file to temporary file.
LEMMA SaveSteps ==
  ASSUME SoloInv, SessionInv, Load \/ Write \/ Unlink \/ Rename
  PROVE  SessionStep
  <1> USE DEF SessionInv, Placed, Session, SessionStep
  <1>1. CASE Load
    BY <1>1 DEF Load, Rests
  <1>2. CASE Write
    BY <1>2 DEF Write, Rests
  <1>3. CASE Unlink
    <2>1. stage = "unlink" /\ file' = Gone /\ tmp' = tmp /\ tmp = buf /\ file # Gone
      BY <1>3 DEF Unlink, SoloInv, Stored
    <2>2. Session = file /\ Session' = Session \cup {<<turn, role>>}
      BY <2>1, ContentsOf DEF SoloInv, DiskType, Files
    <2>3. <<turn, role>> \in Entries
      BY <2>1, EntryOfTurn DEF SoloInv
    <2>4. ASSUME NEW f \in Session
          PROVE  History!Before(f, <<turn, role>>)
      <3>1. f \in Entries /\ f[1] <= turn /\ turn \in Nat
        BY SessionType DEF SoloInv, Kept, JobType
      <3>2. f[1] = turn => role = "assistant" /\ f[2] = "user"
        BY <2>1 DEF InOrder, Saving
      <3>3. f[1] \in Nat
        BY <3>1, SoloAssumption DEF Entries
      <3> QED BY <3>1, <3>2, <3>3 DEF History!Before
    <2> QED BY <2>1, <2>2, <2>3, <2>4 DEF Adds
  <1>4. CASE Rename
    <2>1. stage = "rename" /\ file = Gone /\ tmp = buf /\ tmp' = Gone
      BY <1>4 DEF Rename, SoloInv, Stored
    <2>2. tmp \in SUBSET Entries /\ tmp # Gone
      BY <2>1, SoloAssumption DEF SoloInv, DiskType
    <2>3. CASE file' = tmp
      BY <2>1, <2>2, <2>3, ContentsOf DEF Settles
    <2>4. CASE file' = file
      BY <2>1, <2>4, ContentsOf DEF Loses
    <2> QED BY <1>4, <2>3, <2>4 DEF Rename
  <1> QED BY <1>1, <1>2, <1>3, <1>4

LEMMA NextSessions ==
  ASSUME SoloInv, SessionInv, SoloNext
  PROVE  SessionStep
  <1>1. CASE Load \/ Write \/ Unlink \/ Rename
    BY <1>1, SaveSteps
  <1>2. CASE PowerLoss
    <2>1. file' = Contents(file) /\ file' # Gone
      BY <1>2, SoloAssumption, ContentsType DEF PowerLoss, SoloInv, DiskType
    <2>2. CASE file = Gone
      BY <2>1, <2>2, ContentsOf DEF SessionStep, Loses, Session
    <2>3. CASE file # Gone
      BY <2>1, <2>3, ContentsOf DEF SessionStep, Rests, Session, SoloInv, DiskType, Files
    <2> QED BY <2>2, <2>3
  <1>3. CASE UNCHANGED <<file, tmp, buf>>
    BY <1>3 DEF SessionStep, Rests, Session
  <1> QED BY <1>1, <1>2, <1>3, OtherFiles

LEMMA InOrderStep ==
  ASSUME SoloInv, SessionInv, SoloNext
  PROVE  InOrder'
  <1> USE DEF InOrder, Saving, offSave
  <1>1. CASE Load
    <2>1. Session' = Session /\ turn' = turn /\ stage = "load"
      BY <1>1 DEF Load, Session, SessionInv, Placed
    <2>2. role' = role \/ (role = "user" /\ role' = "assistant" /\ stage' = "load")
      BY <1>1 DEF Load, Appended
    <2>3. role = "user" => \A e \in Session : e[1] # turn
      BY <2>1 DEF SessionInv
    <2>4. stage' # "rename"
      BY <1>1 DEF Load, Appended
    <2> QED BY <2>1, <2>2, <2>3, <2>4 DEF SessionInv
  <1>2. CASE Write
    <2>1. Session' = Session /\ turn' = turn /\ stage = "write"
      BY <1>2 DEF Write, Session, SessionInv, Placed
    <2>2. role' = role \/ (role = "user" /\ role' = "assistant" /\ stage' = "load")
      BY <1>2 DEF Write, Appended
    <2>3. role = "user" => \A e \in Session : e[1] # turn
      BY <2>1 DEF SessionInv
    <2> QED BY <2>1, <2>2, <2>3 DEF SessionInv
  <1>3. CASE Unlink
    <2>1. stage = "unlink" /\ stage' = "rename" /\ turn' = turn /\ role' = role
      BY <1>3 DEF Unlink
    <2>2. Session' = Session \cup {<<turn, role>>}
      <3>1. file' = Gone /\ tmp' = tmp /\ tmp = buf /\ file # Gone
        BY <1>3, <2>1 DEF Unlink, SoloInv, Stored, SessionInv, Placed
      <3> QED BY <2>1, <3>1, ContentsOf DEF Session, SessionInv, Placed, SoloInv, DiskType, Files
    <2> QED BY <2>1, <2>2 DEF SessionInv
  <1>4. CASE Rename
    <2>1. stage = "rename" /\ turn' = turn /\ Session' \subseteq Session
      <3>1. SessionStep /\ stage = "rename" /\ turn' = turn /\ file = Gone
        BY <1>4, SaveSteps DEF Rename, SessionInv, Placed
      <3> QED BY <3>1 DEF SessionStep, Rests, Adds, Settles, Loses
    <2>2. \/ role = "user" /\ role' = "assistant" /\ stage' = "load"
          \/ role # "user" /\ stage' \in {"handover", "end"}
      BY <1>4 DEF Rename, Appended
    <2> QED BY <2>1, <2>2 DEF SessionInv
  <1>5. CASE PowerLoss
    BY <1>5 DEF PowerLoss
  <1>6. CASE UNCHANGED <<file, tmp, buf>> /\ ~Load /\ ~Write /\ ~Unlink /\ ~Rename /\ ~PowerLoss
    <2>1. Session' = Session
      BY <1>6 DEF Session
    <2>2. CASE UNCHANGED <<stage, turn, role>> \/ stage' \notin Saving
      BY <2>1, <2>2 DEF SessionInv
    <2>3. CASE stage \in Answering /\ stage' = "load" /\ turn' = turn
      BY <2>1, <2>3, SessionType DEF SoloInv, Fresh
    <2> QED BY <1>6, <2>2, <2>3, OtherStages DEF SoloInv
  <1> QED BY <1>1, <1>2, <1>3, <1>4, <1>5, <1>6, OtherFiles

LEMMA SessionInvStep ==
  SoloInv /\ SessionInv /\ [SoloNext]_soloVars => SessionInv' /\ SessionStep
  <1>1. CASE UNCHANGED soloVars
    BY <1>1 DEF soloVars, disk, job, SessionInv, Placed, InOrder, Session, SessionStep, Rests
  <1>2. CASE SoloNext
    BY <1>2, PlacedStep, InOrderStep, NextSessions DEF SessionInv
  <1> QED BY <1>1, <1>2

\* solo_session_append and save_session, with their temporary file, are one append to
\* the session or its loss as a whole.
THEOREM SessionImplemented == SoloSpec => ImplementsSession
  <1>1. SoloInit => SessionInv
    BY SoloAssumption, ContentsOf DEF SoloInit, SessionInv, Placed, InOrder, Saving
  <1>2. SoloInit => History!Init
    <2> SUFFICES ASSUME SoloInit PROVE Session = {} /\ file # Gone
      BY DEF History!Init
    <2>1. {} # Gone
      BY SoloAssumption
    <2> QED BY <2>1 DEF SoloInit, Session
  <1>3. SessionStep => [History!Next]_<<Session, file = Gone>>
    <2>1. Rests => UNCHANGED <<Session, file = Gone>>
      BY DEF Rests
    <2>2. Adds => \E e \in History!Entries : History!Append(e)
      <3> SUFFICES ASSUME Adds PROVE History!Append(<<turn, role>>) /\ <<turn, role>> \in History!Entries
        OBVIOUS
      <3>1. <<turn, role>> \in History!Entries
        BY DEF Adds, Entries, History!Entries
      <3>2. History!Append(<<turn, role>>)
        BY DEF Adds, History!Append
      <3> QED BY <3>1, <3>2
    <2>3. Settles => History!Settle
      BY DEF Settles, History!Settle
    <2>4. Loses => History!Lose
      BY DEF Loses, History!Lose
    <2> QED BY <2>1, <2>2, <2>3, <2>4 DEF SessionStep, History!Next
  <1>4. SoloInv /\ SessionInv /\ [SoloNext]_soloVars => SessionInv'
    BY SessionInvStep
  <1>5. SoloInv /\ SessionInv /\ [SoloNext]_soloVars => [History!Next]_<<Session, file = Gone>>
    BY SessionInvStep, <1>3
  <1> QED BY Invariant, <1>1, <1>2, <1>4, <1>5, PTL
       DEF SoloSpec, ImplementsSession, History!Spec
=============================================================================

----------------------------- MODULE OtaProofs -----------------------------
(***************************************************************************)
(* Ota for any set of images, any number of tasks that schedule and any    *)
(* bound on schedules.  None of the invariants is inductive alone: what    *)
(* they need is which facts each phase of a boot, and each step of a  *)
(* schedule, may rely on wherever power is lost.                           *)
(***************************************************************************)
EXTENDS Ota, TLAPS

Maybe == Images \cup {None}
TaskShape == [pc : {"idle", "url", "sha", "flag", "restart"}, url : Maybe, sha : Maybe]

\* The phases after the flag is erased, those between that and the update, and
\* those that have read the keys.
Erased == {"eraseUrl", "eraseSha", "apply", "download", "verify", "finish", "record", "restart"}
Pending == {"eraseUrl", "eraseSha", "apply"}
Read == Erased \cup {"eraseFlag"}

FlagType == flag \in BOOLEAN /\ s_ota_rolled_back \in BOOLEAN
DataType ==
  /\ {url, sha, got_url, got_sha, due} \subseteq Images \cup {None}
  /\ writer \in Tasks \cup {None}
  /\ slot \in [0..1 -> Images \cup {"empty", "partial"}] /\ boot \in 0..1 /\ running \in 0..1
  /\ phase \in Phases /\ task \in [Tasks -> TaskShape]
  /\ schedules \in 0..MaxSchedules

\* The tasks that schedule start when the boot has read the keys.
TasksWait == phase \notin {"mark", "up"} => \A t \in Tasks : task[t].pc = "idle"

\* A task has written the URL before it goes on to the hash and the flag.
UrlFirst ==
  /\ flag = TRUE => url # None
  /\ \A t \in Tasks :
       /\ task[t].pc # "idle" => task[t].url # None
       /\ task[t].pc \in {"sha", "flag"} => url # None

\* The flag is up while it is about to be erased, and down from then on.
FlagOnce ==
  /\ phase = "eraseFlag" => flag = TRUE
  /\ phase \in Erased => flag = FALSE

\* What is pending was scheduled and has not begun yet.
Counted ==
  /\ applies \in Nat /\ applies <= schedules
  /\ flag = TRUE \/ phase \in Pending => applies + 1 <= schedules

\* The partition that runs is the one to start, until an update is complete.
Partitions ==
  /\ slot[boot] \in Images
  /\ phase \notin {"record", "restart"} => boot = running
  /\ phase \in {"verify", "finish", "record"} => slot[1 - running] \in Images

\* What is about to be installed, or just was, has the hash that the boot has read.
Verified ==
  /\ phase = "finish" /\ got_sha # None => slot[1 - running] = got_sha
  /\ phase \in {"record", "restart"} /\ got_sha # None => slot[boot] = got_sha

\* The version of the attempt is that of a whole image.
Recorded == ota_try \in {Desc(i) : i \in Images} \cup {None}

\* The hash of one undisturbed schedule is in NVS with its flag, and then with
\* the update.
Hashed ==
  /\ flag = TRUE /\ due # None => sha = due
  /\ phase \in Read /\ due # None => got_sha = due
  /\ \A t \in Tasks : writer = t /\ task[t].pc = "flag" => sha = task[t].sha

OtaInv ==
  FlagType /\ DataType /\ TasksWait /\ UrlFirst /\ FlagOnce /\ Counted /\ Partitions /\ Verified
  /\ Recorded /\ Hashed

LEMMA InitInv == OtaInit => OtaInv
  <1> SUFFICES ASSUME OtaInit PROVE OtaInv
    OBVIOUS
  <1>1. FlagType
    BY DEF OtaInit, FlagType
  <1>2. DataType
    BY OtaAssumption DEF OtaInit, DataType, Phases, TaskShape, Maybe, Idle
  <1>3. TasksWait /\ UrlFirst /\ Partitions /\ Verified /\ Recorded
    BY OtaAssumption DEF OtaInit, TasksWait, UrlFirst, Partitions, Verified, Recorded, Idle
  <1>4. FlagOnce /\ Counted /\ Hashed
    BY DEF OtaInit, FlagOnce, Erased, Pending, Read, Counted, Hashed, Idle
  <1> QED BY <1>1, <1>2, <1>3, <1>4 DEF OtaInv

(* ---- types ---------------------------------------------------------------*)
LEMMA FlagStep ==
  ASSUME FlagType, OtaNext
  PROVE  FlagType'
  <1> USE DEF FlagType, offSchedule, offBoot, keys, flash, got, At, Goto, Step
  <1>1. ASSUME NEW t \in Tasks, NEW u \in Images, NEW h \in {u, None},
               Ask(t, u, h) \/ CheckAgain(t, u, h)
        PROVE  FlagType'
    BY <1>1, Zenon DEF Ask, CheckAgain
  <1>2. ASSUME NEW t \in Tasks, SetUrl(t) \/ SetSha(t) \/ SetFlag(t) \/ ScheduleFails(t)
        PROVE  FlagType'
    BY <1>2, Zenon DEF SetUrl, SetSha, SetFlag, ScheduleFails
  <1>3. CASE Reset
    BY <1>3, Zenon DEF Reset
  <1>4. CASE NoWifi \/ ReadPending \/ MarkValid
    BY <1>4, Zenon DEF NoWifi, ReadPending, MarkValid
  <1>5. CASE EraseFlag \/ EraseUrl \/ EraseSha
    BY <1>5, Zenon DEF EraseFlag, EraseUrl, EraseSha
  <1>6. ASSUME NEW i \in Images, Downloaded(i)
        PROVE  FlagType'
    BY <1>6, Zenon DEF Downloaded
  <1>7. CASE Begin \/ Verify \/ ApplyFails \/ FinishUpdate \/ RecordAttempt
    BY <1>7, Zenon DEF Begin, Verify, ApplyFails, FinishUpdate, RecordAttempt
  <1> QED BY <1>1, <1>2, <1>3, <1>4, <1>5, <1>6, <1>7, Zenon
       DEF OtaNext, BootNext, TaskNext, Restart, ScheduleRestarts, PowerLoss

LEMMA DataStep ==
  ASSUME DataType, OtaNext
  PROVE  DataType'
  <1> USE DEF DataType, TaskShape, Maybe, offSchedule, offBoot, keys, flash, got, At, Goto, Step
  <1>1. ASSUME NEW t \in Tasks, NEW u \in Images, NEW h \in {u, None},
               Ask(t, u, h) \/ CheckAgain(t, u, h)
        PROVE  DataType'
    BY <1>1 DEF Ask, CheckAgain
  <1>2. ASSUME NEW t \in Tasks, SetUrl(t)
        PROVE  DataType'
    BY <1>2 DEF SetUrl
  <1>3. ASSUME NEW t \in Tasks, SetSha(t)
        PROVE  DataType'
    BY <1>3 DEF SetSha
  <1>4. ASSUME NEW t \in Tasks, SetFlag(t)
        PROVE  DataType'
    BY <1>4, OtaAssumption DEF SetFlag
  <1>5. ASSUME NEW t \in Tasks, ScheduleFails(t)
        PROVE  DataType'
    BY <1>5 DEF ScheduleFails, Idle
  <1>6. CASE Reset
    BY <1>6 DEF Reset, Phases, Idle
  <1>7. CASE NoWifi \/ MarkValid
    BY <1>7 DEF NoWifi, MarkValid, Phases
  <1>8. CASE ReadPending
    BY <1>8 DEF ReadPending, Phases
  <1>9. CASE EraseFlag \/ EraseUrl \/ EraseSha
    BY <1>9 DEF EraseFlag, EraseUrl, EraseSha, Phases
  <1>10. ASSUME NEW i \in Images, Downloaded(i)
        PROVE  DataType'
    BY <1>10 DEF Downloaded, Phases, UpdatePartition
  <1>11. CASE Begin
    BY <1>11 DEF Begin, UpdatePartition, Phases
  <1>12. CASE Verify \/ ApplyFails
    BY <1>12 DEF Verify, ApplyFails, Phases
  <1>13. CASE FinishUpdate \/ RecordAttempt
    BY <1>13 DEF FinishUpdate, RecordAttempt, UpdatePartition, Phases
  <1> QED BY <1>1, <1>2, <1>3, <1>4, <1>5, <1>6, <1>7, <1>8, <1>9, <1>10, <1>11, <1>12, <1>13
       DEF OtaNext, BootNext, TaskNext, Restart, ScheduleRestarts, PowerLoss

(* ---- tasks, keys and partitions ------------------------------------------*)
LEMMA TasksWaitStep ==
  ASSUME DataType, TasksWait, OtaNext
  PROVE  TasksWait'
  <1> USE DEF TasksWait, DataType, offSchedule, offBoot, keys, flash, got, At, Goto, Step
  <1>1. ASSUME NEW t \in Tasks, NEW u \in Images, NEW h \in {u, None},
               Ask(t, u, h) \/ CheckAgain(t, u, h)
        PROVE  TasksWait'
    BY <1>1 DEF Ask, CheckAgain
  <1>2. ASSUME NEW t \in Tasks, SetUrl(t) \/ SetSha(t) \/ SetFlag(t) \/ ScheduleFails(t)
        PROVE  TasksWait'
    BY <1>2 DEF SetUrl, SetSha, SetFlag, ScheduleFails
  <1>3. CASE Reset
    BY <1>3 DEF Reset, Idle
  <1>4. CASE NoWifi \/ ReadPending \/ MarkValid
    BY <1>4 DEF NoWifi, ReadPending, MarkValid
  <1>5. CASE EraseFlag \/ EraseUrl \/ EraseSha
    BY <1>5 DEF EraseFlag, EraseUrl, EraseSha
  <1>6. ASSUME NEW i \in Images, Downloaded(i)
        PROVE  TasksWait'
    BY <1>6 DEF Downloaded
  <1>7. CASE Begin \/ Verify \/ ApplyFails \/ FinishUpdate \/ RecordAttempt
    BY <1>7 DEF Begin, Verify, ApplyFails, FinishUpdate, RecordAttempt
  <1> QED BY <1>1, <1>2, <1>3, <1>4, <1>5, <1>6, <1>7
       DEF OtaNext, BootNext, TaskNext, Restart, ScheduleRestarts, PowerLoss

\* The URL is erased when the flag is down and no task is at work.
LEMMA UrlFirstStep ==
  ASSUME DataType, TasksWait, FlagOnce, UrlFirst, OtaNext
  PROVE  UrlFirst'
  <1> USE DEF UrlFirst, TasksWait, DataType, offSchedule, offBoot, keys, flash, got, At, Goto,
      Step
  <1>1. ASSUME NEW t \in Tasks, NEW u \in Images, NEW h \in {u, None},
               Ask(t, u, h) \/ CheckAgain(t, u, h)
        PROVE  UrlFirst'
    <2>1. u # None /\ UNCHANGED <<flag, url>>
      BY <1>1, OtaAssumption, Zenon DEF Ask, CheckAgain
    <2>2. CASE Ask(t, u, h)
      BY <2>1, <2>2 DEF Ask
    <2>3. CASE CheckAgain(t, u, h)
      <3>1. task' = [task EXCEPT ![t].url = u, ![t].sha = h]
        BY <2>3 DEF CheckAgain
      <3>2. task'[t].pc = task[t].pc /\ task'[t].url = u
        BY <3>1
      <3>3. \A o \in Tasks : o # t => task'[o] = task[o]
        BY <3>1
      <3> QED BY <2>1, <3>2, <3>3
    <2> QED BY <1>1, <2>2, <2>3
  <1>2. ASSUME NEW t \in Tasks, SetUrl(t)
        PROVE  UrlFirst'
    BY <1>2 DEF SetUrl
  <1>3. ASSUME NEW t \in Tasks, SetSha(t)
        PROVE  UrlFirst'
    BY <1>3 DEF SetSha
  <1>4. ASSUME NEW t \in Tasks, SetFlag(t)
        PROVE  UrlFirst'
    BY <1>4 DEF SetFlag
  <1>5. ASSUME NEW t \in Tasks, ScheduleFails(t)
        PROVE  UrlFirst'
    BY <1>5 DEF ScheduleFails, Idle
  <1>6. CASE Reset
    BY <1>6 DEF Reset, Idle
  <1>7. CASE NoWifi \/ ReadPending \/ MarkValid
    BY <1>7 DEF NoWifi, ReadPending, MarkValid
  <1>8. CASE EraseFlag \/ EraseUrl \/ EraseSha
    BY <1>8 DEF EraseFlag, EraseUrl, EraseSha, FlagOnce, Erased
  <1>9. ASSUME NEW i \in Images, Downloaded(i)
        PROVE  UrlFirst'
    BY <1>9 DEF Downloaded
  <1>10. CASE Begin \/ Verify \/ ApplyFails \/ FinishUpdate \/ RecordAttempt
    BY <1>10 DEF Begin, Verify, ApplyFails, FinishUpdate, RecordAttempt
  <1> QED BY <1>1, <1>2, <1>3, <1>4, <1>5, <1>6, <1>7, <1>8, <1>9, <1>10
       DEF OtaNext, BootNext, TaskNext, Restart, ScheduleRestarts, PowerLoss

LEMMA FlagOnceStep ==
  ASSUME FlagType, DataType, FlagOnce, OtaNext
  PROVE  FlagOnce'
  <1> USE DEF FlagOnce, Erased, offSchedule, offBoot, keys, flash, got, At, Goto, Step
  <1>1. ASSUME NEW t \in Tasks, NEW u \in Images, NEW h \in {u, None},
               Ask(t, u, h) \/ CheckAgain(t, u, h)
        PROVE  FlagOnce'
    BY <1>1 DEF Ask, CheckAgain
  <1>2. ASSUME NEW t \in Tasks, SetUrl(t) \/ SetSha(t) \/ SetFlag(t) \/ ScheduleFails(t)
        PROVE  FlagOnce'
    BY <1>2 DEF SetUrl, SetSha, SetFlag, ScheduleFails
  <1>3. CASE Reset
    BY <1>3 DEF Reset, Idle
  <1>4. CASE NoWifi \/ ReadPending \/ MarkValid
    BY <1>4 DEF NoWifi, ReadPending, MarkValid
  <1>5. CASE EraseFlag \/ EraseUrl \/ EraseSha
    BY <1>5 DEF EraseFlag, EraseUrl, EraseSha
  <1>6. ASSUME NEW i \in Images, Downloaded(i)
        PROVE  FlagOnce'
    BY <1>6 DEF Downloaded
  <1>7. CASE Begin \/ Verify \/ ApplyFails \/ FinishUpdate \/ RecordAttempt
    BY <1>7 DEF Begin, Verify, ApplyFails, FinishUpdate, RecordAttempt
  <1> QED BY <1>1, <1>2, <1>3, <1>4, <1>5, <1>6, <1>7
       DEF OtaNext, BootNext, TaskNext, Restart, ScheduleRestarts, PowerLoss

\* A schedule adds one to what may be applied, and an update takes it.
LEMMA CountedStep ==
  ASSUME DataType, FlagOnce, Counted, OtaNext
  PROVE  Counted'
  <1> USE DEF Counted, Pending, FlagOnce, Erased, DataType, offSchedule, offBoot, keys, flash,
      got, At, Goto, Step
  <1>1. ASSUME NEW t \in Tasks, NEW u \in Images, NEW h \in {u, None},
               Ask(t, u, h) \/ CheckAgain(t, u, h)
        PROVE  Counted'
    BY <1>1 DEF Ask, CheckAgain
  <1>2. ASSUME NEW t \in Tasks, SetUrl(t) \/ SetSha(t) \/ SetFlag(t) \/ ScheduleFails(t)
        PROVE  Counted'
    BY <1>2 DEF SetUrl, SetSha, SetFlag, ScheduleFails
  <1>3. CASE Reset
    BY <1>3 DEF Reset
  <1>4. CASE NoWifi \/ ReadPending \/ MarkValid
    BY <1>4 DEF NoWifi, ReadPending, MarkValid
  <1>5. CASE EraseFlag \/ EraseUrl \/ EraseSha
    BY <1>5 DEF EraseFlag, EraseUrl, EraseSha
  <1>6. ASSUME NEW i \in Images, Downloaded(i)
        PROVE  Counted'
    BY <1>6 DEF Downloaded
  <1>7. CASE Begin \/ Verify \/ ApplyFails \/ FinishUpdate \/ RecordAttempt
    BY <1>7 DEF Begin, Verify, ApplyFails, FinishUpdate, RecordAttempt
  <1> QED BY <1>1, <1>2, <1>3, <1>4, <1>5, <1>6, <1>7
       DEF OtaNext, BootNext, TaskNext, Restart, ScheduleRestarts, PowerLoss

\* An update writes the partition that neither runs nor is to start.
LEMMA PartitionsStep ==
  ASSUME DataType, Partitions, OtaNext
  PROVE  Partitions'
  <1> USE DEF Partitions, DataType, offSchedule, offBoot, keys, flash, got, At, Goto, Step
  <1>1. ASSUME NEW t \in Tasks, NEW u \in Images, NEW h \in {u, None},
               Ask(t, u, h) \/ CheckAgain(t, u, h)
        PROVE  Partitions'
    BY <1>1 DEF Ask, CheckAgain
  <1>2. ASSUME NEW t \in Tasks, SetUrl(t) \/ SetSha(t) \/ SetFlag(t) \/ ScheduleFails(t)
        PROVE  Partitions'
    BY <1>2 DEF SetUrl, SetSha, SetFlag, ScheduleFails
  <1>3. CASE Reset
    BY <1>3 DEF Reset
  <1>4. CASE NoWifi \/ ReadPending \/ MarkValid
    BY <1>4 DEF NoWifi, ReadPending, MarkValid
  <1>5. CASE EraseFlag \/ EraseUrl \/ EraseSha
    BY <1>5 DEF EraseFlag, EraseUrl, EraseSha
  <1>6. ASSUME NEW i \in Images, Downloaded(i)
        PROVE  Partitions'
    BY <1>6 DEF Downloaded, UpdatePartition
  <1>7. CASE Begin
    BY <1>7 DEF Begin, UpdatePartition
  <1>8. CASE Verify \/ ApplyFails
    BY <1>8 DEF Verify, ApplyFails, UpdatePartition
  <1>9. CASE FinishUpdate \/ RecordAttempt
    BY <1>9 DEF FinishUpdate, RecordAttempt, UpdatePartition
  <1> QED BY <1>1, <1>2, <1>3, <1>4, <1>5, <1>6, <1>7, <1>8, <1>9
       DEF OtaNext, BootNext, TaskNext, Restart, ScheduleRestarts, PowerLoss

LEMMA VerifiedStep ==
  ASSUME DataType, Verified, OtaNext
  PROVE  Verified'
  <1> USE DEF Verified, DataType, offSchedule, offBoot, keys, flash, got, At, Goto, Step
  <1>1. ASSUME NEW t \in Tasks, NEW u \in Images, NEW h \in {u, None},
               Ask(t, u, h) \/ CheckAgain(t, u, h)
        PROVE  Verified'
    BY <1>1 DEF Ask, CheckAgain
  <1>2. ASSUME NEW t \in Tasks, SetUrl(t) \/ SetSha(t) \/ SetFlag(t) \/ ScheduleFails(t)
        PROVE  Verified'
    BY <1>2 DEF SetUrl, SetSha, SetFlag, ScheduleFails
  <1>3. CASE Reset
    BY <1>3 DEF Reset
  <1>4. CASE NoWifi \/ ReadPending \/ MarkValid
    BY <1>4 DEF NoWifi, ReadPending, MarkValid
  <1>5. CASE EraseFlag \/ EraseUrl \/ EraseSha
    BY <1>5 DEF EraseFlag, EraseUrl, EraseSha
  <1>6. ASSUME NEW i \in Images, Downloaded(i)
        PROVE  Verified'
    BY <1>6 DEF Downloaded, UpdatePartition
  <1>7. CASE Begin \/ ApplyFails
    BY <1>7 DEF Begin, ApplyFails, UpdatePartition
  <1>8. CASE Verify
    BY <1>8 DEF Verify, UpdatePartition
  <1>9. CASE FinishUpdate \/ RecordAttempt
    BY <1>9 DEF FinishUpdate, RecordAttempt, UpdatePartition
  <1> QED BY <1>1, <1>2, <1>3, <1>4, <1>5, <1>6, <1>7, <1>8, <1>9
       DEF OtaNext, BootNext, TaskNext, Restart, ScheduleRestarts, PowerLoss

LEMMA RecordedStep ==
  ASSUME Recorded, DataType, Partitions, OtaNext
  PROVE  Recorded'
  <1> USE DEF Recorded, offSchedule
  <1>1. CASE \E t \in Tasks : TaskNext(t)
    BY <1>1 DEF TaskNext, Ask, CheckAgain, SetUrl, SetSha, SetFlag, ScheduleFails, ScheduleRestarts,
           Reset
  <1>2. CASE RecordAttempt
    <2>1. slot[1 - running] \in Images
      BY <1>2 DEF RecordAttempt, Step, Partitions
    <2> QED BY <1>2, <2>1 DEF RecordAttempt, UpdatePartition
  <1>3. CASE OtaNext /\ ~RecordAttempt /\ ~\E t \in Tasks : TaskNext(t)
    BY <1>3 DEF OtaNext, BootNext, NoWifi, ReadPending, EraseFlag, EraseUrl, EraseSha, Begin,
           Downloaded, Verify, ApplyFails, FinishUpdate, Restart, MarkValid, PowerLoss, Reset
  <1> QED BY <1>1, <1>2, <1>3

\* The hash is copied before it is erased, and a schedule replaces it before the flag.
LEMMA HashedStep ==
  ASSUME FlagType, DataType, TasksWait, FlagOnce, Hashed, OtaNext
  PROVE  Hashed'
  <1> USE DEF Hashed, Read, Erased, FlagOnce, TasksWait, DataType, offSchedule, offBoot, keys,
      flash, got, At, Goto, Step
  <1>1. ASSUME NEW t \in Tasks, NEW u \in Images, NEW h \in {u, None}, Ask(t, u, h)
        PROVE  Hashed'
    BY <1>1 DEF Ask
  <1>2. ASSUME NEW t \in Tasks, NEW u \in Images, NEW h \in {u, None}, CheckAgain(t, u, h)
        PROVE  Hashed'
    BY <1>2, OtaAssumption DEF CheckAgain
  <1>3. ASSUME NEW t \in Tasks, SetUrl(t)
        PROVE  Hashed'
    BY <1>3 DEF SetUrl
  <1>4. ASSUME NEW t \in Tasks, SetSha(t)
        PROVE  Hashed'
    BY <1>4, OtaAssumption DEF SetSha
  <1>5. ASSUME NEW t \in Tasks, SetFlag(t)
        PROVE  Hashed'
    BY <1>5 DEF SetFlag
  <1>6. ASSUME NEW t \in Tasks, ScheduleFails(t)
        PROVE  Hashed'
    BY <1>6 DEF ScheduleFails, Idle
  <1>7. CASE Reset
    BY <1>7 DEF Reset, Idle
  <1>8. CASE NoWifi \/ MarkValid
    BY <1>8 DEF NoWifi, MarkValid
  <1>9. CASE ReadPending
    <2>1. PICK readable \in BOOLEAN :
            /\ got_sha' = IF flag /\ readable THEN sha ELSE None
            /\ due' = IF readable THEN due ELSE None
      BY <1>9 DEF ReadPending
    <2>2. phase' \in Read => flag = TRUE
      BY <1>9 DEF ReadPending, FlagType
    <2>3. UNCHANGED <<sha, writer, task>> /\ (flag' = TRUE => flag = TRUE)
      BY <1>9, Zenon DEF ReadPending, FlagType
    <2>4. readable = TRUE \/ due' = None
      BY <2>1, Zenon
    <2>5. flag = TRUE /\ readable = TRUE => got_sha' = sha /\ due' = due
      BY <2>1, Zenon
    <2>6. due' # None => due' = due
      BY <2>1, Zenon
    <2> QED BY <2>2, <2>3, <2>4, <2>5, <2>6
  <1>10. CASE EraseFlag \/ EraseUrl \/ EraseSha
    BY <1>10 DEF EraseFlag, EraseUrl, EraseSha
  <1>11. ASSUME NEW i \in Images, Downloaded(i)
        PROVE  Hashed'
    BY <1>11 DEF Downloaded
  <1>12. CASE Begin \/ Verify \/ ApplyFails \/ FinishUpdate \/ RecordAttempt
    BY <1>12 DEF Begin, Verify, ApplyFails, FinishUpdate, RecordAttempt
  <1> QED BY <1>1, <1>2, <1>3, <1>4, <1>5, <1>6, <1>7, <1>8, <1>9, <1>10, <1>11, <1>12
       DEF OtaNext, BootNext, TaskNext, Restart, ScheduleRestarts, PowerLoss

(* ---- the specification -----------------------------------------------------*)
LEMMA StutterInv == OtaInv /\ UNCHANGED otaVars => OtaInv'
  <1> SUFFICES ASSUME OtaInv, UNCHANGED otaVars PROVE OtaInv'
    OBVIOUS
  <1> USE DEF otaVars, keys, flash, got
  <1>1. FlagType'
    BY Zenon DEF OtaInv, FlagType
  <1>2. (DataType /\ TasksWait /\ UrlFirst /\ FlagOnce)'
    BY DEF OtaInv, DataType, TasksWait, UrlFirst, FlagOnce
  <1>3. (Counted /\ Partitions /\ Verified /\ Recorded /\ Hashed)'
    BY DEF OtaInv, Counted, Partitions, Verified, Recorded, Hashed
  <1> QED BY <1>1, <1>2, <1>3 DEF OtaInv

LEMMA StepInv == OtaInv /\ OtaNext => OtaInv'
  <1> SUFFICES ASSUME OtaInv, OtaNext PROVE OtaInv'
    OBVIOUS
  <1>1. FlagType' /\ DataType'
    BY FlagStep, DataStep DEF OtaInv
  <1>2. TasksWait' /\ UrlFirst'
    BY TasksWaitStep, UrlFirstStep DEF OtaInv
  <1>3. FlagOnce' /\ Counted'
    BY FlagOnceStep, CountedStep DEF OtaInv
  <1>4. Partitions' /\ Verified' /\ Recorded' /\ Hashed'
    BY PartitionsStep, VerifiedStep, RecordedStep, HashedStep DEF OtaInv
  <1> QED BY <1>1, <1>2, <1>3, <1>4 DEF OtaInv

\* Whatever power is lost and whatever fails, every reachable state has OtaInv.
LEMMA Invariant == OtaSpec => []OtaInv
  <1>1. OtaInv /\ [OtaNext]_otaVars => OtaInv'
    BY StepInv, StutterInv
  <1> QED BY InitInv, <1>1, PTL DEF OtaSpec

\* Types: ota.c, its NVS keys, its tasks and the boot keep the values they may have.
THEOREM OtaTypes == OtaSpec => []OtaTypeOK
  <1>1. OtaInv => OtaTypeOK
    <2> SUFFICES ASSUME OtaInv PROVE OtaTypeOK
      OBVIOUS
    <2>1. flag \in BOOLEAN /\ s_ota_rolled_back \in BOOLEAN
      BY Zenon DEF OtaInv, FlagType
    <2>2. Recorded
      BY DEF OtaInv
    <2>3. applies \in 0..MaxSchedules
      BY OtaAssumption DEF OtaInv, Counted, DataType
    <2>4. DataType
      BY DEF OtaInv
    <2> QED BY <2>1, <2>2, <2>3, <2>4, Zenon DEF DataType, Recorded, OtaTypeOK, TaskShape, Maybe
  <1> QED BY Invariant, <1>1, PTL

\* The boot that finds the flag finds a URL with it (ota.c, tab5_ota_schedule and
\* tab5_ota_apply_pending_if_any).
THEOREM FlagUrl == OtaSpec => []FlagHasUrl
  <1>1. OtaInv => FlagHasUrl
    BY Zenon DEF OtaInv, FlagType, UrlFirst, FlagHasUrl
  <1> QED BY Invariant, <1>1, PTL

\* No loss of power, no failure and no second task makes an update run twice for
\* one schedule (tab5_ota_apply_pending_if_any clears the keys first).
THEOREM AtMostOnce == OtaSpec => []AppliedOnce
  <1>1. OtaInv => AppliedOnce
    BY DEF OtaInv, Counted, AppliedOnce
  <1> QED BY Invariant, <1>1, PTL

\* At every moment the partition the bootloader would start holds a whole image.
THEOREM AlwaysBoots == OtaSpec => []BootIsComplete
  <1>1. OtaInv => BootIsComplete
    BY DEF OtaInv, Partitions, BootIsComplete
  <1> QED BY Invariant, <1>1, PTL

\* The image that is installed has the hash its own schedule named, whatever is cut
\* off before, between and after the keys (ota.c, tab5_ota_schedule and
\* tab5_ota_apply_pending_if_any).
THEOREM AlwaysChecked == OtaSpec => []HashNotLost
  <1>1. OtaInv => HashNotLost
    BY DEF OtaInv, Hashed, Verified, Read, Erased, HashNotLost
  <1> QED BY Invariant, <1>1, PTL

(* ---- the update as one ------------------------------------------------------*)
\* What a step may do to the update, in the order of UpdateOnce.
Same == UNCHANGED <<May, slot[boot]>>
Waits == flag' = flag /\ Same
Asks == flag' = TRUE /\ Same
Starts ==
  /\ flag = TRUE /\ flag' = FALSE /\ May = {}
  /\ May' \in {Images} \cup {{i} : i \in Images}
  /\ UNCHANGED slot[boot]
Installs == flag' = flag /\ slot'[boot'] \in May /\ May' = {}
Fails == flag' = flag /\ May' = {} /\ UNCHANGED slot[boot]
UpdateStep == Waits \/ Asks \/ Starts \/ Installs \/ Fails

\* A schedule only moves the flag.
LEMMA ScheduleWaits ==
  ASSUME NEW t \in Tasks,
         \/ \E u, h : Ask(t, u, h) \/ CheckAgain(t, u, h)
         \/ SetUrl(t) \/ SetSha(t) \/ SetFlag(t) \/ ScheduleFails(t)
  PROVE  Waits \/ Asks
  <1>1. Same
    BY DEF Ask, CheckAgain, SetUrl, SetSha, SetFlag, ScheduleFails, offSchedule, keys, flash, got, Same, May
  <1>2. CASE SetFlag(t)
    BY <1>1, <1>2, Zenon DEF SetFlag, Asks
  <1>3. CASE SetUrl(t) \/ SetSha(t)
    BY <1>1, <1>3, Zenon DEF SetUrl, SetSha, Waits
  <1>4. CASE ScheduleFails(t) \/ \E u, h : Ask(t, u, h) \/ CheckAgain(t, u, h)
    <2>1. flag' = flag
      BY <1>4, Zenon DEF ScheduleFails, Ask, CheckAgain, keys
    <2> QED BY <1>1, <2>1 DEF Waits
  <1> QED BY <1>2, <1>3, <1>4

\* Whatever reset cuts off, the image to start stays.
LEMMA ResetFails ==
  ASSUME Reset
  PROVE  Fails
  <1>1. flag' = flag
    BY Zenon DEF Reset, keys
  <1>2. May' = {} /\ UNCHANGED slot[boot]
    BY DEF Reset, flash, May, Attempt
  <1> QED BY <1>1, <1>2 DEF Fails

\* Before the flag is erased there is no attempt; a flag without a URL, which
\* ReadPending would clear, does not occur.
LEMMA ReadingWaits ==
  ASSUME FlagType, UrlFirst, NoWifi \/ ReadPending \/ MarkValid
  PROVE  Waits
  <1>1. flag' = flag
    BY Zenon DEF NoWifi, ReadPending, MarkValid, keys, FlagType, UrlFirst
  <1>2. Same
    BY DEF NoWifi, ReadPending, MarkValid, flash, Step, Same, May, Attempt
  <1> QED BY <1>1, <1>2 DEF Waits

LEMMA EraseStarts ==
  ASSUME DataType, FlagOnce, EraseFlag
  PROVE  Starts
  <1>1. flag = TRUE /\ flag' = FALSE
    BY Zenon DEF EraseFlag, FlagOnce, Step
  <1>2. May = {} /\ May' = IF got_sha = None THEN Images ELSE {got_sha}
    BY DEF EraseFlag, Step, got, May, Attempt
  <1>3. got_sha \in Images \cup {None} /\ UNCHANGED slot[boot]
    BY DEF EraseFlag, flash, DataType
  <1> QED BY <1>1, <1>2, <1>3 DEF Starts

\* The partition that is written is not the one to start.
LEMMA WritingWaits ==
  ASSUME DataType, Partitions,
         \/ EraseUrl \/ EraseSha \/ Begin \/ \E i \in Images : Downloaded(i)
         \/ Verify \/ ApplyFails
  PROVE  Waits \/ Fails
  <1>1. flag' = flag
    BY Zenon DEF EraseUrl, EraseSha, Begin, Downloaded, Verify, ApplyFails, keys
  <1>2. phase \in Attempt /\ boot = running /\ boot' = boot /\ got_sha' = got_sha
    BY DEF EraseUrl, EraseSha, Begin, Downloaded, Verify, ApplyFails, Step, flash, got, Attempt,
           Partitions
  <1>3. UNCHANGED slot[boot]
    BY <1>2 DEF EraseUrl, EraseSha, Begin, Downloaded, Verify, ApplyFails, flash, UpdatePartition,
           DataType
  <1>4. phase' \in Attempt \/ phase' = "mark"
    BY DEF EraseUrl, EraseSha, Begin, Downloaded, Verify, ApplyFails, Step, Attempt
  <1>5. CASE phase' \in Attempt
    BY <1>1, <1>2, <1>3, <1>5 DEF Waits, Same, May
  <1>6. CASE phase' = "mark"
    BY <1>1, <1>3, <1>6 DEF Fails, May, Attempt
  <1> QED BY <1>4, <1>5, <1>6

\* The switch is to a complete image, with the hash that was asked for.
LEMMA FinishInstalls ==
  ASSUME Partitions, Verified, FinishUpdate
  PROVE  Installs
  <1>1. flag' = flag
    BY Zenon DEF FinishUpdate, keys
  <1>2. phase = "finish" /\ phase' = "record" /\ slot'[boot'] = slot[1 - running]
    BY DEF FinishUpdate, Step, UpdatePartition
  <1>3. slot[1 - running] \in May
    BY <1>2 DEF Partitions, Verified, May, Attempt
  <1> QED BY <1>1, <1>2, <1>3 DEF Installs, May, Attempt

LEMMA RecordWaits ==
  ASSUME RecordAttempt
  PROVE  Waits
  <1>1. flag' = flag
    BY Zenon DEF RecordAttempt, keys
  <1>2. Same
    BY DEF RecordAttempt, Step, flash, Same, May, Attempt
  <1> QED BY <1>1, <1>2 DEF Waits

LEMMA NextUpdates ==
  ASSUME OtaInv, OtaNext
  PROVE  UpdateStep
  <1> USE DEF UpdateStep
  <1>1. CASE \E t \in Tasks : TaskNext(t)
    <2>1. PICK t \in Tasks : TaskNext(t)
      BY <1>1
    <2>2. CASE ScheduleRestarts(t)
      BY <2>2, ResetFails DEF ScheduleRestarts
    <2>3. CASE ~ScheduleRestarts(t)
      BY <2>1, <2>3, ScheduleWaits, Zenon DEF TaskNext
    <2> QED BY <2>2, <2>3
  <1>2. CASE Restart \/ PowerLoss
    BY <1>2, ResetFails DEF Restart, PowerLoss
  <1>3. CASE NoWifi \/ ReadPending \/ MarkValid
    BY <1>3, ReadingWaits DEF OtaInv
  <1>4. CASE EraseFlag
    BY <1>4, EraseStarts DEF OtaInv
  <1>5. CASE \/ EraseUrl \/ EraseSha \/ Begin \/ \E i \in Images : Downloaded(i)
             \/ Verify \/ ApplyFails
    BY <1>5, WritingWaits DEF OtaInv
  <1>6. CASE FinishUpdate
    BY <1>6, FinishInstalls DEF OtaInv
  <1>7. CASE RecordAttempt
    BY <1>7, RecordWaits
  <1> QED BY <1>1, <1>2, <1>3, <1>4, <1>5, <1>6, <1>7, Zenon DEF OtaNext, BootNext

\* The three keys, the two partitions and the restarts behave as one update that is
\* tried once: tab5_ota_schedule, tab5_ota_apply_pending_if_any and tab5_ota_apply.
THEOREM UpdateImplemented == OtaSpec => ImplementsUpdate
  <1>1. OtaInit => Update!Init
    <2> SUFFICES ASSUME OtaInit PROVE Update!Init
      OBVIOUS
    <2>1. flag = FALSE
      BY Zenon DEF OtaInit
    <2>2. May = {} /\ slot[boot] = Factory
      BY DEF OtaInit, May, Attempt
    <2> QED BY <2>1, <2>2, Zenon DEF Update!Init
  <1>2. UpdateStep => [Update!Next]_<<flag, May, slot[boot]>>
    <2>1. Waits => UNCHANGED <<flag, May, slot[boot]>>
      BY Zenon DEF Waits, Same
    <2>2. Asks => Update!Schedule
      BY Zenon DEF Asks, Same, Update!Schedule
    <2>3. Starts => Update!Start
      BY Zenon DEF Starts, Update!Start
    <2>4. Installs => Update!Install
      BY Zenon DEF Installs, Update!Install
    <2>5. Fails => Update!GiveUp
      BY Zenon DEF Fails, Update!GiveUp
    <2> QED BY <2>1, <2>2, <2>3, <2>4, <2>5, Zenon DEF UpdateStep, Update!Next
  <1>3. UNCHANGED otaVars => UpdateStep
    <2> SUFFICES ASSUME UNCHANGED otaVars PROVE Waits
      BY DEF UpdateStep
    <2>1. flag' = flag
      BY Zenon DEF otaVars, keys
    <2>2. Same
      BY DEF otaVars, flash, got, Same, May
    <2> QED BY <2>1, <2>2 DEF Waits
  <1>4. OtaInv /\ [OtaNext]_otaVars => [Update!Next]_<<flag, May, slot[boot]>>
    BY <1>2, <1>3, NextUpdates
  <1> QED BY Invariant, <1>1, <1>4, PTL DEF OtaSpec, ImplementsUpdate, Update!Spec
=============================================================================

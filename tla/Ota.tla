--------------------------------- MODULE Ota ---------------------------------
(***************************************************************************)
(* main/ota.c and the boot order of main/main.c: an update is scheduled in *)
(* NVS by Settings or by POST /ota/apply, the device restarts, and the     *)
(* fresh boot downloads, checks and flashes it into the other partition    *)
(* and restarts again.  Power may be lost between any two steps; every NVS *)
(* write is durable when it returns.  A write of a schedule may fail; an   *)
(* erasure, whose result the code ignores, is taken to succeed.  The hash  *)
(* of a pending update may be unreadable, and is then none.  The server    *)
(* may serve another image than the one it announced.  The bootloader      *)
(* starts the partition that was set last: the build does not enable       *)
(* CONFIG_BOOTLOADER_APP_ROLLBACK_ENABLE, so it never goes back by itself. *)
(***************************************************************************)
EXTENDS Integers, FiniteSets

CONSTANTS
  Images, Factory,   \* the images there are, the one the device came with
  Good,              \* the images that come up
  Tasks,             \* ota_apply_task of the settings page and of the debug server
  Shared,            \* the tasks whose request lies in statics that a check rewrites
  Ver(_), Desc(_),   \* TAB5_FIRMWARE_VER of an image, its application descriptor
  MaxSchedules,      \* bound on updates ever scheduled
  None

ASSUME OtaAssumption ==
  /\ Factory \in Good /\ Good \subseteq Images /\ None \notin Images
  /\ MaxSchedules \in Nat /\ Tasks # {} /\ Shared \subseteq Tasks /\ None \notin Tasks

VARIABLES
  flag, url, sha,        \* the NVS keys of namespace ota_pending
  ota_try,               \* NVS: the version flashed last
  slot, boot,            \* the two app partitions, the one to start
  running, phase,        \* the partition that runs, how far this boot is
  got_url, got_sha,      \* the locals of tab5_ota_apply_pending_if_any
  task,                  \* the tasks: [pc, url, sha]
  s_ota_rolled_back,
  schedules, applies,    \* auxiliary: flags set, updates begun
  writer,                \* auxiliary: the task that alone wrote keys since its URL
  due                    \* auxiliary: the hash that the pending update, or the one
                         \* under way, is to be checked against

keys == <<flag, url, sha>>
flash == <<slot, boot>>
got == <<got_url, got_sha>>
otaVars == <<keys, ota_try, flash, running, phase, got, task, s_ota_rolled_back,
             schedules, applies, writer, due>>

Idle == [pc |-> "idle", url |-> None, sha |-> None]
Phases == {"boot", "eraseFlag", "eraseUrl", "eraseSha", "apply", "download", "verify",
           "finish", "record", "restart", "mark", "up"}

OtaTypeOK ==
  /\ flag \in BOOLEAN /\ {url, sha, got_url, got_sha, due} \subseteq Images \cup {None}
  /\ ota_try \in {Desc(i) : i \in Images} \cup {None}
  /\ slot \in [0..1 -> Images \cup {"empty", "partial"}] /\ boot \in 0..1 /\ running \in 0..1
  /\ phase \in Phases
  /\ task \in [Tasks -> [pc : {"idle", "url", "sha", "flag", "restart"},
                         url : Images \cup {None}, sha : Images \cup {None}]]
  /\ s_ota_rolled_back \in BOOLEAN /\ writer \in Tasks \cup {None}
  /\ schedules \in 0..MaxSchedules /\ applies \in 0..MaxSchedules

OtaInit ==
  /\ flag = FALSE /\ url = None /\ sha = None /\ ota_try = None
  /\ slot = [s \in 0..1 |-> IF s = 0 THEN Factory ELSE "empty"]
  /\ boot = 0 /\ running = 0 /\ phase = "boot" /\ got_url = None /\ got_sha = None
  /\ task = [t \in Tasks |-> Idle] /\ s_ota_rolled_back = FALSE
  /\ schedules = 0 /\ applies = 0 /\ writer = None /\ due = None

-----------------------------------------------------------------------------
(* Scheduling: tab5_ota_schedule, called by tasks that know nothing of     *)
(* each other.                                                             *)

offSchedule == <<ota_try, flash, running, phase, got, s_ota_rolled_back, applies>>

\* The settings page and the debug server run before the image is marked valid.
At(t, pc) == phase \in {"mark", "up"} /\ task[t].pc = pc
Goto(t, pc) == task' = [task EXCEPT ![t].pc = pc]

\* The update that version.json announced, with its hash or without one.
Ask(t, u, h) ==
  /\ At(t, "idle") /\ schedules < MaxSchedules
  /\ task' = [task EXCEPT ![t] = [pc |-> "url", url |-> u, sha |-> h]]
  /\ UNCHANGED <<offSchedule, keys, schedules, writer, due>>

\* A check that ends in the middle of the schedule rewrites what it reads from.
CheckAgain(t, u, h) ==
  /\ t \in Shared /\ \E pc \in {"url", "sha"} : At(t, pc)
  /\ task' = [task EXCEPT ![t].url = u, ![t].sha = h]
  /\ writer' = IF writer = t THEN None ELSE writer
  /\ UNCHANGED <<offSchedule, keys, schedules, due>>

\* Mutant: the flag follows the URL, and the hash comes last.
SetUrlMutant(t) ==
  /\ At(t, "url") /\ url' = task[t].url /\ flag' = TRUE /\ Goto(t, "sha")
  /\ writer' = t /\ due' = task[t].sha
  /\ UNCHANGED <<offSchedule, sha, schedules>>

SetUrl(t) ==
  /\ At(t, "url") /\ url' = task[t].url /\ Goto(t, "sha")
  /\ writer' = t /\ due' = None
  /\ UNCHANGED <<offSchedule, flag, sha, schedules>>

\* Without a hash the stale one is erased, which leaves None.
SetSha(t) ==
  /\ At(t, "sha") /\ sha' = task[t].sha /\ Goto(t, "flag")
  /\ writer' = (IF writer = t THEN t ELSE None) /\ due' = None
  /\ UNCHANGED <<offSchedule, flag, url, schedules>>

\* The flag announces one schedule's keys, or what several have left.
SetFlag(t) ==
  /\ At(t, "flag") /\ schedules < MaxSchedules
  /\ flag' = TRUE /\ schedules' = schedules + 1 /\ Goto(t, "restart")
  /\ due' = IF writer = t THEN task[t].sha ELSE None
  /\ UNCHANGED <<offSchedule, url, sha, writer>>
\* Mutant: a schedule that fails takes its URL back.
ScheduleFailsMutant(t) ==
  /\ \E pc \in {"url", "sha", "flag"} : At(t, pc)
  /\ task' = [task EXCEPT ![t] = Idle] /\ url' = None
  /\ UNCHANGED <<offSchedule, flag, sha, schedules, writer, due>>

\* A write fails: the task reports it and leaves what it has written.
ScheduleFails(t) ==
  /\ \E pc \in {"url", "sha", "flag"} : At(t, pc)
  /\ task' = [task EXCEPT ![t] = Idle]
  /\ UNCHANGED <<offSchedule, keys, schedules, writer, due>>

\* esp_restart, and power that is lost at any moment.
Reset ==
  /\ phase' = "boot" /\ running' = boot /\ got_url' = None /\ got_sha' = None
  /\ task' = [t \in Tasks |-> Idle] /\ s_ota_rolled_back' = FALSE
  /\ UNCHANGED <<keys, ota_try, flash, schedules, applies, writer, due>>
Restart == phase = "restart" /\ Reset
ScheduleRestarts(t) == At(t, "restart") /\ Reset
PowerLoss == Reset

-----------------------------------------------------------------------------
(* The boot task: app_main up to the home screen.                          *)

offBoot == <<task, schedules, writer>>
Step(from, to) == phase = from /\ phase' = to

\* Without Wi-Fi the pending update waits for the next boot.
NoWifi ==
  /\ Step("boot", "mark")
  /\ UNCHANGED <<offBoot, keys, ota_try, flash, running, got, s_ota_rolled_back, applies,
                 due>>

\* Mutant: the keys are cleared by the boot that follows the update.
ReadPendingMutant ==
  /\ phase = "boot" /\ phase' = (IF flag THEN "apply" ELSE "mark")
  /\ got_url' = url /\ got_sha' = sha
  /\ UNCHANGED <<offBoot, keys, ota_try, flash, running, s_ota_rolled_back, applies, due>>

\* tab5_ota_apply_pending_if_any: the flag without a URL is erased, and a hash
\* that cannot be read is none.
ReadPending ==
  /\ phase = "boot"
  /\ phase' = IF flag /\ url # None THEN "eraseFlag" ELSE "mark"
  /\ flag' = (flag /\ url # None)
  /\ got_url' = IF flag THEN url ELSE None
  /\ \E readable \in BOOLEAN :
       /\ got_sha' = IF flag /\ readable THEN sha ELSE None
       /\ due' = IF readable THEN due ELSE None
  /\ UNCHANGED <<offBoot, url, sha, ota_try, flash, running, s_ota_rolled_back, applies>>

\* The keys go before the update begins, so that a crash in it is not repeated.
EraseFlag ==
  /\ Step("eraseFlag", "eraseUrl") /\ flag' = FALSE
  /\ UNCHANGED <<offBoot, url, sha, ota_try, flash, running, got, s_ota_rolled_back, applies,
                 due>>
EraseUrl ==
  /\ Step("eraseUrl", "eraseSha") /\ url' = None
  /\ UNCHANGED <<offBoot, flag, sha, ota_try, flash, running, got, s_ota_rolled_back, applies,
                 due>>
EraseSha ==
  /\ Step("eraseSha", "apply") /\ sha' = None
  /\ UNCHANGED <<offBoot, flag, url, ota_try, flash, running, got, s_ota_rolled_back, applies,
                 due>>

\* Mutant: the update always goes into the second partition.
UpdatePartitionMutant == 1

\* esp_ota_get_next_update_partition(NULL): the one that does not run.
UpdatePartition == 1 - running

\* Mutant: the attempt is recorded when it begins, from what the partition holds then.
BeginMutant ==
  /\ Step("apply", "download") /\ applies' = applies + 1
  /\ slot' = [slot EXCEPT ![UpdatePartition] = "partial"]
  /\ ota_try' = Desc(slot[UpdatePartition])
  /\ UNCHANGED <<offBoot, keys, boot, running, got, s_ota_rolled_back, due>>

\* tab5_ota_apply: begin erases what the other partition held.
Begin ==
  /\ Step("apply", "download") /\ applies' = applies + 1
  /\ slot' = [slot EXCEPT ![UpdatePartition] = "partial"]
  /\ UNCHANGED <<offBoot, keys, ota_try, boot, running, got, s_ota_rolled_back, due>>
\* What arrives is what the server serves by now.
Downloaded(i) ==
  /\ Step("download", IF got_sha = None THEN "finish" ELSE "verify")
  /\ slot' = [slot EXCEPT ![UpdatePartition] = i]
  /\ UNCHANGED <<offBoot, keys, ota_try, boot, running, got, s_ota_rolled_back, applies,
                 due>>
\* Mutant: a hash that differs is reported, and the update goes on.
VerifyMutant ==
  /\ Step("verify", "finish")
  /\ UNCHANGED <<offBoot, keys, ota_try, flash, running, got, s_ota_rolled_back, applies,
                 due>>

Verify ==
  /\ Step("verify", IF slot[UpdatePartition] = got_sha THEN "finish" ELSE "mark")
  /\ UNCHANGED <<offBoot, keys, ota_try, flash, running, got, s_ota_rolled_back, applies,
                 due>>
\* The connection, an allocation or the validation of the image fails: the boot
\* goes on with the old image.
ApplyFails ==
  /\ phase \in {"apply", "download", "verify", "finish"} /\ phase' = "mark"
  /\ UNCHANGED <<offBoot, keys, ota_try, flash, running, got, s_ota_rolled_back, applies,
                 due>>
FinishUpdate ==
  /\ Step("finish", "record") /\ boot' = UpdatePartition
  /\ UNCHANGED <<offBoot, keys, ota_try, slot, running, got, s_ota_rolled_back, applies,
                 due>>
\* The description may be unreadable, and the write of the attempt may fail.
RecordAttempt ==
  /\ Step("record", "restart") /\ ota_try' \in {ota_try, Desc(slot[UpdatePartition])}
  /\ UNCHANGED <<offBoot, keys, flash, running, got, s_ota_rolled_back, applies,
                 due>>

\* tab5_ota_mark_valid and the look for a rollback: an image that does not come
\* up never gets here.
MarkValid ==
  /\ Step("mark", "up") /\ slot[running] \in Good
  /\ s_ota_rolled_back' = (ota_try # None /\ ota_try # Ver(slot[running]))
  /\ ota_try' = None
  /\ UNCHANGED <<offBoot, keys, flash, running, got, applies, due>>

BootNext ==
  \/ NoWifi \/ ReadPending \/ EraseFlag \/ EraseUrl \/ EraseSha
  \/ Begin \/ (\E i \in Images : Downloaded(i)) \/ Verify \/ ApplyFails
  \/ FinishUpdate \/ RecordAttempt \/ Restart \/ MarkValid
TaskNext(t) ==
  \/ \E u \in Images, known \in BOOLEAN : Ask(t, u, IF known THEN u ELSE None)
  \/ \E u \in Images, known \in BOOLEAN : CheckAgain(t, u, IF known THEN u ELSE None)
  \/ SetUrl(t) \/ SetSha(t) \/ SetFlag(t) \/ ScheduleFails(t) \/ ScheduleRestarts(t)
OtaNext == BootNext \/ (\E t \in Tasks : TaskNext(t)) \/ PowerLoss

OtaSpec == OtaInit /\ [][OtaNext]_otaVars

-----------------------------------------------------------------------------
\* The boot reads a URL whenever it finds the flag, whatever was cut off between
\* the writes of a schedule or the erasures of a boot (ota.c:411-422, 458-474).
FlagHasUrl == flag => url # None

\* A schedule is tried once: no crash in the middle of an update makes the next
\* boots repeat it (ota.c:453).
AppliedOnce == applies <= schedules

\* The partition the bootloader starts is never the one that is being written,
\* so an update that is cut off leaves a device that boots (ota.c:194, 316).
BootIsComplete == slot[boot] \in Images

\* The image that is installed is the one whose hash its own schedule named: no
\* loss of power, failed write or earlier schedule makes the hash another one or
\* none.  Not covered are a hash that the boot cannot read, which the code takes
\* for none, and keys that two schedules wrote, or that a check rewrote, in turn
\* (ota.c:411-417, 467).
HashNotLost == phase \in {"record", "restart"} /\ due # None => slot[boot] = due

\* What the update under way may install, from the erasure of its flag to the switch.
Attempt == {"eraseUrl", "eraseSha", "apply", "download", "verify", "finish"}
May ==
  IF phase \notin Attempt THEN {} ELSE IF got_sha = None THEN Images ELSE {got_sha}

Update == INSTANCE UpdateOnce WITH asked <- flag, may <- May, image <- slot[boot]

\* The keys, the partitions and the restarts are one update: what the device starts
\* changes only by an attempt that was asked for, to an image with the hash the
\* attempt was given, and a new attempt needs a new schedule (ota.c:194-345, 458-485).
ImplementsUpdate == Update!Spec

\* settings.h:157: "mismatch means a rollback fired".  A rollback is reported
\* only when the partition that runs is not the one that was set last.  It does
\* not hold: the README says why.
RollbackReportTrue == s_ota_rolled_back => running # boot
=============================================================================

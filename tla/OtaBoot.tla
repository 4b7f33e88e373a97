------------------------------- MODULE OtaBoot -------------------------------
(***************************************************************************)
(* The life of the firmware images: app_main and system_health_checkup of  *)
(* main.c, execute_ota of ota.c and the RTC watchdog of wtd.c, with the    *)
(* bootloader and the OTA library of ESP-IDF (external) under them.        *)
(*                                                                         *)
(* There are two OTA slots and no factory image (sdkconfig:                *)
(* partitions_two_ota_large, BOOTLOADER_APP_ROLLBACK_ENABLE).  A new image *)
(* is on trial at its first boot; app_main confirms it or rolls it back.   *)
(* Power cuts, panics and the watchdog may strike between any two steps.   *)
(***************************************************************************)
EXTENDS Naturals

CONSTANTS
  Images,       \* the releases the server may offer
  Sick,         \* those whose system_init always fails
  Crashy,       \* those whose tasks panic once they run
  FirstImage,   \* the image flashed at the factory
  MaxAttempts,  \* ota.c:125: 10
  MaxFaults,    \* bound: power cuts and panics of an image that is not Crashy
  MaxReleases   \* bound: times the server changes its image

ASSUME ImagesAssumption ==
  /\ Sick \subseteq Images /\ Crashy \subseteq Images
  /\ FirstImage \in Images \ Sick
  /\ "none" \notin Images /\ "partial" \notin Images
ASSUME BoundsAssumption ==
  /\ MaxAttempts \in Nat \ {0} /\ MaxFaults \in Nat /\ MaxReleases \in Nat

VARIABLES
  \* flash
  img,     \* what each slot holds
  st,      \* the OTA state of each slot, "UNSET" if otadata has no entry
  newest,  \* the slot whose otadata entry has the higher sequence number
  \* the processor
  run,     \* the slot that was booted last
  reason,  \* esp_reset_reason()
  pc,      \* where app_main or execute_ota is
  counter, \* failed attempts of execute_ota
  wdt,     \* the RTC watchdog: armed or off
  \* the environment
  drops,   \* does esp_ota_begin drop the otadata entry of the slot it erases?
           \* A property of the library; the code may rely on neither
  server,  \* the image at CONFIG_EXAMPLE_FIRMWARE_UPGRADE_URL
  faults, releases,
  \* history
  tested   \* the slots whose present content has passed system_init

flash  == <<img, st, newest, tested>>
env    == <<drops, server, faults, releases>>
vars   == <<img, st, newest, run, reason, pc, counter, wdt, drops, server,
            faults, releases, tested>>

Slots    == {0, 1}
Other(s) == 1 - s
OtaState == {"UNSET", "NEW", "PENDING", "VALID", "INVALID", "ABORTED"}
PC == {"boot", "start", "sysInit", "otaInit", "otaConnect", "healthy",
       "unhealthy", "run", "loop", "begin", "download", "setBoot",
       "feedFail", "feedOk", "delay"}

Complete(s) == img[s] \in Images          \* the image verifies
Good        == Images \ (Sick \union Crashy)

Init ==
  /\ img = [s \in Slots |-> IF s = 0 THEN FirstImage ELSE "none"]
  /\ st = [s \in Slots |-> IF s = 0 THEN "VALID" ELSE "UNSET"]
  /\ newest = 0 /\ run = 0 /\ reason = "POWERON" /\ pc = "boot"
  /\ counter = 0 /\ wdt = "off"
  /\ drops \in {"yes", "no"}
  /\ server \in Images /\ faults = 0 /\ releases = 0 /\ tested = {0}

-----------------------------------------------------------------------------
(***************************************************************************)
(* The bootloader (external).  An image still PENDING had its one chance   *)
(* and becomes ABORTED.  The newest entry that is not rejected is booted   *)
(* if its image verifies, else whatever slot verifies.                     *)
(***************************************************************************)
Rejected == {"UNSET", "INVALID", "ABORTED"}
Boot ==
  LET seen == [s \in Slots |-> IF st[s] = "PENDING" THEN "ABORTED" ELSE st[s]]
      pick == IF seen[newest] \notin Rejected THEN newest
              ELSE IF seen[Other(newest)] \notin Rejected THEN Other(newest)
              ELSE 0
      slot == IF Complete(pick) THEN pick ELSE Other(pick)
  IN /\ pc = "boot" /\ Complete(slot)
     /\ st' = [seen EXCEPT ![slot] = IF @ = "NEW" THEN "PENDING" ELSE @]
     /\ run' = slot /\ pc' = "start"
     /\ UNCHANGED <<img, newest, tested, reason, counter, wdt, env>>

Restart(why) == pc' = "boot" /\ reason' = why /\ wdt' = "off" /\ counter' = 0

\* esp_restart
SoftRestart == Restart("SW") /\ UNCHANGED <<flash, run, env>>

-----------------------------------------------------------------------------
(***************************************************************************)
(* app_main                                                                *)
(***************************************************************************)
Step(from, to) == pc = from /\ pc' = to

\* Mutant: the reset reason is not looked at.
HealthCheckupBlind ==
  /\ Step("start", "sysInit")
  /\ UNCHANGED <<flash, run, reason, counter, wdt, env>>

\* main.c:130: after an abnormal reset look for a new image first.
HealthCheckup ==
  /\ Step("start", IF reason \in {"SW", "POWERON"} THEN "sysInit" ELSE "otaInit")
  /\ UNCHANGED <<flash, run, reason, counter, wdt, env>>

\* main.c:134-138, each step returning its error.
OtaInitOk ==
  /\ Step("otaInit", "otaConnect")
  /\ UNCHANGED <<flash, run, reason, counter, wdt, env>>
OtaInitFails ==
  /\ Step("otaInit", "unhealthy")
  /\ UNCHANGED <<flash, run, reason, counter, wdt, env>>

\* main.c:140-145 and gpio.c:55-60: the connection before execute_ota.
ConnectOk ==
  /\ Step("otaConnect", "loop") /\ counter' = 0
  /\ UNCHANGED <<flash, run, reason, wdt, env>>
ConnectFails == pc = "otaConnect" /\ SoftRestart

\* system_init fails with the hardware or the access point too.
SystemInitOk ==
  /\ img[run] \notin Sick /\ Step("sysInit", "healthy")
  /\ tested' = tested \union {run}
  /\ UNCHANGED <<img, st, newest, run, reason, counter, wdt, env>>
SystemInitFails ==
  /\ Step("sysInit", "unhealthy")
  /\ UNCHANGED <<flash, run, reason, counter, wdt, env>>

\* esp_ota_mark_app_valid_cancel_rollback, or a restart when it fails.
MarkValid ==
  /\ Step("healthy", "run") /\ st' = [st EXCEPT ![run] = "VALID"]
  /\ UNCHANGED <<img, newest, tested, run, reason, counter, wdt, env>>
MarkValidFails == pc = "healthy" /\ SoftRestart

\* esp_ota_mark_app_invalid_rollback_and_reboot does nothing when the other
\* slot is rejected or does not verify; then main.c:169 restarts.
RollbackPossible == st[Other(run)] \notin Rejected /\ Complete(Other(run))
\* Mutant: the image is rejected without asking for another one.
RollbackAlways ==
  /\ pc = "unhealthy" /\ st' = [st EXCEPT ![run] = "INVALID"]
  /\ Restart("SW") /\ UNCHANGED <<img, newest, tested, run, env>>
Rollback ==
  /\ pc = "unhealthy"
  /\ IF RollbackPossible THEN st' = [st EXCEPT ![run] = "INVALID"]
                         ELSE UNCHANGED st
  /\ Restart("SW") /\ UNCHANGED <<img, newest, tested, run, env>>

\* The tasks run until relay_task has finished its cycle (module TaskStop).
RelayCycle ==
  /\ Step("run", "otaConnect") /\ img[run] \notin Crashy
  /\ UNCHANGED <<flash, run, reason, counter, wdt, env>>

-----------------------------------------------------------------------------
(***************************************************************************)
(* execute_ota: a bounded loop of watched downloads.                       *)
(***************************************************************************)
\* Mutants: one attempt too many; the watchdog is not armed.
ArmWatchdogOnceMore ==
  /\ counter <= MaxAttempts /\ Step("loop", "begin") /\ wdt' = "armed"
  /\ UNCHANGED <<flash, run, reason, counter, env>>
ArmNothing ==
  /\ counter < MaxAttempts /\ Step("loop", "begin")
  /\ UNCHANGED <<flash, run, reason, counter, wdt, env>>
ArmWatchdog ==
  /\ counter < MaxAttempts /\ Step("loop", "begin") /\ wdt' = "armed"
  /\ UNCHANGED <<flash, run, reason, counter, env>>
\* ota.c:141: the attempts are used up.
GiveUp == pc = "loop" /\ counter >= MaxAttempts /\ SoftRestart

\* esp_ota_begin (external) refuses while the running image is on trial,
\* else it erases the other slot.
Begin ==
  /\ \/ /\ st[run] = "PENDING" /\ Step("begin", "feedFail")
        /\ UNCHANGED <<img, st, tested>>
     \/ /\ st[run] # "PENDING" /\ Step("begin", "download")
        /\ img' = [img EXCEPT ![Other(run)] = "partial"]
        /\ st' = IF drops = "yes" THEN [st EXCEPT ![Other(run)] = "UNSET"] ELSE st
        /\ tested' = tested \ {Other(run)}
  /\ UNCHANGED <<newest, run, reason, counter, wdt, env>>
DownloadOk ==
  /\ Step("download", "setBoot") /\ img' = [img EXCEPT ![Other(run)] = server]
  /\ UNCHANGED <<st, newest, tested, run, reason, counter, wdt, env>>
\* Also esp_ota_set_boot_partition failing after a complete download.
DownloadFails ==
  /\ pc \in {"download", "setBoot"} /\ pc' = "feedFail"
  /\ UNCHANGED <<flash, run, reason, counter, wdt, env>>
\* esp_ota_set_boot_partition (external).
SetBoot ==
  /\ Step("setBoot", "feedOk")
  /\ st' = [st EXCEPT ![Other(run)] = "NEW"] /\ newest' = Other(run)
  /\ UNCHANGED <<img, tested, run, reason, counter, wdt, env>>

\* ota.c:129-137: rtc_wtd_ok, then restart into the new image or wait.
UpdateOk == pc = "feedOk" /\ SoftRestart
UpdateFailed ==
  /\ Step("feedFail", "delay") /\ wdt' = "off"
  /\ UNCHANGED <<flash, run, reason, counter, env>>
RetryLater ==
  /\ Step("delay", "loop") /\ counter' = counter + 1
  /\ UNCHANGED <<flash, run, reason, wdt, env>>

-----------------------------------------------------------------------------
(***************************************************************************)
(* What strikes from outside.                                              *)
(***************************************************************************)
WatchdogFires ==
  wdt = "armed" /\ Restart("ABNORMAL") /\ UNCHANGED <<flash, run, env>>
\* A Crashy image panics in its tasks.
TaskPanics ==
  /\ pc = "run" /\ img[run] \in Crashy
  /\ Restart("ABNORMAL") /\ UNCHANGED <<flash, run, env>>
Strike(why) ==
  /\ faults < MaxFaults /\ faults' = faults + 1 /\ Restart(why)
  /\ UNCHANGED <<flash, run, drops, server, releases>>
PowerCut == Strike("POWERON")
Panic    == pc # "boot" /\ Strike("ABNORMAL")
Release ==
  /\ releases < MaxReleases /\ releases' = releases + 1
  /\ server' \in Images /\ UNCHANGED <<flash, run, reason, pc, counter, wdt, drops, faults>>

App == \/ HealthCheckup \/ OtaInitOk \/ OtaInitFails \/ ConnectOk \/ ConnectFails
       \/ SystemInitOk \/ SystemInitFails \/ MarkValid \/ MarkValidFails
       \/ Rollback \/ RelayCycle
       \/ ArmWatchdog \/ GiveUp \/ Begin \/ DownloadOk \/ DownloadFails \/ SetBoot
       \/ UpdateOk \/ UpdateFailed \/ RetryLater
World == WatchdogFires \/ TaskPanics \/ PowerCut \/ Panic \/ Release

Next == Boot \/ App \/ World

Spec == Init /\ [][Next]_vars

-----------------------------------------------------------------------------
(***************************************************************************)
(* Fairness.  The processor runs; a watchdog that stays armed fires; what  *)
(* may fail because of the network or the hardware does not fail for ever. *)
(* Nor does it fail for ever under the image the server offers.            *)
(* Nothing makes a download end but the watchdog.                          *)
(***************************************************************************)
Processor == \/ Boot \/ HealthCheckup \/ OtaInitOk \/ OtaInitFails
             \/ ConnectOk \/ ConnectFails \/ SystemInitOk \/ SystemInitFails
             \/ MarkValid \/ MarkValidFails \/ Rollback \/ RelayCycle
             \/ ArmWatchdog \/ GiveUp \/ Begin
             \/ UpdateOk \/ UpdateFailed \/ RetryLater
Running == WF_vars(Processor) /\ WF_vars(WatchdogFires) /\ WF_vars(TaskPanics)
Luck    == /\ SF_vars(OtaInitOk) /\ SF_vars(ConnectOk) /\ SF_vars(Begin)
           /\ SF_vars(DownloadOk) /\ SF_vars(SetBoot) /\ SF_vars(UpdateOk)
           /\ SF_vars(SystemInitOk) /\ SF_vars(img[run] = server /\ SystemInitOk)
           /\ SF_vars(MarkValid) /\ SF_vars(img[run] = server /\ MarkValid)

WatchedSpec == Spec /\ Running
LuckySpec   == Spec /\ Running /\ Luck

-----------------------------------------------------------------------------
TypeOK ==
  /\ img \in [Slots -> Images \union {"none", "partial"}]
  /\ st \in [Slots -> OtaState] /\ newest \in Slots /\ run \in Slots
  /\ reason \in {"SW", "POWERON", "ABNORMAL"} /\ pc \in PC
  /\ counter \in 0..MaxAttempts /\ wdt \in {"off", "armed"}
  /\ tested \subseteq Slots /\ drops \in {"yes", "no"}
  /\ server \in Images /\ faults \in 0..MaxFaults /\ releases \in 0..MaxReleases

(* An image on trial always leaves a confirmed, intact one to fall back    *)
(* to, whatever was interrupted before (main.c:156-169, ota.c:125-139).    *)
TrialHasFallback ==
  \A s \in Slots : st[s] \in {"NEW", "PENDING"} =>
     Complete(s) /\ st[Other(s)] = "VALID" /\ Complete(Other(s))

(* An image that was rolled back, or did not survive its trial, is never   *)
(* booted again unless it is downloaded again (main.c:168).                *)
NeverBootsRejected == [][pc = "boot" /\ pc' = "start" => st'[run'] \notin Rejected]_vars

(* The inductive invariant: one slot is VALID and verifies; the other is   *)
(* rejected, or an older VALID one, or on trial and intact.                *)
Anchor(s) ==
  LET o == Other(s) IN
  /\ st[s] = "VALID" /\ Complete(s)
  /\ \/ st[o] \in Rejected
     \/ st[o] = "VALID" /\ newest = s
     \/ st[o] \in {"NEW", "PENDING"} /\ newest = o /\ Complete(o)
Writing == {"download", "setBoot", "feedOk"}
BootInv ==
  /\ \E s \in Slots : Anchor(s)
  /\ pc # "boot" =>
       \/ Anchor(run) /\ (st[Other(run)] \notin {"NEW", "PENDING"} \/ pc = "feedOk")
       \/ st[run] = "PENDING" /\ Anchor(Other(run)) /\ pc \notin Writing
  /\ pc = "feedOk" => st[Other(run)] = "NEW"
  /\ pc = "setBoot" => Complete(Other(run))

(* No slot is written while the image that runs is not confirmed, and the  *)
(* slot that runs is never written at all (ota.c:128).                     *)
WritesOnlyTheOtherSlot ==
  [][\A s \in Slots : img'[s] # img[s] => s # run /\ st[run] = "VALID"]_vars

(* execute_ota ends in a reset even if the server never answers: attempts  *)
(* are watched and counted (ota.c:125-141, wtd.c:47-71).                   *)
UpdateEnds == (pc = "loop") ~> (pc = "boot")

InUpdate == {"loop", "begin", "download", "setBoot", "feedOk", "feedFail", "delay"}
Blocking == {"begin", "download", "setBoot"}
Place == [p \in InUpdate |-> CASE p = "loop" -> 5 [] p = "begin" -> 4 [] p = "download" -> 3
                              [] p = "setBoot" -> 2 [] p \in {"feedOk", "feedFail"} -> 1
                              [] OTHER -> 0]
StepsLeft == 6 * (MaxAttempts - counter) + Place[pc]

(* What that rests on, whatever MaxAttempts is: while the library may      *)
(* block, the watchdog is armed (ota.c:127, wtd.c:47-71) ...               *)
UpdateIsWatched == pc \in Blocking => wdt = "armed"
(* ... and every step of execute_ota brings it nearer to its last attempt  *)
(* (ota.c:125-141).                                                        *)
UpdateAdvances ==
  [][releases' = releases /\ {pc, pc'} \subseteq InUpdate => StepsLeft' < StepsLeft]_vars

(* If the server settles on an image that works, the device keeps coming   *)
(* back to running it, confirmed, whatever bad images, outages, crashes    *)
(* and rollbacks went before (main.c:129-147), as long as some confirmed   *)
(* image passes the check; where esp_ota_begin drops the entry of an       *)
(* erased slot one always does.  Else a sick image may be left under the   *)
(* last VALID entry, and main.c:165-169 restarts it for ever.              *)
Settled   == [](server \in Good)
SomeWorks == \E s \in Slots : st[s] = "VALID" /\ img[s] \in Images \ Sick
LatestRuns ==
  <>Settled /\ []SomeWorks => []<>(pc = "run" /\ img[run] = server /\ st[run] = "VALID")

-----------------------------------------------------------------------------
(* The slots seen as SafeUpdate sees them: NEW and PENDING are on trial,   *)
(* what is VALID and verifies is kept, and the bootloader would fall back  *)
(* to the newest of those.                                                 *)
OnTrial(s)  == st[s] \in {"NEW", "PENDING"}
Bootable(s) == st[s] = "VALID" /\ Complete(s)
Kept  == {s \in Slots : Bootable(s)}
Cur   == IF Bootable(newest) THEN newest ELSE Other(newest)
Trial == IF OnTrial(0) THEN 0 ELSE IF OnTrial(1) THEN 1 ELSE 2
Update == INSTANCE SafeUpdate WITH None <- 2, kept <- Kept, cur <- Cur, trial <- Trial

(* Every step of app_main, execute_ota and the bootloader is a step of     *)
(* SafeUpdate or none: there is an image to fall back to at every moment.  *)
ImplementsSafeUpdate == Update!Spec

(* The image of an update that has never passed the check is rolled back   *)
(* when it fails it (main.c:156, 168), if esp_ota_begin drops the entry.   *)
(* Else a watchdog reset between the download and                          *)
(* esp_ota_set_boot_partition leaves an unproven image under the VALID     *)
(* entry of its predecessor.                                               *)
FailedCheckRollsBack ==
  drops = "yes" /\ pc = "unhealthy" /\ run \notin tested => RollbackPossible

(* The inductive invariant it rests on, with BootInv, and SomeWorks too.    *)
ValidIsTested ==
  /\ pc = "healthy" => run \in tested
  /\ drops = "yes" => \A s \in Slots : st[s] = "VALID" => s \in tested
TestedWorks ==
  /\ \A s \in tested : img[s] \in Images \ Sick
  /\ pc \in Writing => Other(run) \notin tested

(* Where the entry of an erased slot is dropped, a confirmed image that    *)
(* passes the check is there at every moment (main.c:160, ota.c:128).      *)
AlwaysSomeWorks == drops = "yes" => SomeWorks
=============================================================================

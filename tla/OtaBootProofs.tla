--------------------------- MODULE OtaBootProofs ----------------------------
(* Proofs about OtaBoot, for every set of images and every bound. *)
EXTENDS OtaBoot, TLAPS

LEMMA TwoSlots == ASSUME NEW s \in Slots
                  PROVE  Other(s) \in Slots /\ Other(s) # s /\ Other(Other(s)) = s
BY DEF Slots, Other

(* What is booted is a slot, and what the bootloader makes of the entries  *)
(* are entries.                                                            *)
LEMMA BootTypes == ASSUME TypeOK, Boot
                   PROVE  /\ run' \in Slots /\ st' \in [Slots -> OtaState]
                          /\ pc' = "start"
                          /\ UNCHANGED <<img, newest, tested, reason, counter, wdt, env>>
<1> DEFINE seen == [s \in Slots |-> IF st[s] = "PENDING" THEN "ABORTED" ELSE st[s]]
           pick == IF seen[newest] \notin Rejected THEN newest
                   ELSE IF seen[Other(newest)] \notin Rejected THEN Other(newest)
                   ELSE 0
           slot == IF Complete(pick) THEN pick ELSE Other(pick)
<1>1. seen \in [Slots -> OtaState]
  BY DEF TypeOK, OtaState
<1>2. slot \in Slots
  BY TwoSlots DEF TypeOK, Slots, Other
<1>3. /\ st' = [seen EXCEPT ![slot] = IF @ = "NEW" THEN "PENDING" ELSE @]
      /\ run' = slot /\ pc' = "start"
      /\ UNCHANGED <<img, newest, tested, reason, counter, wdt, env>>
  BY Zenon DEF Boot
<1>4. st' \in [Slots -> OtaState]
  <2> HIDE DEF seen, slot
  <2> QED BY <1>1, <1>2, <1>3 DEF OtaState
<1> QED BY <1>2, <1>3, <1>4

(* An attempt of execute_ota is one of the MaxAttempts. *)
Attempt    == {"begin", "download", "setBoot", "feedFail", "feedOk", "delay"}
AttemptInv == pc \in Attempt => counter < MaxAttempts

(* Every variable keeps its type; in particular the counter of execute_ota *)
(* never exceeds the limit of ota.c:125.                                   *)
THEOREM OtaTypeCorrect == Spec => []TypeOK
<1> USE ImagesAssumption, BoundsAssumption, TwoSlots
    DEF TypeOK, PC, OtaState, AttemptInv, Attempt
<1>1. Init => TypeOK /\ AttemptInv
  BY DEF Init, Slots
<1>2. TypeOK /\ AttemptInv /\ [Next]_vars => (TypeOK /\ AttemptInv)'
  <2> SUFFICES ASSUME TypeOK, AttemptInv, [Next]_vars
               PROVE  (TypeOK /\ AttemptInv)'
    OBVIOUS
  <2> USE DEF Step, Restart, SoftRestart, flash, env
  <2>1. CASE Boot BY <2>1, BootTypes
  <2>2. CASE App
      <3>1. CASE HealthCheckup BY <3>1 DEF HealthCheckup
      <3>2. CASE OtaInitOk BY <3>2 DEF OtaInitOk
      <3>3. CASE OtaInitFails BY <3>3 DEF OtaInitFails
      <3>4. CASE ConnectOk BY <3>4 DEF ConnectOk
      <3>5. CASE ConnectFails BY <3>5 DEF ConnectFails
      <3>6. CASE SystemInitOk BY <3>6 DEF SystemInitOk
      <3>7. CASE SystemInitFails BY <3>7 DEF SystemInitFails
      <3>8. CASE MarkValid BY <3>8 DEF MarkValid
      <3>9. CASE MarkValidFails BY <3>9 DEF MarkValidFails
      <3>10. CASE Rollback BY <3>10 DEF Rollback
      <3>11. CASE RelayCycle BY <3>11 DEF RelayCycle
      <3>12. CASE ArmWatchdog BY <3>12 DEF ArmWatchdog
      <3>13. CASE GiveUp BY <3>13 DEF GiveUp
      <3>14. CASE Begin BY <3>14 DEF Begin
      <3>15. CASE DownloadOk BY <3>15 DEF DownloadOk
      <3>16. CASE DownloadFails BY <3>16 DEF DownloadFails
      <3>17. CASE SetBoot BY <3>17 DEF SetBoot
      <3>18. CASE UpdateOk BY <3>18 DEF UpdateOk
      <3>19. CASE UpdateFailed BY <3>19 DEF UpdateFailed
      <3>20. CASE RetryLater BY <3>20 DEF RetryLater
      <3> QED BY <2>2, <3>1, <3>2, <3>3, <3>4, <3>5, <3>6, <3>7, <3>8, <3>9, <3>10, <3>11, <3>12, <3>13, <3>14, <3>15, <3>16, <3>17, <3>18, <3>19, <3>20 DEF App
  <2>3. CASE World
      <3>1. CASE WatchdogFires BY <3>1 DEF WatchdogFires
      <3>2. CASE TaskPanics BY <3>2 DEF TaskPanics
      <3>3. CASE PowerCut BY <3>3 DEF PowerCut, Strike
      <3>4. CASE Panic BY <3>4 DEF Panic, Strike
      <3>5. CASE Release BY <3>5 DEF Release
      <3> QED BY <2>3, <3>1, <3>2, <3>3, <3>4, <3>5 DEF World
  <2>4. CASE UNCHANGED vars BY <2>4 DEF vars
  <2> QED BY <2>1, <2>2, <2>3, <2>4 DEF Next
<1>3. QED BY <1>1, <1>2, PTL DEF Spec

-----------------------------------------------------------------------------
LEMMA InitialBoot == Init => BootInv
<1> SUFFICES ASSUME Init PROVE BootInv
  OBVIOUS
<1>1. Anchor(0)
  BY ImagesAssumption DEF Init, Anchor, Complete, Slots, Other, Rejected
<1> QED BY <1>1 DEF BootInv, Init, Slots

(* A step that leaves the flash alone disturbs the invariant only by the   *)
(* place where it takes the program.                                       *)
LEMMA SameFlash == ASSUME BootInv, UNCHANGED <<img, st, newest, run>>,
                          \/ pc' = "boot"
                          \/ pc \notin {"boot", "feedOk"} /\ pc' \notin Writing
                   PROVE  BootInv'
<1> USE DEF flash, Anchor, Complete, Rejected, Other
<1>1. ASSUME NEW s \in Slots PROVE Anchor(s)' <=> Anchor(s)
  OBVIOUS
<1> QED BY <1>1 DEF BootInv, Writing

(* The bootloader starts the image on trial, or else the anchor; an image  *)
(* still on trial at its second boot is rejected.                          *)
LEMMA BootOutcome == ASSUME TypeOK, Boot, NEW s \in Slots, Anchor(s)
                     PROVE  /\ Anchor(s)' /\ pc' = "start" /\ UNCHANGED <<img, newest>>
                            /\ st[Other(s)] = "NEW" =>
                                  run' = Other(s) /\ st'[Other(s)] = "PENDING"
                            /\ st[Other(s)] # "NEW" =>
                                  /\ run' = s
                                  /\ st'[Other(s)] = IF st[Other(s)] = "PENDING"
                                                     THEN "ABORTED" ELSE st[Other(s)]
<1> DEFINE seen == [x \in Slots |-> IF st[x] = "PENDING" THEN "ABORTED" ELSE st[x]]
           pick == IF seen[newest] \notin Rejected THEN newest
                   ELSE IF seen[Other(newest)] \notin Rejected THEN Other(newest)
                   ELSE 0
           slot == IF Complete(pick) THEN pick ELSE Other(pick)
           o    == Other(s)
<1>1. /\ st' = [seen EXCEPT ![slot] = IF @ = "NEW" THEN "PENDING" ELSE @]
      /\ run' = slot /\ pc' = "start" /\ UNCHANGED <<img, newest>>
  BY Zenon DEF Boot
<1>2. s \in Slots /\ o \in Slots /\ o # s /\ Other(o) = s /\ Slots = {s, o}
  BY DEF Slots, Other
<1>3. seen[s] = "VALID" /\ Complete(s)
  BY <1>2 DEF Anchor
<1>4. st' \in [Slots -> OtaState] /\ newest \in Slots
  BY BootTypes DEF TypeOK
<1>5. CASE st[o] = "NEW"
  <2>1. newest = o /\ Complete(o) /\ seen[o] = "NEW"
    BY <1>2, <1>5 DEF Anchor, Rejected
  <2>2. slot = o
    BY <2>1 DEF Rejected
  <2>3. st'[s] = "VALID" /\ st'[o] = "PENDING"
    <3> HIDE DEF slot, seen
    <3> QED BY <1>1, <1>2, <1>3, <1>4, <2>1, <2>2, BootTypes DEF TypeOK
  <2>4. Anchor(s)'
    BY <1>1, <1>2, <1>3, <2>1, <2>3 DEF Anchor, Rejected, Complete
  <2> QED BY <1>1, <1>5, <2>2, <2>3, <2>4
<1>6. CASE st[o] # "NEW"
  <2>1. seen[o] \in Rejected \/ (seen[o] = "VALID" /\ newest = s)
    BY <1>2, <1>6 DEF Anchor, Rejected
  <2>2. slot = s
    BY <1>2, <1>3, <1>4, <2>1 DEF Rejected, Slots, Other
  <2>3. st'[s] = "VALID" /\ st'[o] = seen[o]
    <3> HIDE DEF slot, seen
    <3> QED BY <1>1, <1>2, <1>3, <1>4, <2>1, <2>2, BootTypes DEF TypeOK
  <2>4. Anchor(s)'
    BY <1>1, <1>2, <1>3, <2>1, <2>3 DEF Anchor, Rejected, Complete
  <2> QED BY <1>1, <1>2, <1>6, <2>2, <2>3, <2>4
<1> QED BY <1>5, <1>6

LEMMA BootKeepsInv == ASSUME TypeOK, BootInv, Boot
                      PROVE  BootInv' /\ st'[run'] \notin Rejected
<1>1. PICK s \in Slots : Anchor(s)
  BY DEF BootInv
<1>2. /\ Anchor(s)' /\ pc' = "start"
      /\ \/ run' = Other(s) /\ st'[Other(s)] = "PENDING" /\ Other(Other(s)) = s
         \/ run' = s /\ st'[s] = "VALID" /\ st'[Other(s)] \notin {"NEW", "PENDING"}
  BY <1>1, BootOutcome, TwoSlots DEF Anchor, Rejected
<1>3. BootInv'
  <2>1. CASE run' = Other(s) /\ st'[Other(s)] = "PENDING" /\ Other(Other(s)) = s
    BY <1>2, <2>1, TwoSlots DEF BootInv, Writing
  <2>2. CASE run' = s /\ st'[s] = "VALID" /\ st'[Other(s)] \notin {"NEW", "PENDING"}
    BY <1>2, <2>2 DEF BootInv, Writing
  <2> QED BY <1>2, <2>1, <2>2
<1> QED BY <1>2, <1>3 DEF Rejected

(* The device always has an image to go back to.                           *)
LEMMA BootInductive == TypeOK /\ BootInv /\ [Next]_vars => BootInv'
<1> SUFFICES ASSUME TypeOK, BootInv, [Next]_vars PROVE BootInv'
  OBVIOUS
<1> USE DEF Step, Restart, SoftRestart, flash
<1>1. CASE Boot BY <1>1, BootKeepsInv
<1>2. CASE App
  <2> USE SameFlash
  <2>1. CASE HealthCheckup BY <2>1 DEF HealthCheckup, Writing
  <2>2. CASE OtaInitOk BY <2>2 DEF OtaInitOk, Writing
  <2>3. CASE OtaInitFails BY <2>3 DEF OtaInitFails, Writing
  <2>4. CASE ConnectOk BY <2>4 DEF ConnectOk, Writing
  <2>5. CASE ConnectFails BY <2>5 DEF ConnectFails
  <2>6. CASE SystemInitOk BY <2>6 DEF SystemInitOk, Writing
  <2>7. CASE SystemInitFails BY <2>7 DEF SystemInitFails, Writing
  <2>8. CASE MarkValid
    <3> QED BY <2>8 DEF MarkValid, BootInv, Anchor, TypeOK, Writing, Rejected, Complete, Slots, Other
  <2>9. CASE MarkValidFails BY <2>9 DEF MarkValidFails
  <2>10. CASE Rollback
    <3> QED BY <2>10 DEF Rollback, RollbackPossible, BootInv, Anchor, TypeOK, Writing, Rejected, Complete, Slots, Other
  <2>11. CASE RelayCycle BY <2>11 DEF RelayCycle, Writing
  <2>12. CASE ArmWatchdog BY <2>12 DEF ArmWatchdog, Writing
  <2>13. CASE GiveUp BY <2>13 DEF GiveUp
  <2>14. CASE Begin
    <3> QED BY <2>14 DEF Begin, BootInv, Anchor, TypeOK, Writing, Rejected, Complete, Slots, Other
  <2>15. CASE DownloadOk
    <3> QED BY <2>15 DEF DownloadOk, BootInv, Anchor, TypeOK, Writing, Rejected, Complete, Slots, Other
  <2>16. CASE DownloadFails BY <2>16 DEF DownloadFails, Writing
  <2>17. CASE SetBoot
    <3> QED BY <2>17 DEF SetBoot, BootInv, Anchor, TypeOK, Writing, Rejected, Complete, Slots, Other
  <2>18. CASE UpdateOk BY <2>18 DEF UpdateOk
  <2>19. CASE UpdateFailed BY <2>19 DEF UpdateFailed, Writing
  <2>20. CASE RetryLater BY <2>20 DEF RetryLater, Writing
  <2> QED BY <1>2, <2>1, <2>2, <2>3, <2>4, <2>5, <2>6, <2>7, <2>8, <2>9, <2>10, <2>11, <2>12, <2>13, <2>14, <2>15, <2>16, <2>17, <2>18, <2>19, <2>20 DEF App
<1>3. CASE World
  <2> USE SameFlash
  <2>1. CASE WatchdogFires BY <2>1 DEF WatchdogFires
  <2>2. CASE TaskPanics BY <2>2 DEF TaskPanics
  <2>3. CASE PowerCut BY <2>3 DEF PowerCut, Strike
  <2>4. CASE Panic BY <2>4 DEF Panic, Strike
  <2>5. CASE Release
    <3> QED BY <2>5 DEF Release, flash, BootInv, Anchor, Complete
  <2> QED BY <1>3, <2>1, <2>2, <2>3, <2>4, <2>5 DEF World
<1>4. CASE UNCHANGED vars
  BY <1>4 DEF vars, BootInv, Anchor, Complete
<1> QED BY <1>1, <1>2, <1>3, <1>4 DEF Next

-----------------------------------------------------------------------------
THEOREM BootInvariant == Spec => []BootInv
<1>1. Init => BootInv
  BY InitialBoot
<1>2. TypeOK /\ BootInv /\ [Next]_vars => BootInv'
  BY BootInductive
<1> QED BY <1>1, <1>2, OtaTypeCorrect, PTL DEF Spec

(* The bootloader makes no image VALID. *)
LEMMA BootKeepsValid == ASSUME TypeOK, Boot, NEW s \in Slots, st'[s] = "VALID"
                        PROVE  st[s] = "VALID"
<1> DEFINE seen == [x \in Slots |-> IF st[x] = "PENDING" THEN "ABORTED" ELSE st[x]]
           pick == IF seen[newest] \notin Rejected THEN newest
                   ELSE IF seen[Other(newest)] \notin Rejected THEN Other(newest)
                   ELSE 0
           slot == IF Complete(pick) THEN pick ELSE Other(pick)
<1>1. st' = [seen EXCEPT ![slot] = IF @ = "NEW" THEN "PENDING" ELSE @]
  BY Zenon DEF Boot
<1> HIDE DEF slot
<1> QED BY <1>1 DEF TypeOK

(* Where esp_ota_begin drops the entry of the slot it erases, a VALID slot *)
(* has passed the check: only MarkValid makes one, for the image that runs.*)
LEMMA ValidInductive == TypeOK /\ ValidIsTested /\ [Next]_vars => ValidIsTested'
<1> SUFFICES ASSUME TypeOK, ValidIsTested, [Next]_vars PROVE ValidIsTested'
  OBVIOUS
<1> USE DEF ValidIsTested, Step, Restart, SoftRestart, flash, env
<1>1. CASE Boot
  <2>1. \A s \in Slots : st'[s] = "VALID" => st[s] = "VALID"
    BY <1>1, BootKeepsValid
  <2> QED BY <1>1, <2>1, BootTypes
<1>2. CASE App
  <2>1. CASE SystemInitOk BY <2>1 DEF SystemInitOk
  <2>2. CASE MarkValid BY <2>2 DEF MarkValid, TypeOK
  <2>3. CASE Rollback BY <2>3 DEF Rollback, TypeOK
  <2>4. CASE Begin BY <2>4, TwoSlots DEF Begin, TypeOK
  <2>5. CASE SetBoot BY <2>5, TwoSlots DEF SetBoot, TypeOK
  <2>6. CASE ~(SystemInitOk \/ MarkValid \/ Rollback \/ Begin \/ SetBoot)
    <3>1. UNCHANGED st /\ pc' # "healthy" /\ drops' = drops /\ tested' = tested
      BY <1>2, <2>6
         DEF App, HealthCheckup, OtaInitOk, OtaInitFails, ConnectOk, ConnectFails,
             SystemInitFails, MarkValidFails, RelayCycle, ArmWatchdog, GiveUp,
             DownloadOk, DownloadFails, UpdateOk, UpdateFailed, RetryLater
    <3> QED BY <3>1
  <2> QED BY <2>1, <2>2, <2>3, <2>4, <2>5, <2>6
<1>3. CASE World
  BY <1>3 DEF World, WatchdogFires, TaskPanics, PowerCut, Panic, Strike, Release
<1>4. CASE UNCHANGED vars BY <1>4 DEF vars
<1> QED BY <1>1, <1>2, <1>3, <1>4 DEF Next

(* ... at every step of every boot and update (main.c:160, ota.c:128).     *)
THEOREM ValidIsTestedHolds == Spec => []ValidIsTested
<1>1. Init => ValidIsTested
  BY DEF Init, ValidIsTested, Slots
<1> QED BY <1>1, ValidInductive, OtaTypeCorrect, PTL DEF Spec

(* An unproven image that fails its check is rolled back, if the library   *)
(* drops the entry of an erased slot (main.c:156, 168).                    *)
THEOREM FailedCheckRollsBackHolds == Spec => []FailedCheckRollsBack
<1>1. TypeOK /\ BootInv /\ ValidIsTested => FailedCheckRollsBack
  BY TwoSlots DEF TypeOK, BootInv, Anchor, ValidIsTested, FailedCheckRollsBack,
                  RollbackPossible, Rejected
<1> QED BY <1>1, ValidIsTestedHolds, OtaTypeCorrect, BootInvariant, PTL

-----------------------------------------------------------------------------
(* A slot counts as tested only while it holds what passed the check: it   *)
(* is erased before another image is written to it.                        *)
LEMMA TestedInductive == TypeOK /\ BootInv /\ TestedWorks /\ [Next]_vars => TestedWorks'
<1> SUFFICES ASSUME TypeOK, BootInv, TestedWorks, [Next]_vars PROVE TestedWorks'
  OBVIOUS
<1> USE DEF TestedWorks, Writing, Step, Restart, SoftRestart, flash, env
<1>1. CASE Boot BY <1>1, BootTypes DEF flash
<1>2. CASE App
  <2>1. CASE SystemInitOk
    <3>1. img[run] \in Images \ Sick /\ pc' = "healthy"
      BY <2>1, TwoSlots DEF SystemInitOk, BootInv, Anchor, Complete, Rejected, TypeOK
    <3>2. tested' = tested \union {run} /\ UNCHANGED <<img, run>>
      BY <2>1 DEF SystemInitOk
    <3> QED BY <3>1, <3>2
  <2>2. CASE Begin BY <2>2, TwoSlots DEF Begin, TypeOK
  <2>3. CASE DownloadOk BY <2>3, TwoSlots DEF DownloadOk, TypeOK
  <2>4. CASE ~(SystemInitOk \/ Begin \/ DownloadOk)
    <3>1. UNCHANGED <<img, tested, run>> /\ (pc' \in Writing => pc \in Writing)
      BY <1>2, <2>4
         DEF App, HealthCheckup, OtaInitOk, OtaInitFails, ConnectOk, ConnectFails,
             SystemInitFails, MarkValid, MarkValidFails, Rollback, RelayCycle,
             ArmWatchdog, GiveUp, DownloadFails, SetBoot, UpdateOk, UpdateFailed, RetryLater
    <3> QED BY <3>1 DEF Other
  <2> QED BY <2>1, <2>2, <2>3, <2>4
<1>3. CASE World
  BY <1>3 DEF World, WatchdogFires, TaskPanics, PowerCut, Panic, Strike, Release
<1>4. CASE UNCHANGED vars BY <1>4 DEF vars
<1> QED BY <1>1, <1>2, <1>3, <1>4 DEF Next

(* Where the library drops the entry of an erased slot, one confirmed      *)
(* image passes the check at every moment: the condition of LatestRuns is  *)
(* met, and no sick image is the last one (main.c:160, ota.c:128).         *)
THEOREM AlwaysSomeWorksHolds == Spec => []AlwaysSomeWorks
<1>1. Init => TestedWorks
  BY ImagesAssumption DEF Init, TestedWorks, Writing, Slots
<1>2. BootInv /\ ValidIsTested /\ TestedWorks => AlwaysSomeWorks
  <2> SUFFICES ASSUME BootInv, ValidIsTested, TestedWorks, drops = "yes" PROVE SomeWorks
    BY DEF AlwaysSomeWorks
  <2>1. PICK s \in Slots : st[s] = "VALID"
    BY DEF BootInv, Anchor
  <2>2. s \in tested
    BY <2>1 DEF ValidIsTested
  <2> QED BY <2>1, <2>2 DEF SomeWorks, TestedWorks
<1> QED BY <1>1, <1>2, TestedInductive, OtaTypeCorrect, BootInvariant, ValidIsTestedHolds,
           PTL DEF Spec

(* An image on trial always has a confirmed, intact one behind it, for any *)
(* number of releases, faults and attempts (main.c:156-169).               *)
THEOREM TrialHasFallbackHolds == Spec => []TrialHasFallback
<1>1. TypeOK /\ BootInv => TrialHasFallback
  BY DEF TypeOK, BootInv, Anchor, TrialHasFallback, Rejected, Slots, Other
<1> QED BY <1>1, OtaTypeCorrect, BootInvariant, PTL

(* The bootloader never boots a slot whose image was rejected: it would    *)
(* have to be the last one left (main.c:168).                              *)
THEOREM NeverBootsRejectedHolds == Spec => NeverBootsRejected
<1> DEFINE P == pc = "boot" /\ pc' = "start" => st'[run'] \notin Rejected
<1>1. TypeOK /\ BootInv /\ [Next]_vars => [P]_vars
  <2> SUFFICES ASSUME TypeOK, BootInv, Next, pc = "boot", pc' = "start"
               PROVE  Boot
    BY BootKeepsInv DEF vars
  <2> QED BY DEF Next, App, World, Step, Restart, SoftRestart, HealthCheckup, OtaInitOk,
               OtaInitFails, ConnectOk, ConnectFails, SystemInitOk, SystemInitFails,
               MarkValid, MarkValidFails, Rollback, RelayCycle, ArmWatchdog, GiveUp,
               Begin, DownloadOk, DownloadFails, SetBoot, UpdateOk, UpdateFailed,
               RetryLater, WatchdogFires, TaskPanics, PowerCut, Panic, Strike, Release
<1> QED BY <1>1, OtaTypeCorrect, BootInvariant, PTL DEF Spec, NeverBootsRejected

(* execute_ota writes only the slot that does not run, and only when the   *)
(* running image is confirmed (ota.c:128).                                 *)
THEOREM WritesOnlyTheOtherSlotHolds == Spec => WritesOnlyTheOtherSlot
<1> DEFINE P == \A s \in Slots : img'[s] # img[s] => s # run /\ st[run] = "VALID"
<1>1. TypeOK /\ BootInv /\ [Next]_vars => [P]_vars
  <2> SUFFICES ASSUME TypeOK, BootInv, Next, img' # img PROVE P
    OBVIOUS
  <2>1. Begin \/ DownloadOk
    BY BootTypes
       DEF Next, App, World, Step, Restart, SoftRestart, flash, HealthCheckup, OtaInitOk,
           OtaInitFails, ConnectOk, ConnectFails, SystemInitOk, SystemInitFails,
           MarkValid, MarkValidFails, Rollback, RelayCycle, ArmWatchdog, GiveUp,
           Begin, DownloadOk, DownloadFails, SetBoot, UpdateOk, UpdateFailed,
           RetryLater, WatchdogFires, TaskPanics, PowerCut, Panic, Strike, Release
  <2>2. st[run] = "VALID" /\ img' = [img EXCEPT ![Other(run)] = img'[Other(run)]]
    BY <2>1 DEF Begin, DownloadOk, Step, BootInv, Anchor, Writing, TypeOK
  <2> QED BY <2>2, TwoSlots DEF TypeOK
<1> QED BY <1>1, OtaTypeCorrect, BootInvariant, PTL DEF Spec, WritesOnlyTheOtherSlot

(* Whenever execute_ota is where the library may block for ever, the       *)
(* watchdog is armed (ota.c:127, wtd.c:47-71).                             *)
THEOREM UpdateIsWatchedHolds == Spec => []UpdateIsWatched
<1> USE DEF UpdateIsWatched, Blocking
<1>1. Init => UpdateIsWatched
  BY DEF Init
<1>2. UpdateIsWatched /\ [Next]_vars => UpdateIsWatched'
  <2> SUFFICES ASSUME UpdateIsWatched, [Next]_vars PROVE UpdateIsWatched'
    OBVIOUS
  <2> USE DEF Step, Restart, SoftRestart
  <2>1. CASE Boot BY <2>1 DEF Boot
  <2>2. CASE App
      <3>1. CASE HealthCheckup BY <3>1 DEF HealthCheckup
      <3>2. CASE OtaInitOk BY <3>2 DEF OtaInitOk
      <3>3. CASE OtaInitFails BY <3>3 DEF OtaInitFails
      <3>4. CASE ConnectOk BY <3>4 DEF ConnectOk
      <3>5. CASE ConnectFails BY <3>5 DEF ConnectFails
      <3>6. CASE SystemInitOk BY <3>6 DEF SystemInitOk
      <3>7. CASE SystemInitFails BY <3>7 DEF SystemInitFails
      <3>8. CASE MarkValid BY <3>8 DEF MarkValid
      <3>9. CASE MarkValidFails BY <3>9 DEF MarkValidFails
      <3>10. CASE Rollback BY <3>10 DEF Rollback
      <3>11. CASE RelayCycle BY <3>11 DEF RelayCycle
      <3>12. CASE ArmWatchdog BY <3>12 DEF ArmWatchdog
      <3>13. CASE GiveUp BY <3>13 DEF GiveUp
      <3>14. CASE Begin BY <3>14 DEF Begin
      <3>15. CASE DownloadOk BY <3>15 DEF DownloadOk
      <3>16. CASE DownloadFails BY <3>16 DEF DownloadFails
      <3>17. CASE SetBoot BY <3>17 DEF SetBoot
      <3>18. CASE UpdateOk BY <3>18 DEF UpdateOk
      <3>19. CASE UpdateFailed BY <3>19 DEF UpdateFailed
      <3>20. CASE RetryLater BY <3>20 DEF RetryLater
      <3> QED BY <2>2, <3>1, <3>2, <3>3, <3>4, <3>5, <3>6, <3>7, <3>8, <3>9, <3>10, <3>11, <3>12, <3>13, <3>14, <3>15, <3>16, <3>17, <3>18, <3>19, <3>20 DEF App
  <2>3. CASE World
    BY <2>3 DEF World, WatchdogFires, TaskPanics, PowerCut, Panic, Strike, Release
  <2>4. CASE UNCHANGED vars BY <2>4 DEF vars
  <2> QED BY <2>1, <2>2, <2>3, <2>4 DEF Next
<1> QED BY <1>1, <1>2, PTL DEF Spec

(* Every step of execute_ota that does not leave it brings it nearer to    *)
(* its last attempt, whatever their number (ota.c:125-141): with the       *)
(* watchdog above, the half of UpdateEnds that is no matter of fairness.   *)
THEOREM UpdateAdvancesHolds == Spec => UpdateAdvances
<1> DEFINE P == releases' = releases /\ {pc, pc'} \subseteq InUpdate => StepsLeft' < StepsLeft
<1>1. TypeOK /\ [Next]_vars => [P]_vars
  <2> SUFFICES ASSUME TypeOK, Next, pc \in InUpdate, pc' \in InUpdate, releases' = releases,
                      vars' # vars
               PROVE  StepsLeft' < StepsLeft
    OBVIOUS
  <2>1. /\ Place["loop"] = 5 /\ Place["begin"] = 4 /\ Place["download"] = 3 /\ Place["setBoot"] = 2
        /\ Place["feedOk"] = 1 /\ Place["feedFail"] = 1 /\ Place["delay"] = 0
    BY DEF Place, InUpdate
  <2>2. MaxAttempts \in Nat /\ counter \in Nat
    BY BoundsAssumption DEF TypeOK
  <2>3. \/ ArmWatchdog \/ Begin \/ DownloadOk \/ DownloadFails \/ SetBoot \/ UpdateFailed \/ RetryLater
    <3>1. ~Boot
      BY DEF Boot, InUpdate
    <3>2. ~World
      <4>1. releases \in Nat
        BY BoundsAssumption DEF TypeOK
      <4>2. ~Release
        BY <4>1 DEF Release
      <4> QED BY <4>2 DEF World, WatchdogFires, TaskPanics, PowerCut, Panic, Strike, Restart, InUpdate
    <3>3. App
      BY <3>1, <3>2 DEF Next
    <3> QED
      BY <3>3 DEF App, InUpdate, Step, Restart, SoftRestart, HealthCheckup, OtaInitOk,
           OtaInitFails, ConnectOk, ConnectFails, SystemInitOk, SystemInitFails,
           MarkValid, MarkValidFails, Rollback, RelayCycle, GiveUp, UpdateOk
  <2>4. \/ /\ counter' = counter
           /\ \/ pc = "loop" /\ pc' = "begin"
              \/ pc = "begin" /\ pc' \in {"download", "feedFail"}
              \/ pc = "download" /\ pc' \in {"setBoot", "feedFail"}
              \/ pc = "setBoot" /\ pc' \in {"feedOk", "feedFail"}
              \/ pc = "feedFail" /\ pc' = "delay"
        \/ pc = "delay" /\ pc' = "loop" /\ counter' = counter + 1
    BY <2>3 DEF Step, ArmWatchdog, Begin, DownloadOk, DownloadFails, SetBoot, UpdateFailed, RetryLater
  <2> QED BY <2>1, <2>2, <2>4 DEF StepsLeft
<1> QED BY <1>1, OtaTypeCorrect, PTL DEF Spec, UpdateAdvances

-----------------------------------------------------------------------------
(* How SafeUpdate sees a state whose anchor is s.                          *)
LEMMA Seen == ASSUME TypeOK, NEW s \in Slots, Anchor(s)
              PROVE  /\ Cur = s
                     /\ Kept = IF Bootable(Other(s)) THEN {s, Other(s)} ELSE {s}
                     /\ Trial = IF OnTrial(Other(s)) THEN Other(s) ELSE 2
BY DEF TypeOK, Slots, Other, Anchor, Cur, Kept, Trial, OnTrial, Bootable, Rejected

LEMMA SeenNext == ASSUME TypeOK', NEW s \in Slots, Anchor(s)'
              PROVE  /\ Cur' = s
                     /\ Kept' = IF Bootable(Other(s))' THEN {s, Other(s)} ELSE {s}
                     /\ Trial' = IF OnTrial(Other(s))' THEN Other(s) ELSE 2
<1> DEFINE o == Other(s)
<1>1. o \in Slots /\ o # s /\ Slots = {s, o} /\ Slots = {0, 1} /\ Other(o) = s
  BY DEF Slots, Other
<1>2. Bootable(s)' /\ ~OnTrial(s)' /\ newest' \in Slots
  BY DEF TypeOK, Anchor, Bootable, OnTrial
<1>3. newest' = s \/ (newest' = o /\ ~Bootable(o)')
  BY <1>1, <1>2 DEF Anchor, Bootable, Rejected
<1>4. Cur' = s
  BY <1>1, <1>2, <1>3 DEF Cur
<1>5. Trial' = IF OnTrial(o)' THEN o ELSE 2
  BY <1>1, <1>2 DEF Trial
<1> QED BY <1>1, <1>2, <1>4, <1>5 DEF Kept

LEMMA UpdateSteps == TypeOK /\ TypeOK' /\ BootInv /\ BootInv' /\ [Next]_vars
                       => [Update!Next]_<<Kept, Cur, Trial>>
<1> SUFFICES ASSUME TypeOK, TypeOK', BootInv, BootInv', [Next]_vars
             PROVE  Update!Next \/ UNCHANGED <<Kept, Cur, Trial>>
  OBVIOUS
<1>1. PICK s \in Slots : Anchor(s)
  BY DEF BootInv
<1>2. CASE UNCHANGED <<img, st, newest>>
  BY <1>2 DEF Kept, Cur, Trial, Bootable, OnTrial, Complete
<1> DEFINE o == Other(s)
<1>0. o \in Slots /\ o # s /\ Other(o) = s /\ Slots = {s, o} /\ o # 2 /\ 2 \notin Slots
  BY DEF Slots, Other
<1>a. /\ Cur = s /\ Kept = IF Bootable(o) THEN {s, o} ELSE {s}
      /\ Trial = IF OnTrial(o) THEN o ELSE 2
  BY <1>1, Seen
<1> USE DEF Update!Next, Update!Reject, Update!Confirm, Update!Demote, Update!Erase,
            Update!Refill, Update!Stage
<1>3. CASE Boot
  <2>1. /\ Cur' = s /\ Kept' = IF Bootable(o)' THEN {s, o} ELSE {s}
        /\ Trial' = IF OnTrial(o)' THEN o ELSE 2
    BY <1>1, <1>3, BootOutcome, SeenNext
  <2>2. Bootable(o)' <=> Bootable(o)
    BY <1>1, <1>3, BootOutcome DEF Bootable, Complete
  <2>3. CASE OnTrial(o)' <=> OnTrial(o)
    BY <1>a, <2>1, <2>2, <2>3
  <2>4. CASE ~OnTrial(o)' /\ OnTrial(o)
    BY <1>0, <1>a, <2>1, <2>2, <2>4
  <2>5. OnTrial(o)' => OnTrial(o)
    BY <1>1, <1>3, BootOutcome DEF OnTrial
  <2> QED BY <2>3, <2>4, <2>5
<1>r. PICK r \in Slots : r = run
  BY DEF TypeOK
<1> DEFINE q == Other(r)
<1>b. /\ r = run /\ r \in Slots /\ q \in Slots /\ q # r /\ Other(q) = r /\ Slots = {r, q}
      /\ q # 2 /\ r # 2 /\ st \in [Slots -> OtaState]
  BY <1>r DEF Slots, Other, TypeOK
<1>4. CASE MarkValid
  <2>0. pc = "healthy" /\ st' = [st EXCEPT ![r] = "VALID"] /\ UNCHANGED <<img, newest>>
    BY <1>b, <1>4 DEF MarkValid, Step
  <2>1. CASE st[r] = "VALID"
    <3>1. st' = st
      BY <1>b, <2>0, <2>1
    <3> QED BY <1>2, <2>0, <3>1
  <2>2. CASE st[r] # "VALID"
    <3>1. Anchor(q) /\ st[r] = "PENDING"
      BY <1>b, <2>0, <2>2 DEF BootInv, Anchor, Writing
    <3>2. newest = r /\ Complete(r) /\ ~Bootable(r) /\ OnTrial(r)
      BY <1>b, <3>1 DEF Anchor, Rejected, Bootable, OnTrial
    <3>3. Cur = q /\ Kept = {q} /\ Trial = r
      BY <1>b, <3>1, <3>2, Seen
    <3>4. /\ st'[q] = "VALID" /\ st'[r] = "VALID" /\ Complete(q)' /\ Complete(r)'
          /\ newest' = r
      BY <1>b, <2>0, <3>1, <3>2 DEF Anchor, Complete
    <3>5. Anchor(r)' /\ Bootable(q)' /\ ~OnTrial(q)'
      BY <1>b, <3>4 DEF Anchor, Bootable, OnTrial
    <3>6. Cur' = r /\ Kept' = {r, q} /\ Trial' = 2
      BY <1>b, <3>5, SeenNext
    <3> QED BY <1>b, <3>3, <3>6
  <2> QED BY <1>b, <2>1, <2>2
<1>5. CASE Rollback
  <2>0. pc = "unhealthy" /\ UNCHANGED <<img, newest>>
    BY <1>b, <1>5 DEF Rollback
  <2>1. CASE ~RollbackPossible
    BY <1>2, <1>5, <2>0, <2>1 DEF Rollback
  <2>2. CASE RollbackPossible
    <3>1. st' = [st EXCEPT ![r] = "INVALID"]
      BY <1>b, <1>5, <2>2 DEF Rollback
    <3>2. CASE st[r] = "PENDING"
      <4>1. Anchor(q)
        BY <1>b, <2>0, <3>2 DEF BootInv, Anchor, Writing
      <4>2. OnTrial(r) /\ ~Bootable(r)
        BY <3>2 DEF OnTrial, Bootable
      <4>3. Cur = q /\ Kept = {q} /\ Trial = r
        BY <1>b, <4>1, <4>2, Seen
      <4>4. Anchor(q)' /\ ~Bootable(r)' /\ ~OnTrial(r)'
        BY <1>b, <2>0, <3>1, <4>1 DEF Anchor, Complete, Rejected, Bootable, OnTrial
      <4>5. Cur' = q /\ Kept' = {q} /\ Trial' = 2
        BY <1>b, <4>4, SeenNext
      <4> QED BY <1>b, <4>3, <4>5
    <3>3. CASE st[r] # "PENDING"
      <4>1. Anchor(r) /\ st[q] = "VALID" /\ Complete(q)
        BY <1>b, <2>0, <2>2, <3>3 DEF BootInv, Anchor, Rejected, RollbackPossible
      <4>2. Cur = r /\ Kept = {r, q} /\ Trial = 2
        BY <1>b, <4>1, Seen DEF Bootable, OnTrial
      <4>3. Anchor(q)' /\ ~Bootable(r)' /\ ~OnTrial(r)'
        BY <1>b, <2>0, <3>1, <4>1 DEF Anchor, Complete, Rejected, Bootable, OnTrial
      <4>4. Cur' = q /\ Kept' = {q} /\ Trial' = 2
        BY <1>b, <4>3, SeenNext
      <4> QED BY <1>b, <4>2, <4>4
    <3> QED BY <3>2, <3>3
  <2> QED BY <1>b, <2>1, <2>2
<1>6. CASE Begin
  <2>1. CASE UNCHANGED <<img, st>>
    BY <1>2, <1>6, <2>1 DEF Begin
  <2>2. CASE /\ st[r] # "PENDING" /\ pc = "begin"
             /\ img' = [img EXCEPT ![q] = "partial"] /\ newest' = newest
             /\ st' = IF drops = "yes" THEN [st EXCEPT ![q] = "UNSET"] ELSE st
    <3>1. Anchor(r) /\ st[q] \notin {"NEW", "PENDING"}
      BY <1>b, <2>2 DEF BootInv
    <3>2. Cur = r /\ Trial = 2
      BY <1>b, <3>1, Seen DEF OnTrial
    <3>3. ~Complete(q)' /\ Complete(r)'
      BY <1>b, <2>2, <3>1, ImagesAssumption DEF TypeOK, Complete, Anchor
    <3>4. /\ st'[r] = "VALID" /\ st'[q] \in {"UNSET", st[q]}
          /\ st[q] \in Rejected \/ (st[q] = "VALID" /\ newest = r)
      BY <1>b, <2>2, <3>1 DEF Anchor
    <3>5. Anchor(r)' /\ ~Bootable(q)' /\ ~OnTrial(q)'
      BY <1>b, <2>2, <3>1, <3>3, <3>4 DEF Anchor, Rejected, Bootable, OnTrial
    <3>6. Cur' = r /\ Kept' = {r} /\ Trial' = 2
      BY <1>b, <3>5, SeenNext
    <3> QED BY <3>2, <3>6
  <2> QED BY <1>b, <1>6, <2>1, <2>2 DEF Begin, Step
<1>7. CASE DownloadOk
  <2>1. /\ pc = "download" /\ UNCHANGED <<st, newest>>
        /\ img' = [img EXCEPT ![q] = server] /\ server \in Images
    BY <1>b, <1>7 DEF DownloadOk, Step, TypeOK
  <2>2. Anchor(r) /\ st[q] \notin {"NEW", "PENDING"}
    BY <1>b, <2>1 DEF BootInv, Writing
  <2>3. Anchor(r)' /\ ~OnTrial(q) /\ ~OnTrial(q)' /\ (Bootable(q) => Bootable(q)')
    BY <1>b, <2>1, <2>2 DEF Anchor, Complete, Bootable, OnTrial, TypeOK
  <2>4. Cur = r /\ Trial = 2 /\ Kept = IF Bootable(q) THEN {r, q} ELSE {r}
    BY <1>b, <2>2, <2>3, Seen
  <2>5. Cur' = r /\ Trial' = 2 /\ Kept' = IF Bootable(q)' THEN {r, q} ELSE {r}
    BY <1>b, <2>3, SeenNext
  <2>6. Kept' = Kept \/ Kept' = Kept \union {q}
    BY <2>3, <2>4, <2>5
  <2> QED BY <1>b, <2>4, <2>5, <2>6
<1>8. CASE SetBoot
  <2>1. /\ pc = "setBoot" /\ UNCHANGED img /\ newest' = q
        /\ st' = [st EXCEPT ![q] = "NEW"]
    BY <1>b, <1>8 DEF SetBoot, Step
  <2>2. Anchor(r) /\ st[q] \notin {"NEW", "PENDING"} /\ Complete(q)
    BY <1>b, <2>1 DEF BootInv, Writing
  <2>3. Anchor(r)' /\ ~OnTrial(q) /\ OnTrial(q)' /\ ~Bootable(q)'
    BY <1>b, <2>1, <2>2 DEF Anchor, Complete, Bootable, OnTrial
  <2>4. Cur = r /\ Trial = 2 /\ Kept = IF Bootable(q) THEN {r, q} ELSE {r}
    BY <1>b, <2>2, <2>3, Seen
  <2>5. Cur' = r /\ Trial' = q /\ Kept' = {r}
    BY <1>b, <2>3, SeenNext
  <2>6. Kept' = Kept \ {q}
    BY <1>b, <2>4, <2>5
  <2> QED BY <1>b, <2>4, <2>5, <2>6
<1> QED
  BY <1>2, <1>3, <1>4, <1>5, <1>6, <1>7, <1>8
     DEF vars, Next, App, World, Restart, SoftRestart, flash, HealthCheckup, OtaInitOk,
         OtaInitFails, ConnectOk, ConnectFails, SystemInitOk, SystemInitFails,
         MarkValidFails, RelayCycle, ArmWatchdog, GiveUp, DownloadFails, UpdateOk,
         UpdateFailed, RetryLater, WatchdogFires, TaskPanics, PowerCut, Panic, Strike,
         Release

(* The device updates as SafeUpdate says, for any images, any number of    *)
(* releases, attempts and faults, and whichever way the library treats the *)
(* entry of an erased slot (main.c:129-169, ota.c:125-141).                *)
THEOREM Refinement == Spec => ImplementsSafeUpdate
<1>1. Init => Update!Init
  BY ImagesAssumption DEF Init, Update!Init, Cur, Kept, Trial, Bootable, OnTrial, Complete,
     Slots, Other
<1>2. TypeOK /\ TypeOK' /\ BootInv /\ BootInv' /\ [Next]_vars
        => [Update!Next]_<<Kept, Cur, Trial>>
  BY UpdateSteps
<1> QED BY <1>1, <1>2, OtaTypeCorrect, BootInvariant, PTL
        DEF Spec, ImplementsSafeUpdate, Update!Spec

=============================================================================

---------------------------- MODULE Bme280Proofs ----------------------------
(* Proofs about Bme280, for any number of polls. *)
EXTENDS Bme280, TLAPS

(* What a write leaves in the registers are registers. *)
LEMMA TakenTypes == ASSUME TypeOK, NEW p \in Transfers PROVE Taken(p) \in Registers
BY DEF TypeOK, Taken, Registers, PowerOn, Transfers, Writes

\* The polls are counted up to the limit.
PollInv == pc = "poll" => polls < Tries

(* Every variable of the sensor and its driver keeps its type.             *)
THEOREM SensorTypeCorrect == Spec => []TypeOK
<1>1. Init => TypeOK /\ PollInv
  BY TriesAssumption DEF Init, TypeOK, PollInv, PC, Registers, PowerOn
<1>2. TypeOK /\ PollInv /\ [Next]_vars => (TypeOK /\ PollInv)'
  <2> SUFFICES ASSUME TypeOK, PollInv, [Next]_vars PROVE (TypeOK /\ PollInv)'
    OBVIOUS
  <2> USE TriesAssumption, TakenTypes
      DEF TypeOK, PollInv, PC, Transfers, Writes, Failed, driver, wires, fails, Answered, Go, Local
  <2>1. CASE MakeBus BY <2>1 DEF MakeBus
  <2>2. CASE AddDevice BY <2>2 DEF AddDevice
  <2>3. ASSUME NEW err \in Errors, TransferFails(err) PROVE (TypeOK /\ PollInv)'
    <3>1. regs' \in Registers /\ errors' \in 0..2 /\ refused' \in {"yes", "no"}
      BY <2>3 DEF TransferFails, Transferring
    <3>2. pc' \in PC /\ attempt' \in {"first", "again"} /\ polls' \in 0..Tries
            /\ line' \in {"free", "stuck"} /\ PollInv'
      BY <2>3 DEF TransferFails, Transferring, Repeat, GiveUp
    <3> QED BY <2>3, <3>1, <3>2 DEF TransferFails
  <2>4. CASE ReadId BY <2>4 DEF ReadId
  <2>5. CASE WriteReset BY <2>5 DEF WriteReset
  <2>6. CASE PollStatus BY <2>6 DEF PollStatus
  <2>7. CASE ReadCalibration BY <2>7 DEF ReadCalibration, Bytes
  <2>8. CASE ReadCalibrationH1 BY <2>8 DEF ReadCalibrationH1, Bytes
  <2>9. CASE ReadCalibrationH2 BY <2>9 DEF ReadCalibrationH2, Bytes
  <2>10. CASE WriteMeasSleep BY <2>10 DEF WriteMeasSleep, Write
  <2>11. CASE WriteConfig BY <2>11 DEF WriteConfig, Write
  <2>12. CASE WriteHum BY <2>12 DEF WriteHum, Write
  <2>13. CASE WriteMeasNormal BY <2>13 DEF WriteMeasNormal, Write
  <2>14. CASE TaskStarts BY <2>14 DEF TaskStarts
  <2>15. CASE ReadValues BY <2>15 DEF ReadValues
  <2>16. CASE Posted BY <2>16 DEF Posted
  <2>17. CASE Delay BY <2>17 DEF Delay
  <2>18. CASE Reboot BY <2>18 DEF Reboot
  <2>19. CASE Sensor
    BY <2>19 DEF Sensor, CopyDone, Hang, PowerFails, PowerReturns, Calm, Registers, PowerOn
  <2>20. CASE UNCHANGED vars BY <2>20 DEF vars
  <2> QED BY <2>1, <2>2, <2>3, <2>4, <2>5, <2>6, <2>7, <2>8, <2>9, <2>10, <2>11, <2>12,
             <2>13, <2>14, <2>15, <2>16, <2>17, <2>18, <2>19, <2>20 DEF Next, Processor
<1>3. QED BY <1>1, <1>2, PTL DEF Spec

-----------------------------------------------------------------------------
(* Repeating a write that was taken does no harm: what holds before a      *)
(* transfer holds after its failure, whether the sensor took it or not.    *)
LEMMA FailureKeepsInv ==
  ASSUME TypeOK, SensorInv, NEW err \in Errors, TransferFails(err) PROVE SensorInv'
<1> USE TriesAssumption
    DEF AfterReset, AfterPoll, AfterCalib, Running, Transfers, Writes, Failed
<1>1. /\ errors' = IF errors < 2 THEN errors + 1 ELSE 2
      /\ refused' = IF err \in Repeatable THEN refused ELSE "yes"
  BY DEF TransferFails
<1>2. regs' = regs \/ (regs' = Taken(pc) /\ pc \in Transfers)
  BY DEF TransferFails, Transferring
<1>3. UNCHANGED <<dev, kind, buf, cal, chip, power, calm, steady>> /\ pc \in Transfers
  BY DEF TransferFails, Transferring, wires
<1>4. CASE Repeat(err)
  <2>1. /\ UNCHANGED <<pc, polls>> /\ attempt' = "again" /\ errors' >= 1 /\ dev = "set"
        /\ errors' >= errors /\ refused' = refused
    BY <1>1, <1>4 DEF Repeat, TypeOK, TransferFails, Transferring
  <2>2. CASE regs' = regs
    BY <1>3, <2>1, <2>2 DEF SensorInv, Configured, InitSurvivesTimeout, TypeOK
  <2>3. CASE regs' = Taken(pc)
    BY <1>3, <2>1, <2>3
       DEF SensorInv, Configured, InitSurvivesTimeout, Taken, TypeOK, Registers, PowerOn
  <2> QED BY <1>2, <2>2, <2>3
<1>5. CASE GiveUp(err)
  BY <1>1, <1>2, <1>3, <1>5
     DEF GiveUp, SensorInv, Configured, InitSurvivesTimeout, Taken, TypeOK, Registers, PowerOn
<1> QED BY <1>4, <1>5 DEF TransferFails

(* The inductive invariant of bme280_init: after the reset of the sensor   *)
(* each step finds what the steps before it have written.                  *)
THEOREM SensorInvariant == Spec => []SensorInv
<1>1. Init => SensorInv
  BY DEF Init, SensorInv, InitSurvivesTimeout, AfterReset, AfterPoll, AfterCalib, Running,
         Failed
<1>2. TypeOK /\ SensorInv /\ [Next]_vars => SensorInv'
  <2> SUFFICES ASSUME TypeOK, SensorInv, [Next]_vars PROVE SensorInv'
    OBVIOUS
  <2>1. ASSUME NEW err \in Errors, TransferFails(err) PROVE SensorInv'
    BY <2>1, FailureKeepsInv
  <2> USE TriesAssumption
      DEF SensorInv, TypeOK, Registers, PowerOn, Configured, InitSurvivesTimeout,
          AfterReset, AfterPoll, AfterCalib, Running, Transfers, Writes, Failed,
          driver, wires, fails, Answered, Go, Local, Taken
  <2>2. CASE MakeBus BY <2>2 DEF MakeBus
  <2>3. CASE AddDevice BY <2>3 DEF AddDevice
  <2>4. CASE ReadId BY <2>4 DEF ReadId
  <2>5. CASE WriteReset BY <2>5 DEF WriteReset
  <2>6. CASE PollStatus BY <2>6 DEF PollStatus
  <2>7. CASE ReadCalibration BY <2>7 DEF ReadCalibration, Bytes
  <2>8. CASE ReadCalibrationH1 BY <2>8 DEF ReadCalibrationH1, Bytes
  <2>9. CASE ReadCalibrationH2 BY <2>9 DEF ReadCalibrationH2, Bytes
  <2>10. CASE WriteMeasSleep BY <2>10 DEF WriteMeasSleep, Write
  <2>11. CASE WriteConfig BY <2>11 DEF WriteConfig, Write
  <2>12. CASE WriteHum BY <2>12 DEF WriteHum, Write
  <2>13. CASE WriteMeasNormal BY <2>13 DEF WriteMeasNormal, Write
  <2>14. CASE TaskStarts BY <2>14 DEF TaskStarts
  <2>15. CASE ReadValues BY <2>15 DEF ReadValues
  <2>16. CASE Posted BY <2>16 DEF Posted
  <2>17. CASE Delay BY <2>17 DEF Delay
  <2>18. CASE Reboot BY <2>18 DEF Reboot
  <2>19. CASE CopyDone BY <2>19 DEF CopyDone
  <2>20. CASE Hang BY <2>20 DEF Hang
  <2>21. CASE PowerFails BY <2>21 DEF PowerFails
  <2>22. CASE PowerReturns BY <2>22 DEF PowerReturns
  <2>23. CASE Calm BY <2>23 DEF Calm
  <2>24. CASE UNCHANGED vars BY <2>24 DEF vars
  <2> QED BY <2>1, <2>2, <2>3, <2>4, <2>5, <2>6, <2>7, <2>8, <2>9, <2>10, <2>11, <2>12,
             <2>13, <2>14, <2>15, <2>16, <2>17, <2>18, <2>19, <2>20, <2>21, <2>22, <2>23,
             <2>24 DEF Next, Processor, Sensor
<1>3. QED BY <1>1, <1>2, SensorTypeCorrect, PTL DEF Spec

(* Every value posted since the sensor was reset, with its supply steady,  *)
(* was measured as configured and compensated with a whole calibration     *)
(* (bme280.c:253-302).                                                     *)
THEOREM PostsAreMeasuredHolds == Spec => []PostsAreMeasured
<1>1. SensorInv => PostsAreMeasured
  BY DEF SensorInv, PostsAreMeasured, AfterCalib, AfterPoll, AfterReset, Running
<1> QED BY <1>1, SensorInvariant, PTL

(* A transfer that timed out and was answered when repeated never fails    *)
(* system_init: a boot of the right chip fails after two errors or after   *)
(* one that is not repeated (bme280.c:99, 114).                            *)
THEOREM InitSurvivesTimeoutHolds == Spec => []InitSurvivesTimeout
<1>1. SensorInv => InitSurvivesTimeout
  BY DEF SensorInv
<1> QED BY <1>1, SensorInvariant, PTL
=============================================================================

------------------------------- MODULE Bme280 -------------------------------
(***************************************************************************)
(* The BME280 on its I2C bus: i2c_master_init and bme280_init, which       *)
(* system_init calls at boot, and bme280_task (bme280.c).  The sensor      *)
(* (external) keeps its registers when the processor restarts and loses    *)
(* them when its supply drops.  A transfer may be answered, or fail with   *)
(* its write taken or not.  After a time-out or an invalid state the bus   *)
(* is reset and the transfer repeated once; any other error is returned.   *)
(***************************************************************************)
EXTENDS Naturals

CONSTANT Tries    \* polls of the status register (bme280.c:242: 20)

ASSUME TriesAssumption == Tries \in Nat \ {0}

VARIABLES
  \* the processor
  pc,       \* the transfer, or the step between transfers
  attempt,  \* of the transfer: "first" or "again"
  polls,    \* polls of the status register made
  dev,      \* s_i2c_dev: "null" or "set"
  kind,     \* s_is_bme280: "bme" or "bmp"
  buf,      \* the calibration bytes read: "good", or "torn" by the NVM copy
  cal,      \* the calibration: "none", "good" or "torn"
  \* the sensor and the wires
  chip,     \* which chip is mounted: "bme", "bmp" or "other"
  regs,     \* its registers
  power,    \* its supply: "on" or "off"
  line,     \* the bus: "free" or "stuck"
  calm,     \* "yes" once nothing disturbs the sensor any more
  \* history
  errors,   \* transfers that went wrong since the boot, up to 2
  refused,  \* was one of them refused, with an error that is not repeated?
  steady    \* has the supply held since the reset of the sensor?

driver == <<attempt, polls, dev, kind, buf, cal>>
wires  == <<chip, power, calm>>
fails  == <<errors, refused>>
vars   == <<pc, attempt, polls, dev, kind, buf, cal, chip, regs, power, line,
            calm, errors, refused, steady>>

\* What the sensor knows after power-on or after a reset command.  "hum" is
\* what was written to CTRL_HUM, "latched" what is in force: a write to
\* CTRL_MEAS takes it over.
PowerOn == [nvm |-> "copying", mode |-> "sleep", config |-> "default",
            hum |-> "off", latched |-> "off"]
Registers == [nvm : {"copying", "ready"}, mode : {"sleep", "normal"},
              config : {"default", "set"}, hum : {"off", "x1"}, latched : {"off", "x1"}]

Writes    == {"reset", "measSleep", "config", "hum", "measNormal"}
Transfers == Writes \union {"id", "poll", "calib", "calibH1", "calibH2", "read"}
Failed    == {"noBus", "failed"}
PC        == Transfers \union Failed \union {"bus", "ready", "post", "wait"}

Init ==
  /\ pc = "bus" /\ attempt = "first" /\ polls = 0 /\ dev = "null"
  /\ kind = "bme" /\ buf = "good" /\ cal = "none"
  /\ chip \in {"bme", "bmp", "other"} /\ regs = PowerOn /\ power = "on"
  /\ line \in {"free", "stuck"} /\ calm = "no" /\ errors = 0
  /\ refused = "no" /\ steady = "no"

-----------------------------------------------------------------------------
(***************************************************************************)
(* The bus and the device on it.                                           *)
(***************************************************************************)
MakeBus ==
  /\ pc = "bus" /\ pc' \in {"id", "noBus"}
  /\ UNCHANGED <<driver, regs, line, wires, fails, steady>>
\* bme280_select_device: there is one address, so one device is added, once.
AddDevice ==
  /\ pc = "id" /\ dev = "null"
  /\ \/ dev' = "set" /\ UNCHANGED pc
     \/ calm = "no" /\ pc' = "noBus" /\ UNCHANGED dev
  /\ UNCHANGED <<attempt, polls, kind, buf, cal, regs, line, wires, fails, steady>>

\* What the registers are once the write of step p is taken.
Taken(p) ==
  CASE p = "reset"      -> PowerOn
    [] p = "measSleep"  -> [regs EXCEPT !.mode = "sleep", !.latched = regs.hum]
    [] p = "config"     -> [regs EXCEPT !.config = IF regs.mode = "sleep" THEN "set" ELSE @]
    [] p = "hum"        -> [regs EXCEPT !.hum = "x1"]
    [] p = "measNormal" -> [regs EXCEPT !.mode = "normal", !.latched = regs.hum]
    [] OTHER            -> regs

Transferring == pc \in Transfers /\ dev = "set"
Answered(p)  == /\ pc = p /\ dev = "set" /\ line = "free" /\ power = "on"
                /\ attempt' = "first" /\ regs' = Taken(p)
                /\ UNCHANGED <<dev, line, wires, fails>>

\* The errors of the driver: those of bme280.c:99 and 114, ESP_ERR_TIMEOUT
\* and ESP_ERR_INVALID_STATE, and all others, such as a missing acknowledgement.
Repeatable == {"TIMEOUT", "INVALID_STATE"}
Errors     == Repeatable \union {"OTHER"}
\* Mutant: the transfer is repeated on the bus as it is.
RepeatAsIs(err) == /\ attempt = "first" /\ err \in Repeatable /\ attempt' = "again"
                   /\ UNCHANGED <<pc, polls, line>>
\* The first attempt fails: the bus is reset and the transfer repeated.
Repeat(err) == /\ attempt = "first" /\ err \in Repeatable /\ attempt' = "again"
               /\ line' = "free" /\ UNCHANGED <<pc, polls>>
\* Mutant: it is not repeated.
GiveUpAtOnce(err) == /\ attempt' = "first" /\ UNCHANGED <<line, polls>>
                     /\ pc' = IF pc = "read" THEN "wait" ELSE "failed"
\* The error is another one, or the second attempt fails too.
\* Initialisation ends, except for a poll; the task skips the reading.
GiveUp(err) == /\ attempt = "again" \/ err \notin Repeatable
               /\ attempt' = "first" /\ UNCHANGED line
               /\ polls' = IF pc = "poll" THEN polls + 1 ELSE polls
               /\ pc' = CASE pc = "read" -> "wait"
                          [] pc = "poll" /\ polls + 1 < Tries -> "poll"
                          [] OTHER -> "failed"
\* A stuck bus is found out by waiting; what else goes wrong may be reported
\* in any way.
TransferFails(err) ==
  /\ Transferring
  /\ \/ line = "stuck" /\ err \in Repeatable
     \/ power = "off" \/ calm = "no"
  /\ regs' \in IF line = "free" /\ power = "on" THEN {regs, Taken(pc)} ELSE {regs}
  /\ errors' = IF errors < 2 THEN errors + 1 ELSE 2
  /\ refused' = IF err \in Repeatable THEN refused ELSE "yes"
  /\ Repeat(err) \/ GiveUp(err)
  /\ UNCHANGED <<dev, kind, buf, cal, wires, steady>>

-----------------------------------------------------------------------------
(***************************************************************************)
(* bme280_init                                                             *)
(***************************************************************************)
ReadId ==
  /\ Answered("id") /\ kind' = IF chip = "other" THEN kind ELSE chip
  /\ pc' = IF chip = "other" THEN "failed" ELSE "reset"
  /\ UNCHANGED <<polls, buf, cal, steady>>

WriteReset ==
  /\ Answered("reset") /\ pc' = "poll" /\ polls' = 0 /\ steady' = "yes"
  /\ UNCHANGED <<kind, buf, cal>>
\* Mutant: the polls are not counted.
PollForever ==
  /\ Answered("poll")
  /\ \/ regs.nvm = "ready" /\ pc' = "calib" /\ UNCHANGED polls
     \/ regs.nvm = "copying" /\ polls' = polls + 1 /\ UNCHANGED pc
  /\ UNCHANGED <<kind, buf, cal, steady>>
\* The copy takes 2 ms, far less than all the polls: the last one waits for it.
PollStatus ==
  /\ Answered("poll")
  /\ \/ regs.nvm = "ready" /\ pc' = "calib" /\ UNCHANGED polls
     \/ regs.nvm = "copying" /\ polls + 1 < Tries /\ polls' = polls + 1 /\ UNCHANGED pc
  /\ UNCHANGED <<kind, buf, cal, steady>>

\* Three reads into local buffers, or one without humidity; only then the
\* static calibration is assigned.
Bytes(b) == IF regs.nvm = "copying" THEN "torn" ELSE b
ReadCalibration ==
  /\ Answered("calib") /\ buf' = Bytes("good")
  /\ IF kind = "bme" THEN pc' = "calibH1" /\ UNCHANGED cal
                     ELSE pc' = "measSleep" /\ cal' = buf'
  /\ UNCHANGED <<polls, kind, steady>>
ReadCalibrationH1 ==
  /\ Answered("calibH1") /\ buf' = Bytes(buf) /\ pc' = "calibH2"
  /\ UNCHANGED <<polls, kind, cal, steady>>
ReadCalibrationH2 ==
  /\ Answered("calibH2") /\ buf' = Bytes(buf) /\ cal' = buf' /\ pc' = "measSleep"
  /\ UNCHANGED <<polls, kind, steady>>

Write(p, next) ==
  Answered(p) /\ pc' = next /\ UNCHANGED <<polls, kind, buf, cal, steady>>
\* CTRL_HUM is written before CTRL_MEAS, to take effect.
WriteMeasSleep  == Write("measSleep", "config")
\* Mutant: CTRL_HUM is forgotten.
WriteConfigOnly == Write("config", "measNormal")
WriteConfig     == Write("config", IF kind = "bme" THEN "hum" ELSE "measNormal")
WriteHum        == Write("hum", "measNormal")
WriteMeasNormal == Write("measNormal", "ready")

-----------------------------------------------------------------------------
(***************************************************************************)
(* bme280_task, and the restarts of the processor.                         *)
(***************************************************************************)
Go(from, to) == pc = from /\ pc' = to
Local == UNCHANGED <<driver, regs, line, wires, fails, steady>>

TaskStarts == Go("ready", "read") /\ Local
ReadValues == Answered("read") /\ pc' = "post" /\ UNCHANGED <<polls, kind, buf, cal, steady>>
\* bme_send_to_influx returns; nobody looks at its result.
Posted     == Go("post", "wait") /\ Local
Delay      == Go("wait", "read") /\ Local

\* system_init failed, or the processor restarts for any other reason, in
\* the middle of a transfer if need be.  The sensor knows nothing of it.
Reboot ==
  /\ pc \in Failed \/ calm = "no"
  /\ pc' = "bus" /\ attempt' = "first" /\ polls' = 0 /\ dev' = "null"
  /\ kind' = "bme" /\ buf' = "good" /\ cal' = "none" /\ errors' = 0
  /\ refused' = "no" /\ steady' = "no"
  /\ line' \in IF pc \in Transfers THEN {line, "stuck"} ELSE {line}
  /\ UNCHANGED <<regs, wires>>

-----------------------------------------------------------------------------
(***************************************************************************)
(* The sensor and what happens to it.                                      *)
(***************************************************************************)
CopyDone ==
  /\ regs.nvm = "copying" /\ power = "on" /\ regs' = [regs EXCEPT !.nvm = "ready"]
  /\ UNCHANGED <<pc, driver, line, wires, fails, steady>>
Hang ==
  /\ calm = "no" /\ line' = "stuck"
  /\ UNCHANGED <<pc, driver, regs, wires, fails, steady>>
PowerFails ==
  /\ calm = "no" /\ power = "on" /\ power' = "off" /\ steady' = "no"
  /\ UNCHANGED <<pc, driver, regs, line, chip, calm, fails>>
PowerReturns ==
  /\ power = "off" /\ power' = "on" /\ regs' = PowerOn
  /\ UNCHANGED <<pc, driver, line, chip, calm, fails, steady>>
Calm ==
  /\ power = "on" /\ calm' = "yes"
  /\ UNCHANGED <<pc, driver, regs, line, chip, power, fails, steady>>

Processor ==
  \/ MakeBus \/ AddDevice \/ \E err \in Errors : TransferFails(err)
  \/ ReadId \/ WriteReset \/ PollStatus
  \/ ReadCalibration \/ ReadCalibrationH1 \/ ReadCalibrationH2
  \/ WriteMeasSleep \/ WriteConfig \/ WriteHum \/ WriteMeasNormal
  \/ TaskStarts \/ ReadValues \/ Posted \/ Delay
Sensor == CopyDone \/ Hang \/ PowerFails \/ PowerReturns \/ Calm

Next == Processor \/ Reboot \/ Sensor

Spec == Init /\ [][Next]_vars

(* The processor runs, the sensor finishes its copy, a failed boot ends in *)
(* a restart, and of the boots not every one is refused its bus.           *)
FairSpec ==
  /\ Spec /\ WF_vars(Processor) /\ WF_vars(CopyDone)
  /\ WF_vars(pc \in Failed /\ Reboot) /\ SF_vars(MakeBus /\ pc' = "id")

-----------------------------------------------------------------------------
TypeOK ==
  /\ pc \in PC /\ attempt \in {"first", "again"} /\ polls \in 0..Tries
  /\ dev \in {"null", "set"} /\ kind \in {"bme", "bmp"}
  /\ buf \in {"good", "torn"} /\ cal \in {"none", "good", "torn"}
  /\ chip \in {"bme", "bmp", "other"} /\ regs \in Registers
  /\ power \in {"on", "off"} /\ line \in {"free", "stuck"} /\ calm \in {"yes", "no"}
  /\ errors \in 0..2 /\ refused \in {"yes", "no"} /\ steady \in {"yes", "no"}

\* The sensor measures as bme280_init means it to.
Configured ==
  /\ regs.mode = "normal" /\ regs.config = "set"
  /\ kind = "bme" => regs.latched = "x1"

(* Unless the supply of the sensor failed after its reset, every value     *)
(* posted was measured in the intended configuration and compensated with  *)
(* a calibration read after the NVM copy, however often transfers were     *)
(* repeated and the processor restarted (bme280.c:253-302, 372-375).       *)
PostsAreMeasured ==
  pc = "post" /\ steady = "yes" => Configured /\ cal = "good" /\ kind = chip

(* One transfer that times out, at any step and whether its write was      *)
(* taken or not, never makes system_init fail, and so never restarts or    *)
(* rolls back the image: it takes two failures, an error that is not       *)
(* repeated, or another chip (bme280.c:99, 114, 242-251, main.c:103).      *)
InitSurvivesTimeout ==
  pc = "failed" => errors >= 2 \/ refused = "yes" \/ chip = "other"

(* The inductive invariant of the two.                                     *)
AfterReset == {"poll", "calib", "calibH1", "calibH2", "measSleep", "config", "hum",
               "measNormal", "ready", "read", "post", "wait"}
AfterPoll  == AfterReset \ {"poll"}
AfterCalib == AfterPoll \ {"calib", "calibH1", "calibH2"}
Running    == {"ready", "read", "post", "wait"}
SensorInv ==
  /\ attempt = "again" => errors >= 1 /\ pc \in Transfers /\ dev = "set"
  /\ pc = "poll" => polls < Tries
  /\ pc \in AfterReset \union {"reset"} => kind = chip
  /\ steady = "yes" =>
       /\ power = "on" /\ pc \in AfterReset \union Failed
       /\ pc \in AfterPoll => regs.nvm = "ready"
       /\ pc \in {"calibH1", "calibH2"} => buf = "good"
       /\ pc \in AfterCalib => cal = "good"
       /\ pc \in {"config", "hum"} => regs.mode = "sleep"
       /\ pc \in {"hum", "measNormal"} \union Running => regs.config = "set"
       /\ pc \in {"measNormal"} \union Running /\ kind = "bme" => regs.hum = "x1"
       /\ pc \in Running => Configured
  /\ InitSurvivesTimeout

(* Once nothing disturbs the sensor any more, readings come for good, also *)
(* if that leaves the bus stuck or the boot failed (bme280.c:99-102).      *)
ReadingsResume == <>(calm = "yes" /\ chip # "other") => []<>(pc = "post")
=============================================================================

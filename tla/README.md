# A verification project for esp32-ota-github

The firmware of this repository runs on an ESP32 that reads a Victron solar
charger over BLE and a BME280 over I2C, posts both to InfluxDB over WiFi, and
once an hour switches the relay that powers its own access point off and on
again and then updates itself over the air. It is unattended: what matters is
that it never stops for good and never bricks itself. This directory holds TLA+
models of the parts that decide that, the TLC runs that check them, and TLAPS
proofs about them.

Contents: [the system](#1-the-system), [the modules](#2-the-modules),
[the runs](#3-the-runs), [fairness](#4-fairness), [the proofs](#5-the-proofs),
[what is assumed of ESP-IDF](#6-assumptions-about-external-code),
[disagreements found](#7-disagreements-between-the-code-and-what-is-said-of-it),
[what is left out](#8-what-is-not-modelled), [the plan](#9-the-plan).

## 1. The system

`src/main` is the firmware (C, ESP-IDF, FreeRTOS, nimble). `src/udp_server` is
a small FastAPI program with a web page that would receive its log. `common.h` defines
`ISLA_VEGA`, so `RELAY_OFF_MS` is 60 minutes; in the other branch (the test
build) it is seconds, and what is said below of the off time does not hold.

| Component | State it keeps | Operations | Talks to |
|---|---|---|---|
| WiFi connection (`wifi.c`) | two semaphore pointers, `s_retry_num`, which handlers are registered; behind it the driver | connect and wait, disconnect, connect if needed, four event handlers, shutdown | called by `main.c` and `gpio.c`; the event task calls the handlers |
| Boot and health check (`main.c`) | the OTA state of the running image, the reset reason | health check, confirm, roll back, create the tasks | WiFi, OTA, every task |
| OTA update (`ota.c`) | the attempt counter; behind it two flash slots and otadata | up to ten watched downloads, restart | RTC watchdog, WiFi, bootloader |
| RTC watchdog (`wtd.c`) | armed or not | arm for two minutes, feed and disable | OTA |
| Relay task (`gpio.c`) | the relay, four task handles | on, connect, disconnect, off, on, delete the tasks, connect, update | all of the above |
| Log multiplexer (`vprintf.c`, `uart.c`) | the transmit mutexes of two UARTs | write each line to both | every task |
| BLE scan and task (`victron_ble.c`, `ble_task.c`) | `ble_state`, the key, the time of the last processed frame | initialise, start the scan, GAP and host callbacks, data callback | nimble's host task, metrics |
| Victron decryption, parser | the AES key | split a container, decrypt, read bit fields, choose a bit order | BLE task |
| BME280 (`bme280.c`) | calibration, what the sensor has been configured to | initialise, read with retry and bus reset | I2C, metrics |
| Metrics (`metrics_task.c`) | an error counter | post three kinds of record, test the connection | BLE task, BME280 task, WiFi |
| UDP log client (`udp_client.c`) | a ring buffer | enqueue, send | not started in this build |
| LED, clock | - | blink; SNTP (disabled) | - |
| UDP log server and page (`udp_server/app`) | a SQLite table, a listener thread; the rows shown and the requests open | receive and insert, list, delete, start, stop; fetch, render, clear | the client |

What is hard, and what correctness is in each part:

* **WiFi.** Three actors without a lock: the caller, the event task and the
  driver. The caller deletes semaphores that the handlers test and give; the
  counter it judges by is written by both; handlers outlive the call that
  registered them. Correct: nobody waits for ever on `portMAX_DELAY`; `ESP_OK`
  means connected; errors are returned and do not abort; the cycle goes on.
* **Boot and update.** Power may fail, or the watchdog fire, between any two
  steps. Correct: a confirmed and intact image is always there, no rejected
  image is booted, an update ends, and a good release is reached whatever bad
  ones went before.
* **Relay and deletion.** `vTaskDelete` strikes a task wherever it is, with the
  mutexes it holds. A handle may be null or stale. Correct: the relay task
  survives the deletions and comes to the update.
* **BLE.** A scan flag with two writers in two tasks, host resets at any
  moment, callbacks that run before the task has finished its initialisation.
  Correct: a discovery is never started twice, listening resumes, frames are
  posted.
* **BME280.** Transfers that fail and are repeated after they were taken; a sensor that
  survives the restarts of the processor and loses its registers when only its own
  supply drops. Correct: what is posted was measured as configured; one time-out does not fail the
  boot; readings resume.
* **Decryption, parser.** Three lengths (arrived, padded, decrypted) that must not be
  confused; 89 bits in a text counted in bytes; a second attempt in the other bit
  order when a voltage looks wrong. Correct: what is posted is what the charger sent,
  and no plausible report is lost.
* **Metrics.** Three senders in three tasks, one of them inside nimble's callback; six ways out of
  each; a link and a server that fail at any moment, also after the record was stored. Correct: nothing
  allocated is kept, every loss that is seen is counted and reported, the callback comes back.
* **UDP log client.** A ring buffer that frees its room in order only, and error paths that keep an
  item. Correct: the room is taken by what is still to be sent, and every line is taken out in the end.
* **UDP log server and page.** A thread that may die while the rest goes on, a process that may end
  between receiving and committing, a page whose requests overtake one another. Correct: rows
  and ids survive everything but a DELETE, and the page ends up showing the table.

`PROJECT.json` lists the hazards with the line where each bites and the
properties that watch it.

## 2. The modules

```
 WifiConn  <- MCWifiConn, WifiConnProofs
 OtaBoot   <- MCOtaBoot, OtaBootProofs      OtaBoot refines SafeUpdate
 TaskStop  <- MCTaskStop, TaskStopProofs
 Bme280    <- MCBme280, Bme280Proofs
 BleScan   <- MCBleScan
 VictronFrame <- MCVictronFrame, VictronFrameProofs

 Telemetry = BleScan + Metrics       <- MCTelemetry, TelemetryProofs
                                     Telemetry refines BleScan and Metrics
 LogPath   = SyslogClient + UdpLog   <- MCLogPath, LogPathProofs
                                     LogPath refines MessageLog

 NatLemmas: what VictronFrameProofs and LogPathProofs need about numbers
```

Each component is one module with its own properties; two modules compose components that interact; the `MC` module is what
TLC runs, the `Proofs` module holds the theorems (those about BleScan and Metrics are in TelemetryProofs, which
needs them). Definitions keep the names of
the code or are commented with the line they stand for; mutants, named for the
mistake they make, stand before the definition they change.

The models meet where one module hands over to the next, and are cut there:
the relay task's cycle and its connections are in WifiConn, its deletions in
TaskStop (`pc = "off"` to `"connect"`), and `execute_ota` in OtaBoot (`RelayCycle`
is the whole cycle there). BleScan only knows whether a frame decodes; VictronFrame is
the callback that decodes it (`DataCallback` there). A reset is the end of each of them and starts it again.

### WifiConn (`wifi.c`, with `gpio.c` and `main.c` as its callers)

State: `op`, `pc`, `ret`, `relay` are the caller; `s4`, `s6`, `retry` are the
statics of `wifi.c:7-10`; `handlers`, `hpc`, `reg`, `ev` are the event loop, one
handler at a time; `drv`, `ip4`, `ll` are the driver and the interface; `got`
is history. A semaphore is `"null"`, `"empty"`, `"full"` or `"dead"`, a pointer
left behind by `vSemaphoreDelete`.

The caller's steps are those of `custom_wifi_sta_do_connect` between two accesses
of shared state: create, create, zero the counter, register, configure, connect,
take, delete, null, take, delete, null, judge. The sequence of calls is the
one `app_main` and `relay_task` make: `init`, then either straight to OTA or
`connect`, `disconnect`, off, on, `ota`. The disconnect handler is cut into the load of
`s_retry_num` and its store, the test of each semaphore and its give, and the
unregistration: `s_retry_num++` is not atomic and the test and the give are not
one step. Registering and unregistering wait for the handler that is running
(`hpc = "idle"`), since esp_event holds its mutex during a handler.

A give to a dead semaphore is undefined behaviour: it is lost or the device
panics (`pc = "fault"`); both are branches of `Give4` and `Give6`.

*What holds*: `WakeIsOwed` - nobody sleeps on a semaphore that nobody is left to give,
in any interleaving, even with stale handlers. `FreshResult`, `FreshNeverAborts` -
for the calls made with no stale handlers about (`init`, and `ota` after the off
time, which is the one that decides whether the update runs) the result is true and
nothing aborts. `OffLeavesNoHandler` explains why the second is such a call: an access
point without power for an hour uses up every retry, and a handler that gives up
unregisters itself. *What does not*: `OkMeansConnected` and `ErrorsAreReturned` for
the other calls (section 7).

### SafeUpdate and OtaBoot (`main.c`, `ota.c`, `wtd.c`)

SafeUpdate is the promise in thirty lines: some slots hold images to fall back
to, one is to be booted, at most one is on trial; the last fallback is never
given up. OtaBoot is the firmware: `img`, `st`, `newest` are the flash (two slots,
their otadata states, which entry is newer), `run`, `reason`, `pc`, `counter`,
`wdt` the processor, `drops` a property of the library (below), `server` the release on offer, `tested`
history: the slots whose content has passed `system_init`. `Boot` is the
bootloader; `HealthCheckup` to `Rollback` are `app_main`; `ArmWatchdog` to
`RetryLater` are `execute_ota`; `WatchdogFires`, `TaskPanics`, `PowerCut`, `Panic` strike from
outside, and `Release` changes the server. `img` is `"partial"` from `esp_ota_begin` until the
download is complete, so a power cut in between leaves a slot that does not verify.

Images are told apart by what they do: `Sick` ones fail `system_init`, `Crashy` ones
panic once their tasks run, the rest are good. `system_init` of a good image may fail
too, with the hardware or the access point.

*Properties*: `TrialHasFallback`, `NeverBootsRejected`, `ImplementsSafeUpdate`, `UpdateEnds`, `LatestRuns`, `FailedCheckRollsBack`. The last
depends on a property of the library: if `esp_ota_begin` leaves the otadata entry
of the slot it erases, a reset between the end of the download and
`esp_ota_set_boot_partition` leaves an unproven image under its predecessor's VALID
entry, and the check after it can demote the proven one. The variable `drops`, chosen once at
the start, makes that explicit: every other safety property is checked and proved for both.

`LatestRuns` meets the same weakness: `[]SomeWorks`, its condition, is that some confirmed image passes the check.
Without it TLC finds this: a confirmed image downloads a sick one over its
confirmed predecessor; the watchdog strikes before the switch; after the abnormal reset `wifi_init` (or another call of `main.c:134-138`) fails, and line 168 of `main.c`
demotes the image that runs; what boots is the sick one, under the VALID entry it inherited, and line 169 restarts it for
ever, before any update. `AlwaysSomeWorksHolds` proves that this needs a library that keeps the entry: where it is dropped
the condition is always met. It is a hazard and no finding: the library (ESP-IDF 5.5.2, `sdkconfig:3`) is not under `src/`, and no document promises more.

`UpdateIsWatched` and
`UpdateAdvances` say what `UpdateEnds` rests on: a watchdog wherever the library may block, and a number of
steps left that only falls.

### TaskStop (`gpio.c:26-62`, `main.c:176-184`, `vprintf.c`, `ble_task.c:74-123`)

`life` and `handle` of each task, `next` (which task is created or deleted next),
`ble`, `pc`, and for the log `call` (which of the four `uart_write_bytes` of a line a
task is in) and `lock` (who owns the transmit mutex of each UART). Logging is
two steps per write, `TakeMutex` and `GiveMutex`, because the drivers are
installed without a transmit buffer and the writer keeps the mutex while the
text leaves. `DeleteNext` is one `vTaskDelete`, with its three outcomes: a null handle deletes
the caller; a live task ends with what it holds; a handle whose task ended by itself
is freed memory - nothing happens, or the device panics.
`xTaskCreate` may fail and `victron_ble_task` may end by itself (`MayFail`).

*What holds*: `RelaySurvives`; `OnlyHostRemains`, which says that when relay_task
connects for the update every task it has a handle for is stopped, the failed and the ended
ones included - and no other: nimble's host task goes on; and `ReachesOta`, which says
that the orphaned mutex is the only thing that keeps a device with all its tasks
from its update; `NoCircularWait`, which says that the mutexes alone cannot lock it. *What does not*: `StopLetsOtaRun`.

### Bme280 (`bme280.c`)

`pc` is the transfer being made, `attempt` whether it is the first or the repeated one; `dev`, `kind`,
`buf`, `cal` are the statics and local buffers of `bme280.c`; `regs` is what the sensor has in its
registers, of which `hum` is written and `latched` in force; `power` and `line` are its supply and the bus.
`Answered` is a transfer that succeeds, `TransferFails` one that does not: the sensor may
have taken the write all the same. After a time-out or an invalid state (`Repeatable`) the bus is reset and
the transfer repeated (`Repeat`); after the second failure, or any other error at once, the transfer is given
up (`GiveUp`: a poll goes on, the task skips the reading, anything else fails `system_init`). `errors` and `refused`
are history: how many errors the boot has met, and whether one was not repeated. `Reboot` restarts the processor at any step and leaves the
sensor as it is, possibly in the middle of a transfer.

*What holds*: `PostsAreMeasured` (while the supply of the sensor is steady),
`InitSurvivesTimeout`, `ReadingsResume`. An error that is not repeated, such as a missing acknowledgement, does
fail the boot: the property exempts it, and it is in the hazards. After a loss of supply of the sensor alone the
code goes on posting its reset values until the next restart; no document of the repository
promises otherwise, so this is a condition of the property and a hazard, and no finding.

### BleScan (`victron_ble.c`, `ble_task.c`)

`pc`, `ctx`, `cb` are `victron_ble_task`; `scanning` is `ble_state.scanning`; `host`, `disc`, `hpc`,
`frame` are nimble's host task, whether it has a discovery, and the callback it is in;
`age` is the time since `s_last_process_us`. Starting the discovery (`GapDisc`) and setting the
flag (`SetScanning`) are two steps, and a reset of the host ends the discovery first
and tells afterwards (`HostReset`, `DiscComplete`, `OnReset`).

*What holds*: `FramesAreHandled`, `NeverStartsTwice`, `KeepsListening` (unless the flag
is stuck), `KeepsPosting`. *What does not*: `ScanningIsTrue`.

### Metrics and Telemetry (`metrics_task.c`, joined with BleScan at `ble_task.c:69`)

`spc`, `held`, `ret` are each sender's place, what it has to give back and its `err`; `counter` is
`system_metric_error_counter`; `net` is the link and the server, external, which change at any step.
A sender makes its body (`MakeBody`, `NoBody`), tests the connection, opens a client, performs the
request, cleans up and counts (`Count`). The request ends in one of four ways, of which the code sees
two: `Stored` and `Refused` are `ESP_OK`, `AnswerLost` (the record is stored) and `NoAnswer` are errors.
`unreported` is history: the system records lost since one was stored; `gap` whether one of these was lost where
the code does not look (no memory for the body, an HTTP status).

Telemetry joins the two modules: nimble's host task is in `hpc = "post"` exactly while the sender
`"mppt"` runs (`CallsPost`, `PostReturns`), and can neither handle a reset nor a frame meanwhile. `"system"` is
`custom_metrics_task`; the BME280's sender has the same steps as `"mppt"` and is in the proofs, which are for any
set of senders.

*What holds*: everything BleScan promises, its progress included, with posts that fail, hang and are
refused inside the callback; `OnePostAtATime`, which also says that a sender leaves nothing behind;
`LossesAreCounted`; `KeepsReporting`.

### SyslogClient, UdpLog and LogPath (`udp_client.c`, `udp_server/app`)

This build does not start the client: `main.c:108` and `vprintf.c:69` are commented out. SyslogClient is the
client as it would run with them. `waiting`, `used` and `kept` are the ring buffer: the lines not received yet, the room
taken, and whether an error path has kept an item - behind which nothing is freed any more. `Start` may fail to
create the buffer, the task or both, and does not notice: without a task the lines stay in the buffer, without a buffer they are
dropped and the task trips an assertion where it receives (`ReceivesNull`). `Keep`
stands for the three error paths behind the receive, `ResolveFails` for the return of the
task function, which FreeRTOS answers with a panic. A socket that fails changes nothing.

UdpLog has the container (`server`), the thread (`lpc`, `sockq`, `rx`), the table (`rows`, `seq`) and the page
(`slot`, `answer`, `shown`). The thread looks at `stop_event` before each wait (`Loop`), dies of an exception while it
binds or inserts (`ListenerDies`), and is cut off by the end of the process anywhere (`Exit`). The page has some requests
open at a time, each of which may fail at any point, after a DELETE was done too. `book` is history: the
lines in the order in which they were recorded. LogPath puts a network between the two that loses and reorders.

MessageLog is the promise in four actions: something is said; something that was said is
recorded under the next number; the table is emptied; the reader sees a run of at most `Limit` records.
LogPath implements it (`MsgLog`): `said` are the lines logged so far, `log` is `book`, `table` is `rows`, `page` is `shown`. The buffer, the task, the
network, the listener and the requests are all stutters of it.

*What holds*: `ImplementsMessageLog`, `RoomIsAccounted`, `QueueMoves`; `IdsAreForever`, `NoGaps`,
`ReceivedIsRecorded` (of a listener that has not died), `PageCatchesUp`. A kept item, a task that was not created and a dead listener are
real weaknesses, but nothing in the repository promises otherwise: they are conditions of these
properties and hazards, and no findings.

### VictronFrame (`victron_crypto.c`, `victron_parser.c`, `ble_task.c:48-72`)

`frame` is an advertisement: who sent it, how long it is, and the bytes behind the key
byte, in clear. `buf` and `len` are `decrypted` and `decrypted_len`, `out` is `mppt_data`, `sent` is
what the charger reported. The charger's encoder (`Encode`) is external and written from
the layout the parser reads; `Report` is what a record can hold, and `Spares` the spare bits behind its 89. The
decoder is the code's, bit by bit. Fields are raw integers: the
scaling to floats is a constant factor. The cipher is not modelled: what comes out behind the text (the decrypted padding), or behind
the first block (`BlockLen`; the code leaves the counter of the next one to mbedtls, which counts elsewhere), is any byte
of `Junk`. Another charger is one whose key begins
with another byte; one that shares ours is told apart only by its address (`victron_ble.c:103-116`).

*What holds*: `PostsWhatWasSent`, for batteries of at most 100 V - the fallback is tried for every
voltage below 5 V, and reversing the bits of its bytes makes none of these plausible;
`PlausibleIsPosted`; and in `TypeOK`, that the padded text stays inside its buffer. Above 100 V the
fallback does misread: 102.40 V is posted as 51.20 V. No charger of this kind serves such a battery.

## 3. The runs

| Run | Question | Bounds | States |
|---|---|---|---|
| `WifiConn_conn` | does any interleaving lose a wake-up, or make a fresh connection lie or abort? does every call return and every cycle end? | `MaxRetry` 1, two events waiting | 112,732 |
| `WifiConn_ok`, `WifiConn_errors` | does every connection keep wifi.c:290-291? (no) | `MaxRetry` 1, two events | - |
| `OtaBoot_safety` | is there always an image to fall back to, does a failed check roll back, does an update always end? | 3 images, 2 attempts, 2 faults, 2 releases | 112,652 |
| `OtaBoot_latest` | is a good release reached? | a first image that panics, a sick and a good release, 1 attempt, 2 releases | 19,455 |
| `TaskStop_stop` | can creation and deletion of tasks and the log mutexes hurt the relay task? | three tasks log | 73,923 |
| `TaskStop_hang` | does stopping the tasks let the update run? (no) | two tasks log | - |
| `Bme280_sensor` | do hangs, repeated transfers and restarts spoil a reading, fail a boot, or stop the readings? | 3 polls | 27,420 |
| `Telemetry_post` | do scan flag, host resets, rate limit and a failing network keep the device listening, posting and reporting? | interval of 2 ticks, 2 senders, counter up to 2 | 94,560 |
| `LogPath_path` | does a line get from the buffer to the table and the page, whatever stops, dies or overtakes? | 2 lines, room for 1, a page of 1 row with 2 requests | 91,420 |
| `VictronFrame_decode` | is what is posted what was sent, and nothing plausible lost? | seven lengths, 646 reports, a buffer of 40 bytes, two paddings | 60,865 |
| `BleScan_flag` | is the flag true? (no) | interval of 1 | - |

Why the bounds are enough. `MaxRetry` is 6 in the build: with 1 there are a retry and
a last failure, and the value is otherwise only compared. `QueueLen` limits what the driver
posts before the event task runs: two allows a disconnection to wait behind a connection or an
address. A second power cut or panic is what it takes to strike during the recovery from the first;
two releases let a bad image follow a good one and be followed by it.
`OtaBoot_latest` begins with an image that panics, so that abnormal resets and the good release are not those
of the first image; two releases bring a sick image between two others, which is what it takes to leave it
under a VALID entry. It has no power cuts of its own: after one the code does what it does after `esp_restart`,
and every flash a cut leaves is also left by a step that fails there; a panic is what the watchdog and the crashy image bring. `MaxAttempts` is 10 in
the code and is only counted. Three loggers are enough for two to hold the two mutexes
while a third waits beside the relay task; the BLE task must be one of them,
because it alone may end by itself. `Bme280` needs no bound but the polls, with a first, a
middle and a last one: errors are counted up to two and nothing else counts. In `Telemetry` the interval needs a start, a middle and an end; the counter a
value between zero and the largest; a third sender would only repeat `"mppt"`. In `LogPath` two lines are what it takes to change
their order, to fill a buffer of one, to reuse an id after a DELETE and to
push a row off a page of one; two requests, to overtake one another. A gap in the page needs a page of two
rows and three lines: for that half of `NoGaps` there is the proof.
`VictronFrame`
takes the lengths around each limit (the header, the key byte, one byte less than a record, a record,
more than a block, more than the buffer takes once padded), the ends and sentinels of the fields in all combinations and every voltage below 5 V; the
buffer is 40 bytes instead of 256 so that a padded text exceeds it.
No safety property rests on these bounds: the proofs are for every value of the constants, every report a record can
hold included. Deadlock is checked for WifiConn, OtaBoot, Bme280 and VictronFrame. It is not for TaskStop, BleScan,
Telemetry and LogPath, where parts really stop: a relay task that waits for an orphaned mutex or
has deleted itself, a BLE task that has ended before the host was started, a log with no line left.

No symmetry is used: the instances are small, and the runs check liveness.

## 4. Fairness

* **WifiConn** (`FairSpec`). Weak fairness of the caller and of the event task: FreeRTOS
  schedules them and nothing of higher priority spins. Strong fairness of
  the three steps that wait for the mutex of the event loop: it is a FreeRTOS mutex,
  a waiter gets it when it is free again and again. A connection attempt ends (the driver
  has a timeout). Two assumptions are on the network and
  not on the code: a link that keeps coming up gets an IPv4 lease, and stays up once
  for long enough to confirm its link-local address. Without them the code
  waits for ever by design (`portMAX_DELAY`), as the second wait has no
  retry limit of its own while the link stays up.
* **OtaBoot.** `WatchedSpec`: the processor runs and an armed watchdog fires. The download
  steps are in no fairness condition: nothing but the watchdog makes a download end, and
  that is what `UpdateEnds` is about. `LuckySpec` adds strong fairness for what may fail
  because of network or hardware (it does not fail for ever, and not for ever under the image the server offers), for `LatestRuns` alone.
* **TaskStop.** `app_main` and the relay task run; text leaves a UART in bounded
  time; of the tasks it deletes none has a higher priority than the relay task, and nimble's host, which has one,
  does not write without a pause: a mutex that is free again and again is the relay task's in the end
  (strong fairness of its `TakeMutex`). Nobody need log.
* **Bme280.** The processor runs, the sensor finishes its NVM copy, a failed boot restarts, and not every
  boot is refused the bus driver. Disturbances are not fair; `ReadingsResume` speaks of
  behaviours in which they cease.
* **BleScan, Telemetry.** The tasks run and time passes; a request ends, by its timeout of ten seconds at the latest
  (weak fairness of each sender's steps); on a host that stays synced not every attempt to
  start a discovery fails, nor every allocation for a system record (strong fairness). The network is in no
  fairness condition: `KeepsReporting` speaks of behaviours in which the server takes records in the end.
* **LogPath.** Both programs run; every request of the page ends, as a failure if nothing else, and not all of them
  fail (strong fairness of the handler and of the rendering); the timer's fetch goes out (strong, because the bound on open
  requests is the model's). Neither the network nor the starts and stops of the container are fair.

## 5. The proofs

All theorems are machine-checked by TLAPS, for every value of the constants
that their named assumptions admit. Every safety property of the runs is among them, and the refinements of SafeUpdate and MessageLog. The inductive invariants (`WakeInv`, `FreshInv`, `BootInv`, `StopInv`,
`SensorInv`, `ScanInv`, `MetricsInv`, `FrameInv`, and `FromTheClient` and `WithinLimit` of LogPath) are means to these ends: they were model-checked before they were
proved, and are proved rather than run now. So are `UpdateIsWatched`, `UpdateAdvances`, `NoCircularWait` and
`PathTypeOK`.

* **WifiConnProofs.** `TypeCorrect`; then `WakeInv`, which `NoLostWakeUp` follows from.
  `WakeInvariant` is the induction: `WakeIsOwed` is not inductive: that the second wait ends depends on what the
  handler did before the caller came to it. `WakeInv` says for each point of the
  call that a semaphore has been given or its give is still to come, and that registered handlers
  always have something to wait for. `FreshInv` is the second half: a fresh call begins in silence (no
  event, no handler, no driver activity), and from then on there is one lost link at
  a time, being reported or being repaired; `FreshResultHolds`, `FreshNeverAbortsHolds` and
  `OffLeavesNoHandlerHolds` follow from both.
* **OtaBootProofs.** `BootInv`: some slot is an *anchor* - VALID, verifying - and the other
  is rejected, older, or on trial and intact; while an image runs, either it is the anchor or
  it is on trial over the anchor. `TrialHasFallbackHolds`, `NeverBootsRejectedHolds` and
  `WritesOnlyTheOtherSlotHolds` follow. `Refinement` proves `Spec => ImplementsSafeUpdate`: the
  mapping takes the newest bootable slot for the one to boot, and each step of the
  bootloader, `app_main` and `execute_ota` is a step of SafeUpdate or a stutter.
  `FailedCheckRollsBackHolds` needs `ValidIsTestedHolds` beside `BootInv`: where the library drops the entry of
  an erased slot, VALID means tested. With `TestedWorks` - a tested slot is erased before it is written, so what it holds
  passes the check - it gives `AlwaysSomeWorksHolds`, the condition of `LatestRuns`. `UpdateIsWatchedHolds` and `UpdateAdvancesHolds` are what `UpdateEnds` comes to when
  fairness is set aside: the update is nowhere unwatched while it may block, and each of its steps lowers
  a number that begins at `6 * MaxAttempts + 5`. TLC checks with 2 attempts that fairness does the rest.
* **TaskStopProofs.** `StopInv`: a handle is null exactly when its task was never created,
  a task that has ended by itself was not in a write, and an owner of a mutex is in a
  write on that UART. `RelaySurvivesHolds` and `OrphanedByRelayHolds` follow; `StoppedInv` adds how far the deletions have come, for
  `OnlyHostRemainsHolds`. `NoCircularWaitHolds` follows from `StopInv` too: a task holds one mutex at a time and waits for none while it does;
  that leaves the deletions as the only cause of `TaskStop_hang`.
* **Bme280Proofs.** `SensorInv`: after the reset of the sensor each step finds what the steps before it
  wrote. `FailureKeepsInv` is the heart of it: a failed transfer keeps the invariant
  whether its write was taken or not. `PostsAreMeasuredHolds` and `InitSurvivesTimeoutHolds` follow; the second rests on the
  repetition of `bme280.c:99` and `114` and says nothing of errors that are not repeated.
* **TelemetryProofs**, in three parts. The scan: `ScanInv` says that outside of the start sequence a running discovery implies the flag,
  and that a synced host is never in a callback that reports a reset;
  `FramesAreHandledHolds` and `NeverStartsTwiceHolds` follow. The senders: `MetricsInv` says that what a sender holds is a function of where it is, and that the losses
  are covered by the counter, with the one that `Count` has yet to add. `NothingHeldHolds` (no sender has anything to give back once it has returned) and `LossesAreCountedHolds` follow, for any
  set of senders and any largest value. The composition: `RefinesScan` and `RefinesSenders` say that each step of it is a step of BleScan and a step of
  Metrics, or leaves them alone. What is proved of the parts therefore holds of the whole (`PartsHold`), and
  `OnePostAtATimeHolds` with it.
* **LogPathProofs.** `ClientInd` is the induction for the client: a line is in hand exactly while it is sent.
  For the server, `ServerSteps` reduces a step of LogPath to what the server sees of it; then the ids
  (`IdsAreForeverHolds`) and the gaps (`NoGapsHolds`: the newest rows of a table without gaps have none), for any number of lines, any limit and any number of requests.
  `ImplementsMessageLogHolds` joins them: `FromTheClient` follows a line from the buffer to the insert, `WithinLimit` bounds an answer, and
  `GapFreeIsRun` says that rows without a gap, each with the message recorded under its id, are a run of the
  record - from their least id to their greatest (`NatLemmas`). `PathStepImplements` then takes `Log` to `Say`, `InsertMessage` to `Write`,
  `DeleteMessages` to `Clear` and `Render` to `Show`; every other step stutters.
* **VictronFrameProofs.** The bit reader is a recursive function. `SumExists` (in `NatLemmas`, by the least counterexample) says
  that such a function exists; `ReadUnsigned` unfolds it, `Read8`, `Read9` and `Read16` give what it returns for the three widths of the
  record in either order of bits, and `ParseBytes` what the parser makes of twelve bytes. `RoundTrip` follows: the first attempt returns the report, for every report of
  `Report` and any spare bits, since 89 bits do not end with a byte. `FallbackIsNotFooled`: the other order
  makes of a voltage below 5 V one below 2.56 V or a negative one, because it reverses the bits of each byte. `FrameInv` carries
  the frame through the lengths, the cipher and both attempts; `FrameTypeCorrect` (nothing is written past the buffer),
  `PostsWhatWasSentHolds` and `PlausibleIsPostedHolds` follow, for any lengths and buffer.

Only model-checked: the liveness properties (`CallReturns`, `CycleEnds`, `UpdateEnds`,
`LatestRuns`, `ReachesOta`, `ReadingsResume`, `KeepsListening`, `KeepsPosting`, `KeepsReporting`,
`QueueMoves`, `ReceivedIsRecorded`, `PageCatchesUp`), since
fairness and ENABLED are beyond the prover. Their bounds are therefore those of section 3.

## 6. Assumptions about external code

ESP-IDF, nimble and FreeRTOS are not under `src/`; they are modelled from how the
code uses them and marked external in `PROJECT.json`.

* esp_event runs one handler at a time and holds the mutex of the loop meanwhile.
* `esp_wifi_set_config` and `esp_wifi_connect` are refused while the station is connecting.
* `uart_write_bytes` without a transmit buffer holds the transmit mutex until the text has
  been handed to the hardware; `vTaskDelete` does not release mutexes.
* The bootloader marks a PENDING image ABORTED at its second boot, skips rejected entries,
  and boots another slot if the chosen one does not verify. `esp_ota_begin`
  refuses while the running image is PENDING. Whether it drops the entry of the slot
  it erases is not assumed (`drops`).
* The I2C driver reports a bus that hangs as a time-out or an invalid state; anything else that goes wrong it may report
  as any error. A reset of the bus frees it. The BME280 follows its data sheet: a write to
  CTRL_MEAS puts CTRL_HUM in force, CONFIG is taken in sleep mode, the NVM copy ends before the
  polls do.
* nimble ends a discovery before it reports a reset, and its callbacks run in one task.
* `esp_http_client_perform` returns within its timeout, and `ESP_OK` for any HTTP status.
* A NOSPLIT ring buffer hands out its items in order and frees their room in order.
* A SQLite transaction is done or leaves nothing; AUTOINCREMENT never gives an id twice.
* uvicorn serves no request any more when it runs the shutdown handler.

## 7. Disagreements between the code and what is said of it

* `WifiConn_ok`: `wifi_connect_if_needed` returns `ESP_OK` with no address obtained
  when handlers of an earlier call used up their retries and line 135 of `wifi.c` then reset the
  counter by which line 162 judges. `gpio.c:33` is the call that meets it:
  `gpio.c:37` does not unregister anything when the link happens to be down.
* `WifiConn_errors`: in the same situation the station is still connecting and an
  `ESP_ERROR_CHECK` (`wifi.c:41`, `144`) aborts the device instead of returning the error.
* `TaskStop_hang`: a task is deleted while it writes a line; its mutex stays locked and
  the relay task blocks at its own next line, before the watchdog is armed. The device
  hangs until its power is cut.
* `BleScan_flag`: a host reset between `ble_gap_disc` and line 255 of `victron_ble.c` leaves the
  flag true with no discovery. The BLE task does not scan again before the next reset
  of the device.

Noted and not run: `gpio.c:46` says that all tasks are stopped, but nimble's host task, for which relay_task has no
handle, goes on receiving and posting during the update (`OnlyHostRemains` and the proof beside it say that it is the
only one). `victron_ble.h` says that a null MAC address scans everything; no caller meets it.

## 8. What is not modelled

* `victron_ble_scan_stop`, `_connect`, `_disconnect`, `_deinit`; `simple_ota_example_task`;
  `wtd_task`, `rtc_wtd_init`; SNTP: nothing calls them.
* The HTTP event handler of `ota.c`, `print_sha256` and the banners: they only log.
* The formatting in `custom_vprintf` and its failing `malloc`, which drops the line.
* The text of the metrics and the MAC string in it; the time between two system records (`vTaskDelayUntil`).
* The page's checkbox, which is left on, and its choice of the limit, which is fixed.
* The LED's blinking; the BME280's compensation formulas, which are arithmetic on 32 and
  64 bit values; the AES itself (a text of more than one block would need its counter, a
  hazard noted in `PROJECT.json`; the record is in the first block).
* The compose file, dashboards, certificates and `udp_server.py` (a script that prints).

## 9. The plan

Done: WifiConn, SafeUpdate and OtaBoot, TaskStop, Bme280, BleScan, Metrics, Telemetry, SyslogClient, UdpLog and
LogPath with MessageLog, and VictronFrame, with the proofs of all their safety properties. What would come next:

1. A composition of TaskStop and OtaBoot through the relay task, to state what the orphaned
   mutex does to the update cycle as a whole.
2. An abstract specification of the connection (a call is made, and returns once, with a result that is
   true if it was fresh), proved of WifiConn from `WakeInv` and `FreshInv`; for Bme280, bounds on the steps left in a boot like
   `UpdateAdvances`.
3. VictronFrame joined to Telemetry at `DataCallback`, with the rate limit in front.
4. The unpacking of the BME280's calibration words (`bme280.c:169`) against the data sheet.

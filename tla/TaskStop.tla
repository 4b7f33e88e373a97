------------------------------ MODULE TaskStop ------------------------------
(***************************************************************************)
(* How relay_task (gpio.c) stops the other tasks before it runs the        *)
(* update, while they log through custom_vprintf (vprintf.c).  Each line   *)
(* is four uart_write_bytes; each holds the transmit mutex of its UART     *)
(* until the text has left, for ever if need be, since the drivers have no *)
(* transmit buffer (uart.c:20, 25).  Tasks of FreeRTOS that are deleted    *)
(* keep the mutexes they hold.                                             *)
(***************************************************************************)
EXTENDS Naturals, Sequences

CONSTANTS
  MayFail,  \* may xTaskCreate and the initialisation of BLE fail?
  Loggers   \* bound: the tasks, besides relay_task, that log in their loops

\* gpio.c:47-50, in the order of deletion and of creation (main.c:178-181).
Victims == <<"led", "bme", "victron", "metrics">>
Victim  == {"led", "bme", "victron", "metrics"}
Tasks   == Victim \union {"relay", "host"}   \* host: nimble's, ble_task.c:86

ASSUME TasksAssumption == MayFail \in BOOLEAN /\ Loggers \subseteq Tasks \ {"relay"}

VARIABLES
  life,    \* of each task: "none", "alive", or "gone" once deleted
  handle,  \* the handle variable of each victim: "null" or "set"
  next,    \* the task app_main creates or relay_task deletes next
  ble,     \* victron_ble_task: "init", "up" or "failed"
  pc,      \* where app_main, then relay_task, is
  call,    \* the uart_write_bytes each task is in, 0 if none
  lock     \* the owner of the transmit mutex of each UART

vars == <<life, handle, next, ble, pc, call, lock>>

Init ==
  /\ life = [t \in Tasks |-> "none"] /\ handle = [v \in Victim |-> "null"]
  /\ next = 1 /\ ble = "init" /\ pc = "create"
  /\ call = [t \in Tasks |-> 0] /\ lock = [u \in {0, 2} |-> "free"]

Alive(t) == life[t] = "alive"
Quiet(t) == Alive(t) /\ call[t] = 0

-----------------------------------------------------------------------------
(***************************************************************************)
(* custom_vprintf.  UART2 first, then UART0, the text and its "\r" apart.  *)
(***************************************************************************)
Uart(c) == IF c \in {1, 2} THEN 2 ELSE 0

\* Mutant: the last write is not the end of the line.
NextCallNeverEnds(c) == c + 1
NextCall(c) == (c + 1) % 5

TakeMutex(t) ==
  /\ Alive(t) /\ call[t] # 0 /\ lock[Uart(call[t])] = "free"
  /\ lock' = [lock EXCEPT ![Uart(call[t])] = t]
  /\ UNCHANGED <<life, handle, next, ble, pc, call>>
GiveMutex(t) ==
  /\ Alive(t) /\ call[t] # 0 /\ lock[Uart(call[t])] = t
  /\ lock' = [lock EXCEPT ![Uart(call[t])] = "free"]
  /\ call' = [call EXCEPT ![t] = NextCall(@)]
  /\ UNCHANGED <<life, handle, next, ble, pc>>

Log(t) == Quiet(t) /\ call' = [call EXCEPT ![t] = 1]

\* The loops of the other tasks, and nimble's callbacks (victron_on_ble_data
\* in ble_task.c), log when they please.
TaskLogs(t) == Log(t) /\ UNCHANGED <<life, handle, next, ble, pc, lock>>

-----------------------------------------------------------------------------
(***************************************************************************)
(* app_main creates the tasks and does not look at what xTaskCreate says.  *)
(***************************************************************************)
CreateVictim(ok) ==
  /\ pc = "create" /\ next <= Len(Victims) /\ next' = next + 1
  /\ ok \/ MayFail
  /\ IF ok THEN /\ life' = [life EXCEPT ![Victims[next]] = "alive"]
                /\ handle' = [handle EXCEPT ![Victims[next]] = "set"]
           ELSE UNCHANGED <<life, handle>>
  /\ UNCHANGED <<ble, pc, call, lock>>
CreateRelay(ok) ==
  /\ pc = "create" /\ next > Len(Victims) /\ (ok \/ MayFail)
  /\ pc' = "cycle" /\ next' = 1
  /\ life' = IF ok THEN [life EXCEPT !["relay"] = "alive"] ELSE life
  /\ UNCHANGED <<handle, ble, call, lock>>

(***************************************************************************)
(* victron_ble_task: it starts nimble's host task, or logs and ends.       *)
(***************************************************************************)
BleUp ==
  /\ ble = "init" /\ Quiet("victron") /\ ble' = "up"
  /\ life' = [life EXCEPT !["host"] = "alive"]
  /\ UNCHANGED <<handle, next, pc, call, lock>>
BleFails ==
  /\ MayFail /\ ble = "init" /\ ble' = "failed" /\ Log("victron")
  /\ UNCHANGED <<life, handle, next, pc, lock>>
\* Mutant: the task clears its handle before it ends.
BleEndsCleanly ==
  /\ ble = "failed" /\ Quiet("victron")
  /\ life' = [life EXCEPT !["victron"] = "gone"]
  /\ handle' = [handle EXCEPT !["victron"] = "null"]
  /\ UNCHANGED <<next, ble, pc, call, lock>>
BleEnds ==
  /\ ble = "failed" /\ Quiet("victron")
  /\ life' = [life EXCEPT !["victron"] = "gone"]
  /\ UNCHANGED <<handle, next, ble, pc, call, lock>>

-----------------------------------------------------------------------------
(***************************************************************************)
(* relay_task: a cycle with the relay on and off (module WifiConn), then   *)
(* the deletions, a line, the connection, execute_ota (module OtaBoot).    *)
(***************************************************************************)
At(from, to) == pc = from /\ pc' = to /\ Quiet("relay")

CycleOver ==
  /\ At("off", "delete") /\ UNCHANGED <<life, handle, next, ble, call, lock>>

\* vTaskDelete(NULL) deletes the caller.  A handle whose task has ended by
\* itself points to freed memory: the call does nothing or the device panics.
DeleteNext ==
  LET v == Victims[next] IN
  /\ pc = "delete" /\ next <= Len(Victims) /\ Quiet("relay")
  /\ \/ /\ handle[v] = "null" /\ life' = [life EXCEPT !["relay"] = "gone"]
        /\ UNCHANGED <<next, pc>>
     \/ /\ handle[v] = "set" /\ life' = [life EXCEPT ![v] = "gone"]
        /\ next' = next + 1 /\ UNCHANGED pc
     \/ /\ handle[v] = "set" /\ ~Alive(v) /\ pc' = "reset" /\ UNCHANGED <<life, next>>
  /\ UNCHANGED <<handle, ble, call, lock>>

RelayLogs(from, to) ==
  pc = from /\ pc' = to /\ Log("relay") /\ UNCHANGED <<life, handle, next, ble, lock>>
RelayOn      == RelayLogs("cycle", "on")
RelayOff     == RelayLogs("on", "off")
\* Mutant: the last task is forgotten.
RunningOtaEarly == next >= Len(Victims) /\ RelayLogs("delete", "connect")
RunningOta   == next > Len(Victims) /\ RelayLogs("delete", "connect")
ConnectFails == RelayLogs("connect", "restart")
ConnectOk    == RelayLogs("connect", "ota")      \* ota.c:109
Restarts     ==
  /\ At("restart", "reset") /\ UNCHANGED <<life, handle, next, ble, call, lock>>
\* execute_ota logs with its watchdog armed, and ends in a reset in any case.
OtaEnds ==
  /\ At("ota", "reset") /\ UNCHANGED <<life, handle, next, ble, call, lock>>
Reboot ==
  /\ pc = "reset"
  /\ life' = [t \in Tasks |-> "none"] /\ handle' = [v \in Victim |-> "null"]
  /\ next' = 1 /\ ble' = "init" /\ pc' = "create"
  /\ call' = [t \in Tasks |-> 0] /\ lock' = [u \in {0, 2} |-> "free"]

Relay == \/ RelayOn \/ RelayOff \/ CycleOver \/ DeleteNext \/ RunningOta \/ ConnectFails
         \/ ConnectOk \/ Restarts \/ OtaEnds \/ Reboot
AppMain == \E ok \in BOOLEAN : CreateVictim(ok) \/ CreateRelay(ok)

Next ==
  \/ pc # "reset" /\ \/ \E t \in Tasks : TakeMutex(t) \/ GiveMutex(t)
                     \/ \E t \in Loggers : TaskLogs(t)
                     \/ BleUp \/ BleFails \/ BleEnds
  \/ AppMain \/ Relay

Spec == Init /\ [][Next]_vars

(***************************************************************************)
(* relay_task has the highest priority: of the tasks that wait for a mutex *)
(* it is the one that gets it (SF).  Text leaves a UART in bounded time.   *)
(* Nobody need log.                                                        *)
(***************************************************************************)
FairSpec ==
  /\ Spec /\ WF_vars(AppMain) /\ WF_vars(Relay)
  /\ SF_vars(pc # "reset" /\ TakeMutex("relay"))
  /\ \A t \in Tasks : WF_vars(pc # "reset" /\ GiveMutex(t))

-----------------------------------------------------------------------------
TypeOK ==
  /\ life \in [Tasks -> {"none", "alive", "gone"}]
  /\ handle \in [Victim -> {"null", "set"}]
  /\ next \in 1..5 /\ ble \in {"init", "up", "failed"}
  /\ pc \in {"create", "cycle", "on", "off", "delete", "connect", "restart", "ota", "reset"}
  /\ call \in [Tasks -> 0..4]
  /\ lock \in [{0, 2} -> Tasks \union {"free"}]

NotCreated ==
  pc # "create" /\ \E t \in Tasks \ {"host"} : life[t] = "none"
Orphaned == \E u \in {0, 2} : lock[u] # "free" /\ ~Alive(lock[u])

Before  == {"create", "cycle", "on", "off"}   \* relay_task has deleted nothing

(* relay_task never deletes itself by vTaskDelete(NULL) unless app_main    *)
(* failed to create a task, whatever the other tasks did to themselves     *)
(* meanwhile (gpio.c:47-50, ble_task.c:82, 89).                            *)
RelaySurvives == life["relay"] = "gone" => NotCreated

(* A mutex is orphaned only by the deletions of gpio.c:47-50: a task that  *)
(* ends by itself has finished its last line (ble_task.c:81, 88).          *)
OrphanedByRelay == Orphaned => pc \notin Before

(* The inductive invariant: handles are set for the tasks that were        *)
(* created, and no task ends by itself with a mutex in its hands.          *)
StopInv ==
  /\ \A v \in Victim : life[v] = "none" <=> handle[v] = "null"
  /\ pc = "create" => /\ life["relay"] = "none"
                      /\ \A i \in next..4 : life[Victims[i]] = "none"
  /\ pc \in Before => \A t \in Tasks : life[t] = "gone" => call[t] = 0
  /\ \A u \in {0, 2} : lock[u] # "free" =>
       /\ call[lock[u]] # 0 /\ Uart(call[lock[u]]) = u /\ life[lock[u]] # "none"
  /\ RelaySurvives

(* Once relay_task connects for the update, the tasks it knows are stopped *)
(* for good, those that were never created or ended by themselves included *)
(* (gpio.c:46-60).  Nimble's host task, for which it has no handle, goes   *)
(* on: gpio.c:46 says "Stops all tasks".                                   *)
AfterDeletion   == {"connect", "restart", "ota"}
OnlyHostRemains == pc \in AfterDeletion => \A v \in Victim : ~Alive(v)
StoppedInv ==
  /\ pc \in {"cycle", "on", "off"} => next = 1
  /\ pc = "delete" => \A i \in 1..4 : i < next => ~Alive(Victims[i])
  /\ OnlyHostRemains

(* As long as every task was created and no mutex is orphaned, the device  *)
(* comes to the update or to a reset again and again, whoever else logs.   *)
ReachesOta ==
  [](~Orphaned /\ ~NotCreated) => []<>(pc \in {"ota", "reset"})

Waits(t, o) == call[t] # 0 /\ o # t /\ lock[Uart(call[t])] = o

(* What that rests on, for any loggers: whom a task waits for waits for    *)
(* nobody itself, and unless relay_task deleted it, it is alive and will   *)
(* give the mutex when its text has left (vprintf.c:63-67, gpio.c:47-50).  *)
NoCircularWait ==
  \A t, o \in Tasks : Waits(t, o) =>
     (\A p \in Tasks : ~Waits(o, p)) /\ (pc \in Before => Alive(o))

(* gpio.c:46 stops the tasks "to avoid conflicts while running OTA".       *)
(* Once it has, the update is run.                                         *)
StopLetsOtaRun == (pc = "delete") ~> (pc \in {"ota", "reset"})

=============================================================================

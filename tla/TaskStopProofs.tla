--------------------------- MODULE TaskStopProofs ---------------------------
(* Proofs about TaskStop, for every set of tasks that log. *)
EXTENDS TaskStop, TLAPS

LEMMA VictimsListed == /\ Len(Victims) = 4 /\ \A i \in 1..4 : Victims[i] \in Victim
                       /\ "relay" \notin Victim /\ "host" \notin Victim
                       /\ \A i, j \in 1..4 : Victims[i] = Victims[j] => i = j
BY DEF Victims, Victim

(* Every variable keeps its type. *)
THEOREM StopTypeCorrect == Spec => []TypeOK
<1> USE VictimsListed DEF TypeOK, Tasks
<1>1. Init => TypeOK
  BY DEF Init
<1>2. TypeOK /\ [Next]_vars => TypeOK'
  <2> SUFFICES ASSUME TypeOK, [Next]_vars PROVE TypeOK'
    OBVIOUS
  <2> USE DEF At, Log, Quiet, RelayLogs
  <2>1. ASSUME NEW t \in Tasks, TakeMutex(t) PROVE TypeOK'
    BY <2>1 DEF TakeMutex, Uart
  <2>2. ASSUME NEW t \in Tasks, GiveMutex(t) PROVE TypeOK'
    BY <2>2 DEF GiveMutex, Uart, NextCall
  <2>3. ASSUME NEW t \in Tasks, TaskLogs(t) PROVE TypeOK'
    BY <2>3 DEF TaskLogs
  <2>4. CASE BleUp BY <2>4 DEF BleUp
  <2>5. CASE BleFails BY <2>5 DEF BleFails, Victim
  <2>6. CASE BleEnds BY <2>6 DEF BleEnds, Victim
  <2>7. ASSUME NEW ok \in BOOLEAN, CreateVictim(ok) PROVE TypeOK'
    BY <2>7 DEF CreateVictim
  <2>8. ASSUME NEW ok \in BOOLEAN, CreateRelay(ok) PROVE TypeOK'
    BY <2>8 DEF CreateRelay
  <2>9. CASE RelayOn BY <2>9 DEF RelayOn
  <2>10. CASE RelayOff BY <2>10 DEF RelayOff
  <2>11. CASE CycleOver BY <2>11 DEF CycleOver
  <2>12. CASE DeleteNext BY <2>12 DEF DeleteNext
  <2>13. CASE RunningOta BY <2>13 DEF RunningOta
  <2>14. CASE ConnectFails BY <2>14 DEF ConnectFails
  <2>15. CASE ConnectOk BY <2>15 DEF ConnectOk
  <2>16. CASE Restarts BY <2>16 DEF Restarts
  <2>17. CASE OtaEnds BY <2>17 DEF OtaEnds
  <2>18. CASE Reboot BY <2>18 DEF Reboot
  <2>19. CASE UNCHANGED vars BY <2>19 DEF vars
  <2> QED BY <2>1, <2>2, <2>3, <2>4, <2>5, <2>6, <2>7, <2>8, <2>9, <2>10, <2>11, <2>12,
             <2>13, <2>14, <2>15, <2>16, <2>17, <2>18, <2>19, TasksAssumption
          DEF Next, AppMain, Relay
<1> QED BY <1>1, <1>2, PTL DEF Spec

(* The handles tell which tasks were created; a task that ended by itself  *)
(* holds no mutex.                                                         *)
THEOREM StopInvariant == Spec => []StopInv
<1> USE VictimsListed DEF StopInv, RelaySurvives, NotCreated, Before, Tasks, Uart
<1>1. Init => StopInv
  BY DEF Init
<1>2. TypeOK /\ StopInv /\ [Next]_vars => StopInv'
  <2> SUFFICES ASSUME TypeOK, StopInv, [Next]_vars PROVE StopInv'
    OBVIOUS
  <2> USE DEF At, Log, Quiet, Alive, RelayLogs, TypeOK
  <2>1. ASSUME NEW t \in Tasks, TakeMutex(t) PROVE StopInv'
    BY <2>1 DEF TakeMutex
  <2>2. ASSUME NEW t \in Tasks, GiveMutex(t) PROVE StopInv'
    BY <2>2 DEF GiveMutex, NextCall
  <2>3. ASSUME NEW t \in Tasks, TaskLogs(t) PROVE StopInv'
    BY <2>3 DEF TaskLogs
  <2>4. CASE BleUp BY <2>4 DEF BleUp
  <2>5. CASE BleFails BY <2>5 DEF BleFails, Victim
  <2>6. CASE BleEnds BY <2>6 DEF BleEnds, Victim
  <2>7. ASSUME NEW ok \in BOOLEAN, CreateVictim(ok) PROVE StopInv'
    BY <2>7 DEF CreateVictim
  <2>8. ASSUME NEW ok \in BOOLEAN, CreateRelay(ok) PROVE StopInv'
    BY <2>8 DEF CreateRelay
  <2>9. CASE RelayOn BY <2>9 DEF RelayOn
  <2>10. CASE RelayOff BY <2>10 DEF RelayOff
  <2>11. CASE CycleOver BY <2>11 DEF CycleOver
  <2>12. CASE DeleteNext BY <2>12 DEF DeleteNext
  <2>13. CASE RunningOta BY <2>13 DEF RunningOta
  <2>14. CASE ConnectFails BY <2>14 DEF ConnectFails
  <2>15. CASE ConnectOk BY <2>15 DEF ConnectOk
  <2>16. CASE Restarts BY <2>16 DEF Restarts
  <2>17. CASE OtaEnds BY <2>17 DEF OtaEnds
  <2>18. CASE Reboot BY <2>18 DEF Reboot
  <2>19. CASE UNCHANGED vars BY <2>19 DEF vars
  <2> QED BY <2>1, <2>2, <2>3, <2>4, <2>5, <2>6, <2>7, <2>8, <2>9, <2>10, <2>11, <2>12,
             <2>13, <2>14, <2>15, <2>16, <2>17, <2>18, <2>19, TasksAssumption
          DEF Next, AppMain, Relay
<1> QED BY <1>1, <1>2, StopTypeCorrect, PTL DEF Spec

(* relay_task is deleted by itself only if a task was never created: the   *)
(* handle of a task that ended by itself stays set (gpio.c:47-50).         *)
THEOREM RelaySurvivesHolds == Spec => []RelaySurvives
<1>1. StopInv => RelaySurvives
  BY DEF StopInv
<1> QED BY <1>1, StopInvariant, PTL

(* A mutex is orphaned by nothing but the deletions (gpio.c:47-50).        *)
THEOREM OrphanedByRelayHolds == Spec => []OrphanedByRelay
<1>1. TypeOK /\ StopInv => OrphanedByRelay
  BY DEF StopInv, TypeOK, OrphanedByRelay, Orphaned, Alive
<1> QED BY <1>1, StopTypeCorrect, StopInvariant, PTL

(* The mutexes of the UARTs cannot lock the tasks in a circle, and until   *)
(* relay_task deletes, who holds one is there to give it (gpio.c:47-50).   *)
THEOREM NoCircularWaitHolds == Spec => []NoCircularWait
<1>1. TypeOK /\ StopInv => NoCircularWait
  <2> SUFFICES ASSUME TypeOK, StopInv, NEW t \in Tasks, NEW o \in Tasks, Waits(t, o)
               PROVE  (\A p \in Tasks : ~Waits(o, p)) /\ (pc \in Before => Alive(o))
    BY DEF NoCircularWait
  <2> DEFINE u == Uart(call[t])
  <2>1. u \in {0, 2} /\ lock[u] = o /\ o # "free"
    BY DEF Uart, Waits, Tasks, Victim
  <2>2. call[o] # 0 /\ Uart(call[o]) = u /\ life[o] # "none"
    BY <2>1 DEF StopInv
  <2>3. \A p \in Tasks : ~Waits(o, p)
    BY <2>1, <2>2 DEF Waits
  <2>4. pc \in Before => life[o] # "gone"
    BY <2>2 DEF StopInv
  <2> QED BY <2>2, <2>3, <2>4 DEF TypeOK, Alive
<1> QED BY <1>1, StopTypeCorrect, StopInvariant, PTL

(* When the update connects, every task relay_task knows is stopped        *)
(* (gpio.c:46-60): whoever was deleted is not created again.               *)
THEOREM OnlyHostRemainsHolds == Spec => []OnlyHostRemains
<1> USE VictimsListed DEF StoppedInv, OnlyHostRemains, AfterDeletion, Tasks
<1>1. Init => StoppedInv
  BY DEF Init
<1>2. TypeOK /\ StoppedInv /\ [Next]_vars => StoppedInv'
  <2> SUFFICES ASSUME TypeOK, StoppedInv, [Next]_vars PROVE StoppedInv'
    OBVIOUS
  <2> USE DEF At, Log, Quiet, Alive, RelayLogs, TypeOK
  <2>1. ASSUME NEW t \in Tasks, TakeMutex(t) PROVE StoppedInv'
    BY <2>1 DEF TakeMutex
  <2>2. ASSUME NEW t \in Tasks, GiveMutex(t) PROVE StoppedInv'
    BY <2>2 DEF GiveMutex, NextCall
  <2>3. ASSUME NEW t \in Tasks, TaskLogs(t) PROVE StoppedInv'
    BY <2>3 DEF TaskLogs
  <2>4. CASE BleUp BY <2>4 DEF BleUp
  <2>5. CASE BleFails BY <2>5 DEF BleFails, Victim
  <2>6. CASE BleEnds BY <2>6 DEF BleEnds, Victim
  <2>7. ASSUME NEW ok \in BOOLEAN, CreateVictim(ok) PROVE StoppedInv'
    BY <2>7 DEF CreateVictim
  <2>8. ASSUME NEW ok \in BOOLEAN, CreateRelay(ok) PROVE StoppedInv'
    BY <2>8 DEF CreateRelay
  <2>9. CASE RelayOn BY <2>9 DEF RelayOn
  <2>10. CASE RelayOff BY <2>10 DEF RelayOff
  <2>11. CASE CycleOver BY <2>11 DEF CycleOver
  <2>12. CASE DeleteNext BY <2>12 DEF DeleteNext
  <2>13. CASE RunningOta BY <2>13 DEF RunningOta, Victims, Victim
  <2>14. CASE ConnectFails BY <2>14 DEF ConnectFails
  <2>15. CASE ConnectOk BY <2>15 DEF ConnectOk
  <2>16. CASE Restarts BY <2>16 DEF Restarts
  <2>17. CASE OtaEnds BY <2>17 DEF OtaEnds
  <2>18. CASE Reboot BY <2>18 DEF Reboot
  <2>19. CASE UNCHANGED vars BY <2>19 DEF vars
  <2> QED BY <2>1, <2>2, <2>3, <2>4, <2>5, <2>6, <2>7, <2>8, <2>9, <2>10, <2>11, <2>12,
             <2>13, <2>14, <2>15, <2>16, <2>17, <2>18, <2>19, TasksAssumption
          DEF Next, AppMain, Relay
<1>3. StoppedInv => OnlyHostRemains
  OBVIOUS
<1> QED BY <1>1, <1>2, <1>3, StopTypeCorrect, PTL DEF Spec
=============================================================================

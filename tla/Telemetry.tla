----------------------------- MODULE Telemetry ------------------------------
(***************************************************************************)
(* BleScan and Metrics together: nimble's host task itself posts the       *)
(* record of a frame, inside the callback victron_on_ble_data, and can do  *)
(* nothing else until mppt_send_to_influx returns; the system record is    *)
(* sent by a task of its own over the same network.                        *)
(***************************************************************************)
EXTENDS BleScan, Metrics

ASSUME MpptAssumption == "mppt" \in Senders

allVars == <<vars, sendVars>>

TelInit == Init /\ SendInit

\* ble_task.c:69: the two meet at this call, and at its return.
CallsPost == DataCallback /\ hpc' = "post" /\ Call("mppt")
PostReturns == Posted /\ Return("mppt")

HostAlone == /\ OnSync \/ (DataCallback /\ hpc' = "idle") \/ DiscComplete \/ OnReset
             /\ UNCHANGED sendVars
ScanAlone == /\ Task \/ HostReset \/ Tick \/ \E f \in Frames : Advertise(f)
             /\ UNCHANGED sendVars
Sends(s)  == /\ Inner(s) \/ (s # "mppt" /\ (Call(s) \/ Return(s)))
             /\ UNCHANGED vars
Network   == /\ \E to \in Nets : NetChanges(to)
             /\ UNCHANGED vars

TelNext == \/ CallsPost \/ PostReturns \/ HostAlone \/ ScanAlone \/ Network
           \/ \E s \in Senders : Sends(s)

TelSpec == TelInit /\ [][TelNext]_allVars

(* The tasks are scheduled and time passes, as in BleScan; a request ends, *)
(* by its timeout at the latest.  Not every discovery fails to start, and  *)
(* not every allocation for a system record fails (SF).                    *)
TelFairSpec ==
  /\ TelSpec
  /\ WF_allVars(Task /\ UNCHANGED sendVars) /\ WF_allVars(Tick /\ UNCHANGED sendVars)
  /\ WF_allVars(HostAlone \/ CallsPost \/ PostReturns)
  /\ SF_allVars(GapDisc /\ UNCHANGED sendVars)
  /\ \A s \in Senders : WF_allVars(Sends(s))
  /\ SF_allVars(MakeBody("system") /\ UNCHANGED vars)
  /\ SF_allVars(ClientInit("system") /\ UNCHANGED vars)

-----------------------------------------------------------------------------
(* The types of both parts: above all, the age of the last frame and the   *)
(* error counter stay within their width (ble_task.c:44,                   *)
(* metrics_task.c:209).                                                    *)
TelTypeOK == TypeOK /\ SendTypeOK

(* The host task is in its sender exactly while it handles a frame: while  *)
(* a request is under way no second one begins, and when the callback is   *)
(* over no body and no client is left (ble_task.c:69, metrics_task.c:119). *)
OnePostAtATime ==
  /\ (hpc = "post") <=> (spc["mppt"] # "idle")
  /\ hpc # "post" => held["mppt"] = {}

(* A server that answers in the end hears of every loss: the counter goes  *)
(* back to zero with a record stored, again and again (metrics_task.c:205).*)
KeepsReporting == <>[](net = "takes") => []<>(counter = 0 /\ unreported = 0)
=============================================================================

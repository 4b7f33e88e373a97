-------------------------- MODULE TelemetryProofs ---------------------------
(* Proofs about BleScan, for any interval, about Metrics, for any senders  *)
(* and any largest count, and about Telemetry, each step of which is one   *)
(* of theirs.                                                              *)
EXTENDS Telemetry, TLAPS

(***************************************************************************)
(* The scan.                                                               *)
(***************************************************************************)
(* Every variable keeps its type. *)
THEOREM ScanTypeCorrect == Spec => []TypeOK
<1> USE IntervalAssumption, FramesAssumption DEF TypeOK, task, Goto, HostGoto
<1>1. Init => TypeOK
  BY DEF Init
<1>2. TypeOK /\ [Next]_vars => TypeOK'
  <2> SUFFICES ASSUME TypeOK, [Next]_vars PROVE TypeOK'
    OBVIOUS
  <2>1. CASE Task
    BY <2>1 DEF Task, InitFails, CryptoInit, BleInit, Register, Poll, GapDisc,
                GapDiscFails, SetScanning
  <2>2. CASE Host
    BY <2>2 DEF Host, OnSync, DataCallback, Posted, DiscComplete, OnReset
  <2>3. CASE HostReset \/ Tick
    BY <2>3 DEF HostReset, Tick
  <2>4. ASSUME NEW f \in Frames, Advertise(f) PROVE TypeOK'
    BY <2>4 DEF Advertise
  <2>5. CASE UNCHANGED vars
    BY <2>5 DEF vars
  <2> QED BY <2>1, <2>2, <2>3, <2>4, <2>5 DEF Next
<1> QED BY <1>1, <1>2, PTL DEF Spec

(* The flag follows the discovery, and the callbacks find what they need.  *)
THEOREM ScanInvariant == Spec => []ScanInv
<1>1. Init => ScanInv
  BY DEF Init, ScanInv
<1>2. TypeOK /\ ScanInv /\ [Next]_vars => ScanInv'
  <2> SUFFICES ASSUME TypeOK, ScanInv, [Next]_vars PROVE ScanInv'
    OBVIOUS
  <2> USE DEF TypeOK, ScanInv, task, Goto, HostGoto
  <2>1. CASE Task
    <3>1. CASE InitFails BY <3>1 DEF InitFails
    <3>2. CASE CryptoInit BY <3>2 DEF CryptoInit
    <3>3. CASE BleInit BY <3>3 DEF BleInit
    <3>4. CASE Register BY <3>4 DEF Register
    <3>5. CASE Poll BY <3>5 DEF Poll
    <3>6. CASE GapDisc BY <3>6 DEF GapDisc
    <3>7. CASE GapDiscFails BY <3>7 DEF GapDiscFails
    <3>8. CASE SetScanning BY <3>8 DEF SetScanning
    <3> QED BY <2>1, <3>1, <3>2, <3>3, <3>4, <3>5, <3>6, <3>7, <3>8 DEF Task
  <2>2. CASE Host
    BY <2>2 DEF Host, OnSync, DataCallback, Posted, DiscComplete, OnReset
  <2>3. CASE HostReset \/ Tick
    BY <2>3 DEF HostReset, Tick
  <2>4. ASSUME NEW f \in Frames, Advertise(f) PROVE ScanInv'
    BY <2>4 DEF Advertise
  <2>5. CASE UNCHANGED vars
    BY <2>5 DEF vars
  <2> QED BY <2>1, <2>2, <2>3, <2>4, <2>5 DEF Next
<1> QED BY <1>1, <1>2, ScanTypeCorrect, PTL DEF Spec

(* No advertisement is handled without the key and the callback            *)
(* (ble_task.c:79-93).                                                     *)
THEOREM FramesAreHandledHolds == Spec => []FramesAreHandled
<1>1. ScanInv => FramesAreHandled
  BY DEF ScanInv, FramesAreHandled
<1> QED BY <1>1, ScanInvariant, PTL

(* A discovery is never started over another (victron_ble.c:176, 228, 255).*)
THEOREM NeverStartsTwiceHolds == Spec => []NeverStartsTwice
<1>1. ScanInv => NeverStartsTwice
  BY DEF ScanInv, NeverStartsTwice
<1> QED BY <1>1, ScanInvariant, PTL

-----------------------------------------------------------------------------
(***************************************************************************)
(* The senders.                                                            *)
(***************************************************************************)
(* Every variable keeps its type, the counter within its largest value. *)
THEOREM SendTypeCorrect == SendSpec => []SendTypeOK
<1> USE SendersAssumption, MaxErrorsAssumption DEF SendTypeOK, Nets
<1>1. SendInit => SendTypeOK
  BY DEF SendInit
<1>2. SendTypeOK /\ [SendNext]_sendVars => SendTypeOK'
  <2> SUFFICES ASSUME SendTypeOK, [SendNext]_sendVars PROVE SendTypeOK'
    OBVIOUS
  <2> USE DEF At, Sets, Holds, Lost, Up
  <2>1. ASSUME NEW s \in Senders, Call(s) \/ Return(s) PROVE SendTypeOK'
    BY <2>1 DEF Call, Return
  <2>2. ASSUME NEW s \in Senders, Inner(s) PROVE SendTypeOK'
    <3>1. CASE MakeBody(s) BY <3>1 DEF MakeBody
    <3>2. CASE NoBody(s) BY <3>2 DEF NoBody
    <3>3. CASE Check(s) BY <3>3 DEF Check
    <3>4. CASE NotConnected(s) BY <3>4 DEF NotConnected
    <3>5. CASE ClientInit(s) BY <3>5 DEF ClientInit
    <3>6. CASE NoClient(s) BY <3>6 DEF NoClient
    <3>7. CASE Stored(s) BY <3>7 DEF Stored
    <3>8. CASE AnswerLost(s) BY <3>8 DEF AnswerLost
    <3>9. CASE Refused(s) BY <3>9 DEF Refused
    <3>10. CASE NoAnswer(s) BY <3>10 DEF NoAnswer
    <3>11. CASE Cleanup(s) BY <3>11 DEF Cleanup
    <3>12. CASE Count(s) BY <3>12 DEF Count, NewCount
    <3> QED BY <2>2, <3>1, <3>2, <3>3, <3>4, <3>5, <3>6, <3>7, <3>8, <3>9,
               <3>10, <3>11, <3>12 DEF Inner
  <2>3. ASSUME NEW to \in Nets, NetChanges(to) PROVE SendTypeOK'
    BY <2>3 DEF NetChanges
  <2>4. CASE UNCHANGED sendVars
    BY <2>4 DEF sendVars
  <2> QED BY <2>1, <2>2, <2>3, <2>4 DEF SendNext
<1> QED BY <1>1, <1>2, PTL DEF SendSpec

(* What a sender holds follows from where it is, and the counter covers    *)
(* the losses of the code's own making.                                    *)
THEOREM MetricsInvariant == SendSpec => []MetricsInv
<1> USE SendersAssumption, MaxErrorsAssumption DEF MetricsInv
<1>1. SendInit => MetricsInv
  BY DEF SendInit
<1>2. SendTypeOK /\ MetricsInv /\ [SendNext]_sendVars => MetricsInv'
  <2> SUFFICES ASSUME SendTypeOK, MetricsInv, [SendNext]_sendVars PROVE MetricsInv'
    OBVIOUS
  <2> USE DEF SendTypeOK, At, Sets, Holds, Lost, Up
  <2>1. ASSUME NEW s \in Senders, Call(s) \/ Return(s) PROVE MetricsInv'
    BY <2>1 DEF Call, Return
  <2>2. ASSUME NEW s \in Senders, Inner(s) PROVE MetricsInv'
    <3>1. CASE MakeBody(s) BY <3>1 DEF MakeBody
    <3>2. CASE NoBody(s) BY <3>2 DEF NoBody
    <3>3. CASE Check(s) BY <3>3 DEF Check
    <3>4. CASE NotConnected(s) BY <3>4 DEF NotConnected
    <3>5. CASE ClientInit(s) BY <3>5 DEF ClientInit
    <3>6. CASE NoClient(s) BY <3>6 DEF NoClient
    <3>7. CASE Stored(s) BY <3>7 DEF Stored
    <3>8. CASE AnswerLost(s) BY <3>8 DEF AnswerLost
    <3>9. CASE Refused(s) BY <3>9 DEF Refused
    <3>10. CASE NoAnswer(s) BY <3>10 DEF NoAnswer
    <3>11. CASE Cleanup(s) BY <3>11 DEF Cleanup
    <3>12. CASE Count(s)
      <4> USE <3>12 DEF Count, NewCount
      <4>1. /\ spc[s] = "count" /\ spc' = [spc EXCEPT ![s] = "return"]
            /\ held' = [held EXCEPT ![s] = held[s] \ {"body"}]
            /\ counter' = IF s = "system" THEN NewCount(ret[s]) ELSE counter
            /\ UNCHANGED <<ret, net, unreported, gap>>
        OBVIOUS
      <4>2. held[s] = {"body"}
        BY <4>1
      <4>3. \A q \in Senders :
              held'[q] = CASE spc'[q] \in {"check", "init", "count"} -> {"body"}
                           [] spc'[q] \in {"perform", "cleanup"} -> {"body", "client"}
                           [] OTHER -> {}
        <5> TAKE q \in Senders
        <5>1. CASE q = s BY <5>1, <4>1, <4>2
        <5>2. CASE q # s BY <5>2, <4>1
        <5> QED BY <5>1, <5>2
      <4>4. gap' = "no" => IF spc'["system"] \in {"cleanup", "count"}
                          THEN IF ret'["system"] = "OK" THEN unreported' = 0 ELSE unreported' <= Up(counter)'
                          ELSE unreported' <= counter'
        <5>1. CASE s = "system" BY <5>1, <4>1
        <5>2. CASE s # "system" BY <5>2, <4>1
        <5> QED BY <5>1, <5>2
      <4> QED BY <4>3, <4>4
    <3> QED BY <2>2, <3>1, <3>2, <3>3, <3>4, <3>5, <3>6, <3>7, <3>8, <3>9,
               <3>10, <3>11, <3>12 DEF Inner
  <2>3. ASSUME NEW to \in Nets, NetChanges(to) PROVE MetricsInv'
    BY <2>3 DEF NetChanges
  <2>4. CASE UNCHANGED sendVars
    BY <2>4 DEF sendVars
  <2> QED BY <2>1, <2>2, <2>3, <2>4 DEF SendNext
<1> QED BY <1>1, <1>2, SendTypeCorrect, PTL DEF SendSpec

(* No sender leaves its body or its client behind (metrics_task.c:39-119). *)
THEOREM NothingHeldHolds == SendSpec => []NothingHeld
<1>1. MetricsInv => NothingHeld
  BY DEF MetricsInv, NothingHeld
<1> QED BY <1>1, MetricsInvariant, PTL

(* The reported counter accounts for every loss the code can see, up to    *)
(* its largest value (metrics_task.c:204-212).                             *)
THEOREM LossesAreCountedHolds == SendSpec => []LossesAreCounted
<1>1. MetricsInv => LossesAreCounted
  BY DEF MetricsInv, LossesAreCounted
<1> QED BY <1>1, MetricsInvariant, PTL

-----------------------------------------------------------------------------
(***************************************************************************)
(* The composition.                                                        *)
(***************************************************************************)
(* A step of the composition is a step of the scan, or leaves it alone:    *)
(* posting from inside the callback breaks no promise of safety of the     *)
(* scan (ble_task.c:69).                                                   *)
THEOREM RefinesScan == TelSpec => Spec
<1>1. TelInit => Init
  BY DEF TelInit
<1>2. [TelNext]_allVars => [Next]_vars
  <2> SUFFICES ASSUME [TelNext]_allVars PROVE [Next]_vars
    OBVIOUS
  <2> USE DEF Next, Host
  <2>1. CASE CallsPost BY <2>1 DEF CallsPost
  <2>2. CASE PostReturns BY <2>2 DEF PostReturns
  <2>3. CASE HostAlone BY <2>3 DEF HostAlone
  <2>4. CASE ScanAlone BY <2>4 DEF ScanAlone
  <2>5. CASE Network BY <2>5 DEF Network
  <2>6. CASE \E s \in Senders : Sends(s) BY <2>6 DEF Sends
  <2>7. CASE UNCHANGED allVars BY <2>7 DEF allVars
  <2> QED BY <2>1, <2>2, <2>3, <2>4, <2>5, <2>6, <2>7 DEF TelNext
<1> QED BY <1>1, <1>2, PTL DEF TelSpec, Spec

(* And it is a step of the senders, or leaves them alone.                  *)
THEOREM RefinesSenders == TelSpec => SendSpec
<1>1. TelInit => SendInit
  BY DEF TelInit
<1>2. [TelNext]_allVars => [SendNext]_sendVars
  <2> SUFFICES ASSUME [TelNext]_allVars PROVE [SendNext]_sendVars
    OBVIOUS
  <2> USE MpptAssumption DEF SendNext
  <2>1. CASE CallsPost BY <2>1 DEF CallsPost
  <2>2. CASE PostReturns BY <2>2 DEF PostReturns
  <2>3. CASE HostAlone BY <2>3 DEF HostAlone
  <2>4. CASE ScanAlone BY <2>4 DEF ScanAlone
  <2>5. CASE Network BY <2>5 DEF Network
  <2>6. CASE \E s \in Senders : Sends(s) BY <2>6 DEF Sends
  <2>7. CASE UNCHANGED allVars BY <2>7 DEF allVars
  <2> QED BY <2>1, <2>2, <2>3, <2>4, <2>5, <2>6, <2>7 DEF TelNext
<1> QED BY <1>1, <1>2, PTL DEF TelSpec, SendSpec

(* What holds of the parts holds of the composition.                       *)
THEOREM PartsHold ==
  TelSpec => [](TypeOK /\ ScanInv /\ SendTypeOK /\ MetricsInv)
BY RefinesScan, RefinesSenders, ScanTypeCorrect, ScanInvariant,
   SendTypeCorrect, MetricsInvariant, PTL

(* Every variable of the composition keeps its type.                       *)
THEOREM TelTypeCorrect == TelSpec => []TelTypeOK
<1>1. TypeOK /\ SendTypeOK => TelTypeOK
  BY DEF TelTypeOK
<1> QED BY <1>1, PartsHold, PTL

(* The host task is in its sender exactly while it handles a frame, and    *)
(* leaves nothing behind (ble_task.c:69, metrics_task.c:119).              *)
THEOREM OnePostAtATimeHolds == TelSpec => []OnePostAtATime
<1> USE MpptAssumption
<1> DEFINE InPost == (hpc = "post") <=> (spc["mppt"] # "idle")
<1>1. TelInit => InPost
  BY DEF TelInit, Init, SendInit
<1>2. SendTypeOK /\ InPost /\ [TelNext]_allVars => InPost'
  <2> SUFFICES ASSUME SendTypeOK, InPost, [TelNext]_allVars PROVE InPost'
    OBVIOUS
  <2> USE DEF SendTypeOK, HostGoto, At
  <2>1. CASE CallsPost BY <2>1 DEF CallsPost, Call, DataCallback
  <2>2. CASE PostReturns BY <2>2 DEF PostReturns, Posted, Return
  <2>3. CASE HostAlone
    BY <2>3 DEF HostAlone, OnSync, DataCallback, DiscComplete, OnReset, sendVars
  <2>4. CASE ScanAlone
    <3>1. UNCHANGED sendVars BY <2>4 DEF ScanAlone
    <3>2. CASE Task
      BY <3>1, <3>2 DEF Task, InitFails, CryptoInit, BleInit, Register, Poll, GapDisc,
                        GapDiscFails, SetScanning, sendVars
    <3>3. CASE HostReset BY <3>1, <3>3 DEF HostReset, sendVars
    <3>4. CASE Tick BY <3>1, <3>4 DEF Tick, sendVars
    <3>5. ASSUME NEW f \in Frames, Advertise(f) PROVE InPost'
      BY <3>1, <3>5 DEF Advertise, sendVars
    <3> QED BY <2>4, <3>2, <3>3, <3>4, <3>5 DEF ScanAlone
  <2>5. CASE Network BY <2>5 DEF Network, NetChanges, vars
  <2>6. ASSUME NEW s \in Senders, Sends(s) PROVE InPost'
    <3>1. hpc' = hpc BY <2>6 DEF Sends, vars
    <3>2. CASE Inner(s)
      BY <3>1, <3>2 DEF Inner, MakeBody, NoBody, Check, NotConnected, ClientInit, NoClient,
                        Stored, AnswerLost, Refused, NoAnswer, Cleanup, Count
    <3>3. CASE s # "mppt" /\ (Call(s) \/ Return(s))
      BY <3>1, <3>3 DEF Call, Return
    <3> QED BY <2>6, <3>2, <3>3 DEF Sends
  <2>7. CASE UNCHANGED allVars BY <2>7 DEF allVars, vars, sendVars
  <2> QED BY <2>1, <2>2, <2>3, <2>4, <2>5, <2>6, <2>7 DEF TelNext
<1>3. InPost /\ MetricsInv => OnePostAtATime
  BY DEF OnePostAtATime, MetricsInv
<1> QED BY <1>1, <1>2, <1>3, PartsHold, PTL DEF TelSpec
=============================================================================

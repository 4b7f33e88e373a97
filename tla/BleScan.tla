------------------------------ MODULE BleScan ------------------------------
(***************************************************************************)
(* Listening to the Victron charger: victron_ble_task and its callback     *)
(* victron_on_ble_data (ble_task.c) on the scan state of victron_ble.c.    *)
(* The task starts the discovery; nimble's host task (external) reports    *)
(* advertisements and the end of the discovery to the callbacks, which     *)
(* share ble_state with the task without a lock.                           *)
(***************************************************************************)
EXTENDS Naturals

CONSTANTS
  Frames,    \* what the charger sends: "good", or "bad" if it does not decode
  Interval   \* s_read_interval_ms, in ticks

ASSUME FramesAssumption   == Frames \subseteq {"good", "bad"}
ASSUME IntervalAssumption == Interval \in Nat \ {0}

VARIABLES
  pc,        \* where victron_ble_task is
  ctx,       \* s_crypto_ctx: "zero" or "keyed"
  cb,        \* ble_state.data_callback: "null" or "set"
  scanning,  \* ble_state.scanning: "on" or "off"
  host,      \* nimble's host task: "none" until started, "off", or "synced"
  disc,      \* does the host have a discovery procedure: "on" or "off"
  hpc,       \* the callback in which the host task is
  frame,     \* the advertisement it handles
  age        \* the time since s_last_process_us, up to Interval

task == <<pc, ctx, cb>>
vars == <<pc, ctx, cb, scanning, host, disc, hpc, frame, age>>

Init ==
  /\ pc = "crypto" /\ ctx = "zero" /\ cb = "null"
  /\ scanning = "off" /\ host = "none" /\ disc = "off"
  /\ hpc = "idle" /\ frame = "none" /\ age = Interval

-----------------------------------------------------------------------------
(***************************************************************************)
(* victron_ble_task                                                        *)
(***************************************************************************)
Goto(from, to) == pc = from /\ pc' = to

\* A failure of either ends the task.
InitFails ==
  /\ \/ Goto("crypto", "ended") \/ Goto("init", "ended")
  /\ UNCHANGED <<ctx, cb, scanning, host, disc, hpc, frame, age>>
CryptoInit ==
  /\ Goto("crypto", "init") /\ ctx' = "keyed"
  /\ UNCHANGED <<cb, scanning, host, disc, hpc, frame, age>>
\* Mutant: the callback is left for later.
BleInitAndPoll ==
  /\ Goto("init", "poll") /\ host' = "off"
  /\ UNCHANGED <<ctx, cb, scanning, disc, hpc, frame, age>>
BleInit ==
  /\ Goto("init", "register") /\ host' = "off"
  /\ UNCHANGED <<ctx, cb, scanning, disc, hpc, frame, age>>
Register ==
  /\ Goto("register", "poll") /\ cb' = "set"
  /\ UNCHANGED <<ctx, scanning, host, disc, hpc, frame, age>>

\* Mutant: the flag is tested the wrong way round.
PollInverted ==
  /\ scanning = "on" /\ Goto("poll", "start")
  /\ UNCHANGED <<ctx, cb, scanning, host, disc, hpc, frame, age>>
\* Once a second; a new attempt needs five seconds since the last one.
Poll ==
  /\ scanning = "off" /\ Goto("poll", "start")
  /\ UNCHANGED <<ctx, cb, scanning, host, disc, hpc, frame, age>>
\* ble_gap_disc, with no time limit: it needs a synced host, and may fail.
GapDisc ==
  /\ Goto("start", "started") /\ host = "synced" /\ disc = "off" /\ disc' = "on"
  /\ UNCHANGED <<ctx, cb, scanning, host, hpc, frame, age>>
GapDiscFails ==
  /\ Goto("start", "poll")
  /\ UNCHANGED <<ctx, cb, scanning, host, disc, hpc, frame, age>>
\* Mutant: the flag is not set.
SetScanningNot ==
  /\ Goto("started", "poll")
  /\ UNCHANGED <<ctx, cb, scanning, host, disc, hpc, frame, age>>
\* victron_ble.c:255: only now is the flag set.
SetScanning ==
  /\ Goto("started", "poll") /\ scanning' = "on"
  /\ UNCHANGED <<ctx, cb, host, disc, hpc, frame, age>>

-----------------------------------------------------------------------------
(***************************************************************************)
(* The host task.  Only the charger's advertisements with its company id   *)
(* get as far as the data callback; the others change nothing.             *)
(***************************************************************************)
HostGoto(from, to) == hpc = from /\ hpc' = to

OnSync ==
  /\ host = "off" /\ hpc = "idle" /\ host' = "synced"
  /\ UNCHANGED <<task, scanning, disc, hpc, frame, age>>
Advertise(f) ==
  /\ disc = "on" /\ HostGoto("idle", "data") /\ frame' = f
  /\ UNCHANGED <<task, scanning, host, disc, age>>

\* Mutant: the interval is counted from the last frame received.
DataCallbackSinceRx ==
  /\ age' = 0
  /\ \/ age = Interval /\ frame = "good" /\ HostGoto("data", "post")
     \/ age < Interval /\ HostGoto("data", "idle")
     \/ age = Interval /\ frame = "bad" /\ HostGoto("data", "idle")
  /\ UNCHANGED <<task, scanning, host, disc, frame>>
\* ble_scan_cb:154 and victron_on_ble_data.  A frame is dropped inside the
\* interval; one that does not decode begins an interval nevertheless.
DataCallback ==
  /\ \/ /\ cb = "null" \/ age < Interval
        /\ HostGoto("data", "idle") /\ UNCHANGED age
     \/ /\ cb = "set" /\ age = Interval /\ age' = 0
        /\ IF frame = "good" /\ ctx = "keyed" THEN HostGoto("data", "post")
                                             ELSE HostGoto("data", "idle")
  /\ UNCHANGED <<task, scanning, host, disc, frame>>
\* mppt_send_to_influx returns; nobody looks at its result.
Posted ==
  /\ HostGoto("post", "idle") /\ UNCHANGED <<task, scanning, host, disc, frame, age>>

\* The controller fails: the host ends its procedure, then tells.
HostReset ==
  /\ host = "synced" /\ hpc = "idle" /\ host' = "off" /\ disc' = "off"
  /\ hpc' = IF disc = "on" THEN "complete" ELSE "reset"
  /\ UNCHANGED <<task, scanning, frame, age>>
DiscComplete ==
  /\ HostGoto("complete", "reset") /\ scanning' = "off"
  /\ UNCHANGED <<task, host, disc, frame, age>>
\* ble_on_reset touches only the state of a connection, which is unused.
OnReset ==
  /\ HostGoto("reset", "idle") /\ UNCHANGED <<task, scanning, host, disc, frame, age>>

Tick == /\ age < Interval /\ age' = age + 1
        /\ UNCHANGED <<task, scanning, host, disc, hpc, frame>>

Task == \/ InitFails \/ CryptoInit \/ BleInit \/ Register
        \/ Poll \/ GapDisc \/ GapDiscFails \/ SetScanning
Host == OnSync \/ DataCallback \/ Posted \/ DiscComplete \/ OnReset

Next == Task \/ Host \/ HostReset \/ Tick \/ \E f \in Frames : Advertise(f)

Spec == Init /\ [][Next]_vars

(* Both tasks are scheduled and time passes; of the attempts to start a    *)
(* discovery on a synced host not every one fails (SF).                    *)
FairSpec == Spec /\ WF_vars(Task) /\ WF_vars(Host) /\ WF_vars(Tick) /\ SF_vars(GapDisc)

-----------------------------------------------------------------------------
TypeOK ==
  /\ pc \in {"crypto", "init", "register", "poll", "start", "started", "ended"}
  /\ ctx \in {"zero", "keyed"} /\ cb \in {"null", "set"}
  /\ scanning \in {"on", "off"} /\ disc \in {"on", "off"}
  /\ host \in {"none", "off", "synced"}
  /\ hpc \in {"idle", "data", "post", "complete", "reset"}
  /\ frame \in {"none", "good", "bad"} /\ age \in 0..Interval

(* An advertisement never finds the key or the callback missing, although  *)
(* the host task runs before the callback is registered (ble_task.c:86-93).*)
FramesAreHandled == hpc = "data" => cb = "set" /\ ctx = "keyed"

(* ble_gap_disc is never called while a discovery runs: whenever the flag  *)
(* is off outside of victron_ble_scan_start there is none, however resets  *)
(* and the two writers of the flag interleave (victron_ble.c:176, 255).    *)
NeverStartsTwice == pc = "start" => disc = "off"

(* The inductive invariant of the two.                                     *)
ScanInv ==
  /\ pc \in {"crypto", "init", "register", "start", "ended"} => disc = "off"
  /\ pc = "poll" /\ disc = "on" => scanning = "on"
  /\ pc \in {"poll", "start", "started"} => cb = "set" /\ ctx = "keyed"
  /\ pc \in {"init", "register"} => ctx = "keyed"
  /\ host = "none" \/ pc # "crypto"
  /\ disc = "on" => host = "synced"
  /\ host = "synced" => hpc \notin {"complete", "reset"}
  /\ hpc \in {"data", "post"} => cb = "set" /\ ctx = "keyed"
  /\ pc \in {"crypto", "init", "ended"} => host = "none"
  /\ host = "none" => hpc = "idle"
  /\ pc = "start" => scanning = "off"

(* The flag says "on", no discovery runs, and nothing will clear it.       *)
Stuck == pc = "poll" /\ scanning = "on" /\ disc = "off" /\ hpc # "complete"

(* A device whose host stays synced in the end listens for good, whatever  *)
(* resets came before, unless the flag is stuck (ble_task.c:100-107).      *)
KeepsListening ==
  [](pc # "ended" /\ ~Stuck) /\ <>[](host = "synced") => <>[](disc = "on")

(* If frames keep coming and those that do not decode cease, frames keep   *)
(* being posted: the rate limit drops some, and a bad frame uses up a      *)
(* window, but not for good (ble_task.c:38-44).                            *)
KeepsPosting ==
  []<>(hpc = "data") /\ <>[](frame # "bad") => []<>(hpc = "post")

(* victron_ble.h: "@return true si esta escaneando".                       *)
ScanningIsTrue == ~Stuck

=============================================================================

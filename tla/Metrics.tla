------------------------------ MODULE Metrics -------------------------------
(***************************************************************************)
(* The three senders of metrics_task.c, each called by a task of its own:  *)
(* mppt_send_to_influx by nimble's host task, bme_send_to_influx by        *)
(* bme280_task, system_send_to_influx by custom_metrics_task.  They share  *)
(* nothing but the network; the last one keeps system_metric_error_counter *)
(* and reports it with each record.                                        *)
(***************************************************************************)
EXTENDS Naturals

CONSTANTS
  Senders,   \* the records that are sent: "system" and others
  MaxErrors  \* UINT32_MAX

ASSUME SendersAssumption   == "system" \in Senders
ASSUME MaxErrorsAssumption == MaxErrors \in Nat \ {0}

VARIABLES
  spc,         \* where each sender is
  held,        \* what each sender has to give back: its body, its HTTP client
  ret,         \* err in each sender, "OK" outside of it
  counter,     \* system_metric_error_counter
  net,         \* the link and the server: "down", "silent", "refuses", "takes"
  unreported,  \* history: the system records lost since one was stored
  gap          \* history: has one of these been lost where the code does not see it?

sendVars == <<spc, held, ret, counter, net, unreported, gap>>

SendInit ==
  /\ spc = [s \in Senders |-> "idle"] /\ held = [s \in Senders |-> {}]
  /\ ret = [s \in Senders |-> "OK"] /\ counter = 0 /\ net = "down"
  /\ unreported = 0 /\ gap = "no"

-----------------------------------------------------------------------------
At(s, from, to) == spc[s] = from /\ spc' = [spc EXCEPT ![s] = to]
Sets(s, err)    == ret' = [ret EXCEPT ![s] = err]
Holds(s, what)  == held' = [held EXCEPT ![s] = what]

\* ++ up to the largest value, for the counter and for the history beside it.
Up(n) == IF n # MaxErrors THEN n + 1 ELSE n

\* A record of s is lost; seen tells whether the code takes note.
Lost(s, seen) ==
  IF s = "system" THEN unreported' = Up(unreported) /\ gap' = (IF seen = "yes" THEN gap ELSE "yes")
                  ELSE UNCHANGED <<unreported, gap>>

Call(s) ==
  /\ At(s, "idle", "body")
  /\ UNCHANGED <<held, ret, counter, net, unreported, gap>>

\* Size, malloc and text; the counter is in the text of the system record.
\* Early returns leave nothing behind and are not counted.
MakeBody(s) ==
  /\ At(s, "body", "check") /\ Holds(s, {"body"})
  /\ UNCHANGED <<ret, counter, net, unreported, gap>>
NoBody(s) ==
  /\ At(s, "body", "return") /\ Lost(s, "no")
  /\ \E err \in {"FAIL", "NO_MEM"} : Sets(s, err)
  /\ UNCHANGED <<held, counter, net>>

(***************************************************************************)
(* send_metrics                                                            *)
(***************************************************************************)
Check(s) ==
  /\ net # "down" /\ At(s, "check", "init")
  /\ UNCHANGED <<held, ret, counter, net, unreported, gap>>
NotConnected(s) ==
  /\ net = "down" /\ At(s, "check", "count") /\ Sets(s, "FAIL") /\ Lost(s, "yes")
  /\ UNCHANGED <<held, counter, net>>
ClientInit(s) ==
  /\ At(s, "init", "perform") /\ Holds(s, {"body", "client"})
  /\ UNCHANGED <<ret, counter, net, unreported, gap>>
NoClient(s) ==
  /\ At(s, "init", "count") /\ Sets(s, "FAIL") /\ Lost(s, "yes")
  /\ UNCHANGED <<held, counter, net>>

\* esp_http_client_perform, for ten seconds at most.  It returns ESP_OK for
\* any status: a record the server refuses is lost unseen.
Stored(s) ==
  /\ net = "takes" /\ At(s, "perform", "cleanup") /\ Sets(s, "OK")
  /\ IF s = "system" THEN unreported' = 0 /\ gap' = "no" ELSE UNCHANGED <<unreported, gap>>
  /\ UNCHANGED <<held, counter, net>>
\* The record is stored, but the link fails before the answer is here.
AnswerLost(s) ==
  /\ net # "takes" /\ At(s, "perform", "cleanup") /\ Sets(s, "FAIL")
  /\ IF s = "system" THEN unreported' = 0 /\ gap' = "no" ELSE UNCHANGED <<unreported, gap>>
  /\ UNCHANGED <<held, counter, net>>
Refused(s) ==
  /\ net = "refuses" /\ At(s, "perform", "cleanup") /\ Sets(s, "OK") /\ Lost(s, "no")
  /\ UNCHANGED <<held, counter, net>>
NoAnswer(s) ==
  /\ net \in {"down", "silent"} /\ At(s, "perform", "cleanup") /\ Sets(s, "FAIL")
  /\ Lost(s, "yes") /\ UNCHANGED <<held, counter, net>>

\* Mutant: the client is only cleaned up after a success.
CleanupIfOk(s) ==
  /\ At(s, "cleanup", "count") /\ Holds(s, IF ret[s] = "OK" THEN {"body"} ELSE held[s])
  /\ UNCHANGED <<ret, counter, net, unreported, gap>>
Cleanup(s) ==
  /\ At(s, "cleanup", "count") /\ Holds(s, {"body"})
  /\ UNCHANGED <<ret, counter, net, unreported, gap>>

-----------------------------------------------------------------------------
\* Mutants: the counter is cleared whatever happened; it wraps; it is never
\* cleared.
NewCountZero(err)  == 0
NewCountWraps(err) == IF err = "OK" THEN 0 ELSE counter + 1
NewCountOnlyUp(err) == Up(counter)
NewCount(err) == IF err = "OK" THEN 0 ELSE Up(counter)

Count(s) ==
  /\ At(s, "count", "return") /\ Holds(s, held[s] \ {"body"})
  /\ counter' = IF s = "system" THEN NewCount(ret[s]) ELSE counter
  /\ UNCHANGED <<ret, net, unreported, gap>>
\* Nobody but custom_metrics_task looks at the result, which it logs.
Return(s) ==
  /\ At(s, "return", "idle") /\ Sets(s, "OK")
  /\ UNCHANGED <<held, counter, net, unreported, gap>>

\* The access point and the server come and go (external).
NetChanges(to) ==
  /\ net' = to /\ UNCHANGED <<spc, held, ret, counter, unreported, gap>>

Inner(s) ==
  \/ MakeBody(s) \/ NoBody(s) \/ Check(s) \/ NotConnected(s) \/ ClientInit(s) \/ NoClient(s)
  \/ Stored(s) \/ AnswerLost(s) \/ Refused(s) \/ NoAnswer(s) \/ Cleanup(s) \/ Count(s)
Nets == {"down", "silent", "refuses", "takes"}

SendNext ==
  \/ \E s \in Senders : Call(s) \/ Inner(s) \/ Return(s)
  \/ \E to \in Nets : NetChanges(to)

SendSpec == SendInit /\ [][SendNext]_sendVars

-----------------------------------------------------------------------------
SendTypeOK ==
  /\ spc \in [Senders -> {"idle", "body", "check", "init", "perform", "cleanup", "count", "return"}]
  /\ held \in [Senders -> SUBSET {"body", "client"}]
  /\ ret \in [Senders -> {"OK", "FAIL", "NO_MEM"}]
  /\ counter \in 0..MaxErrors /\ net \in Nets
  /\ unreported \in 0..MaxErrors /\ gap \in {"no", "yes"}

(* Whatever fails, a sender that has returned holds neither its body nor   *)
(* its HTTP client (metrics_task.c:39-119).                                *)
NothingHeld == \A s \in Senders : spc[s] \in {"return", "idle"} => held[s] = {}

(* The counter a system record reports accounts for every record lost      *)
(* since one was stored, however the link, the server and its answers      *)
(* fail, up to the largest value - unless one was lost where the code does *)
(* not look: for want of memory, or by a refusal (metrics_task.c:204-212). *)
LossesAreCounted ==
  gap = "no" /\ spc["system"] \in {"idle", "body", "return"} => unreported <= counter

(* What a record holds, and what the counter will be, at each step.        *)
MetricsInv ==
  /\ \A s \in Senders :
       held[s] = CASE spc[s] \in {"check", "init", "count"} -> {"body"}
                   [] spc[s] \in {"perform", "cleanup"} -> {"body", "client"}
                   [] OTHER -> {}
  /\ gap = "no" =>
       IF spc["system"] \in {"cleanup", "count"}
       THEN IF ret["system"] = "OK" THEN unreported = 0 ELSE unreported <= Up(counter)
       ELSE unreported <= counter
=============================================================================

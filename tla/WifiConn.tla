------------------------------ MODULE WifiConn ------------------------------
(***************************************************************************)
(* The station connection of main/src/wifi.c and the two callers of it,    *)
(* main.c (app_main) and gpio.c (relay_task).                              *)
(*                                                                         *)
(* Three actors interleave.  The caller runs custom_wifi_sta_do_connect    *)
(* and waits on two binary semaphores.  The event task of ESP-IDF runs the *)
(* four handlers one event at a time, under the mutex of the event loop,   *)
(* so that registering and unregistering a handler wait for the handler    *)
(* that is running.  The WiFi driver with the access point behind it posts *)
(* the events.  The semaphores and s_retry_num are plain static variables  *)
(* shared by the caller and the handlers, with no lock around them.        *)
(***************************************************************************)
EXTENDS Naturals, Sequences

CONSTANTS MaxRetry,   \* CONFIG_EXAMPLE_WIFI_CONN_MAX_RETRY (6 in sdkconfig)
          QueueLen    \* bound: events waiting when another is posted

ASSUME MaxRetryAssumption == MaxRetry \in Nat
ASSUME QueueLenAssumption == QueueLen \in Nat \ {0}

VARIABLES
  \* the caller
  op,      \* the call being made, in the order main.c and gpio.c make them
  pc,      \* where in it
  ret,     \* the value it returned
  relay,   \* the relay output, which powers the access point
  \* the static variables of wifi.c
  s4,      \* s_semph_get_ip_addrs: the pointer and the semaphore behind it
  s6,      \* s_semph_get_ip6_addrs
  retry,   \* s_retry_num
  \* the event loop
  handlers, \* the four handlers of wifi.c: registered (on) or not
  hpc,     \* where the running handler is, "idle" when none runs
  reg,     \* s_retry_num as the disconnect handler loaded it
  ev,      \* the queue of posted events
  \* the driver and the network interface
  drv,     \* the station: "up" is associated with the interface up
  ip4,     \* the interface has an IPv4 address
  ll,      \* the link-local IPv6 address
  \* history
  got      \* address events handled since the call began

caller == <<op, pc, ret, relay>>
loop   == <<handlers, hpc, reg>>
driver == <<drv, ip4, ll>>
vars   == <<op, pc, ret, relay, s4, s6, retry, handlers, hpc, reg, ev,
            drv, ip4, ll, got>>

-----------------------------------------------------------------------------
(* "init" is wifi_init (main.c:105, 138), "otaFirst" the connection of     *)
(* main.c:140, "connect" and "disconnect" those of gpio.c:33 and 37, "ota" *)
(* that of gpio.c:55.                                                      *)
Ops    == {"init", "otaFirst", "connect", "disconnect", "ota"}
Events == {"disc", "roam", "conn", "ip4", "ip6", "ip6other"}
Errors == {"FAIL", "NO_MEM", "WIFI"}

\* "empty" and "full" are a live binary semaphore, "dead" is a pointer that
\* still names a semaphore vSemaphoreDelete has freed.
Sem    == {"null", "empty", "full", "dead"}
Live   == {"empty", "full"}

CallerPC  == {"call", "new4", "new6", "zero", "register", "config", "connect",
              "take4", "del4", "null4", "take6", "del6", "null6", "judge",
              "undo", "ret", "off", "ota", "restart", "abort", "fault"}
Stopped   == {"restart", "abort", "fault"}
Exhausted == {"xCheck4", "xGive4", "xCheck6", "xGive6", "xDrop"}
HandlerPC == {"idle", "disc", "roam", "reconnect",
              "check4", "give4", "check6", "give6"} \union Exhausted

Connected == drv = "up" /\ ip4 = "leased"       \* wifi_is_connected

Room == Len(ev) < QueueLen
Post(e) == ev' = Append(ev, e)

\* What a lost association or esp_wifi_disconnect does to the interface.
LinkDown == ip4' = "none" /\ ll' = "none"

-----------------------------------------------------------------------------
Init ==
  /\ op = "init" /\ pc = "call" /\ ret = "OK" /\ relay = "on"
  /\ s4 = "null" /\ s6 = "null" /\ retry = 0
  /\ handlers = "off" /\ hpc = "idle" /\ reg = 0 /\ ev = <<>>
  /\ drv = "off" /\ ip4 = "none" /\ ll = "none" /\ got = {}

(***************************************************************************)
(* The caller.                                                             *)
(***************************************************************************)
Running == pc \notin {"abort", "fault"}
Goto(from, to) == pc = from /\ pc' = to

\* wifi_init: custom_wifi_start, then do_connect.
CallInit ==
  /\ op = "init" /\ Goto("call", "new4")
  /\ drv' = "idle" /\ got' = {}
  /\ UNCHANGED <<op, ret, relay, s4, s6, retry, loop, ev, ip4, ll>>

\* wifi_connect_if_needed: nothing to do when connected, else do_connect.
CallConnect ==
  /\ op \in {"connect", "otaFirst", "ota"} /\ pc = "call"
  /\ IF Connected THEN pc' = "ret" /\ ret' = "OK" /\ got' = {"already"}
                  ELSE pc' = "new4" /\ got' = {} /\ UNCHANGED ret
  /\ UNCHANGED <<op, relay, s4, s6, retry, loop, ev, driver>>

\* wifi_disconnect_if_connected: the handlers stay registered when there is
\* no connection at this instant.
CallDisconnect ==
  /\ op = "disconnect" /\ pc = "call"
  /\ IF Connected THEN pc' = "undo" /\ UNCHANGED ret
                  ELSE pc' = "ret" /\ ret' = "OK"
  /\ UNCHANGED <<op, relay, s4, s6, retry, loop, ev, driver, got>>

\* esp_wifi_disconnect posts an event only if there was something to undo.
DriverDisconnect ==
  /\ LinkDown
  /\ IF drv \in {"connecting", "assoc", "up"}
       THEN drv' = "idle" /\ Post("disc")
       ELSE UNCHANGED <<drv, ev>>

\* custom_wifi_sta_do_disconnect, called by the relay task.
DoDisconnect ==
  /\ op = "disconnect" /\ Goto("undo", "ret") /\ ret' = "OK"
  /\ hpc = "idle" /\ handlers' = "off"
  /\ DriverDisconnect
  /\ UNCHANGED <<op, relay, s4, s6, retry, hpc, reg, got>>

\* xSemaphoreCreateBinary, which may find no memory.
CreateSem4 ==
  /\ pc = "new4"
  /\ \/ pc' = "new6" /\ s4' = "empty" /\ UNCHANGED ret
     \/ pc' = "ret" /\ s4' = "null" /\ ret' = "NO_MEM"
  /\ UNCHANGED <<op, relay, s6, retry, loop, ev, driver, got>>

\* On failure the first semaphore is deleted and its pointer kept.
CreateSem6 ==
  /\ pc = "new6"
  /\ \/ pc' = "zero" /\ s6' = "empty" /\ UNCHANGED <<s4, ret>>
     \/ pc' = "ret" /\ s6' = "null" /\ s4' = "dead" /\ ret' = "NO_MEM"
  /\ UNCHANGED <<op, relay, retry, loop, ev, driver, got>>

ZeroRetries ==
  /\ Goto("zero", "register") /\ retry' = 0
  /\ UNCHANGED <<op, ret, relay, s4, s6, loop, ev, driver, got>>

\* The four registrations.  Each waits for the loop mutex; they are one step
\* because nothing but MaxRetry failed attempts could tell them apart.
RegisterHandlers ==
  /\ Goto("register", "config") /\ hpc = "idle" /\ handlers' = "on"
  /\ UNCHANGED <<op, ret, relay, s4, s6, retry, hpc, reg, ev, driver, got>>

\* esp_wifi_set_config is refused while the station is connecting, and the
\* call is wrapped in ESP_ERROR_CHECK.
SetConfig ==
  /\ pc = "config"
  /\ pc' = IF drv = "connecting" THEN "abort" ELSE "connect"
  /\ UNCHANGED <<op, ret, relay, s4, s6, retry, loop, ev, driver, got>>

\* esp_wifi_connect: refused while connecting; from an association it either
\* is refused or drops that association first.
DriverConnect ==
  /\ pc = "connect"
  /\ \/ /\ drv = "idle" /\ drv' = "connecting" /\ pc' = "take4"
        /\ UNCHANGED <<ret, ev, ip4, ll>>
     \/ /\ drv \in {"assoc", "up"} /\ drv' = "connecting" /\ pc' = "take4"
        /\ Post("disc") /\ LinkDown /\ UNCHANGED ret
     \/ /\ drv \in {"connecting", "assoc", "up"}
        /\ pc' = "ret" /\ ret' = "WIFI" /\ UNCHANGED <<ev, driver>>
  /\ UNCHANGED <<op, relay, s4, s6, retry, loop, got>>

Take4 ==
  /\ Goto("take4", "del4") /\ s4 = "full" /\ s4' = "empty"
  /\ UNCHANGED <<op, ret, relay, s6, retry, loop, ev, driver, got>>
Delete4 ==
  /\ Goto("del4", "null4") /\ s4' = "dead"
  /\ UNCHANGED <<op, ret, relay, s6, retry, loop, ev, driver, got>>
Null4 ==
  /\ Goto("null4", "take6") /\ s4' = "null"
  /\ UNCHANGED <<op, ret, relay, s6, retry, loop, ev, driver, got>>

Take6 ==
  /\ Goto("take6", "del6") /\ s6 = "full" /\ s6' = "empty"
  /\ UNCHANGED <<op, ret, relay, s4, retry, loop, ev, driver, got>>
Delete6 ==
  /\ Goto("del6", "null6") /\ s6' = "dead"
  /\ UNCHANGED <<op, ret, relay, s4, retry, loop, ev, driver, got>>
Null6 ==
  /\ Goto("null6", "judge") /\ s6' = "null"
  /\ UNCHANGED <<op, ret, relay, s4, retry, loop, ev, driver, got>>

\* Mutant: the retry limit off by one.
JudgeOffByOne ==
  /\ Goto("judge", "ret")
  /\ ret' = IF retry > MaxRetry + 1 THEN "FAIL" ELSE "OK"
  /\ UNCHANGED <<op, relay, s4, s6, retry, loop, ev, driver, got>>

Judge ==
  /\ Goto("judge", "ret")
  /\ ret' = IF retry > MaxRetry THEN "FAIL" ELSE "OK"
  /\ UNCHANGED <<op, relay, s4, s6, retry, loop, ev, driver, got>>

(***************************************************************************)
(* What the callers do with the result.                                    *)
(***************************************************************************)
\* main.c: a failed wifi_init ends in a rollback or a restart.  After a good
\* one, an abnormal reset goes on to OTA, any other to the relay cycle.
AfterInit ==
  /\ op = "init" /\ pc = "ret"
  /\ IF ret = "OK" THEN pc' = "call" /\ op' \in {"otaFirst", "connect"}
                   ELSE pc' = "restart" /\ UNCHANGED op
  /\ UNCHANGED <<ret, relay, s4, s6, retry, loop, ev, driver, got>>

\* gpio.c:33 only logs an error; RELAY_ON_MS passes.
AfterConnect ==
  /\ op = "connect" /\ Goto("ret", "call") /\ op' = "disconnect"
  /\ UNCHANGED <<ret, relay, s4, s6, retry, loop, ev, driver, got>>

\* gpio.c:38: the access point loses its power.
AfterDisconnect ==
  /\ op = "disconnect" /\ Goto("ret", "off") /\ relay' = "off"
  /\ UNCHANGED <<op, ret, s4, s6, retry, loop, ev, driver, got>>

\* RELAY_OFF_MS is 60 minutes: every attempt against the dead access point
\* has failed, and its event has been handled, when the relay comes back.
OffIsOver == drv = "idle" /\ ev = <<>> /\ hpc = "idle"
RelayOn ==
  /\ op = "disconnect" /\ Goto("off", "call") /\ OffIsOver
  /\ relay' = "on" /\ op' = "ota"
  /\ UNCHANGED <<ret, s4, s6, retry, loop, ev, driver, got>>

\* main.c:140 and gpio.c:55 compare with ESP_FAIL alone.
AfterOtaConnect ==
  /\ op \in {"ota", "otaFirst"} /\ pc = "ret"
  /\ pc' = IF ret = "FAIL" THEN "restart" ELSE "ota"
  /\ UNCHANGED <<op, ret, relay, s4, s6, retry, loop, ev, driver, got>>

\* execute_ota always ends in esp_restart (module OtaBoot).
ExecuteOta ==
  /\ Goto("ota", "restart")
  /\ UNCHANGED <<op, ret, relay, s4, s6, retry, loop, ev, driver, got>>

\* esp_restart runs custom_wifi_shutdown once custom_connect has registered
\* it, which waits for the loop mutex; a panic runs nothing.
Reset ==
  /\ pc \in Stopped
  /\ pc = "restart" /\ op # "init" => hpc = "idle"
  /\ op' = "init" /\ pc' = "call" /\ ret' = "OK" /\ relay' = "on"
  /\ s4' = "null" /\ s6' = "null" /\ retry' = 0
  /\ handlers' = "off" /\ hpc' = "idle" /\ reg' = 0 /\ ev' = <<>>
  /\ drv' = "off" /\ ip4' = "none" /\ ll' = "none" /\ got' = {}

Caller ==
  \/ CallInit \/ CallConnect \/ CallDisconnect \/ DoDisconnect
  \/ CreateSem4 \/ CreateSem6 \/ ZeroRetries \/ RegisterHandlers
  \/ SetConfig \/ DriverConnect
  \/ Take4 \/ Delete4 \/ Null4 \/ Take6 \/ Delete6 \/ Null6 \/ Judge
  \/ AfterInit \/ AfterConnect \/ AfterDisconnect \/ RelayOn
  \/ AfterOtaConnect \/ ExecuteOta \/ Reset

(***************************************************************************)
(* The event task.                                                         *)
(***************************************************************************)
HGoto(from, to) == Running /\ hpc = from /\ hpc' = to

\* The disconnect handler loads s_retry_num; the store comes later.
DispatchDisconnect ==
  /\ Running /\ hpc = "idle" /\ ev # <<>> /\ Head(ev) \in {"disc", "roam"}
  /\ ev' = Tail(ev)
  /\ IF handlers = "on" THEN hpc' = Head(ev) /\ reg' = retry
                   ELSE UNCHANGED <<hpc, reg>>
  /\ UNCHANGED <<caller, s4, s6, retry, handlers, driver, got>>

\* Mutants: the ROAMING return dropped; retries without a limit; the counter
\* run the wrong way.
CountRetryRoaming ==
  /\ Running /\ hpc \in {"disc", "roam"} /\ retry' = reg + 1
  /\ hpc' = IF reg + 1 > MaxRetry THEN "xCheck4" ELSE "reconnect"
  /\ UNCHANGED <<caller, s4, s6, handlers, reg, ev, driver, got>>
CountRetryForever ==
  /\ Running /\ hpc \in {"disc", "roam"} /\ UNCHANGED retry
  /\ hpc' = IF hpc = "disc" THEN "reconnect" ELSE "idle"
  /\ UNCHANGED <<caller, s4, s6, handlers, reg, ev, driver, got>>
CountRetryDown ==
  /\ Running /\ hpc \in {"disc", "roam"} /\ retry' = reg - 1
  /\ hpc' = IF hpc = "disc" THEN "reconnect" ELSE "idle"
  /\ UNCHANGED <<caller, s4, s6, handlers, reg, ev, driver, got>>

CountRetry ==
  /\ Running /\ hpc \in {"disc", "roam"} /\ retry' = reg + 1
  /\ hpc' = CASE reg + 1 > MaxRetry -> "xCheck4"
              [] reg + 1 <= MaxRetry /\ hpc = "disc" -> "reconnect"
              [] reg + 1 <= MaxRetry /\ hpc = "roam" -> "idle"
  /\ UNCHANGED <<caller, s4, s6, handlers, reg, ev, driver, got>>

\* Mutant: the handler waits for the driver to retry by itself.
ReconnectNever ==
  /\ HGoto("reconnect", "idle")
  /\ UNCHANGED <<caller, s4, s6, retry, handlers, reg, ev, driver, got>>

\* esp_wifi_connect from the handler, wrapped in ESP_ERROR_CHECK.
Reconnect ==
  /\ Running /\ hpc = "reconnect"
  /\ IF drv = "connecting" THEN pc' = "abort" /\ UNCHANGED <<hpc, drv>>
     ELSE /\ hpc' = "idle" /\ UNCHANGED pc
          /\ drv' = IF drv = "idle" THEN "connecting" ELSE drv
  /\ UNCHANGED <<op, ret, relay, s4, s6, retry, handlers, reg, ev, ip4, ll, got>>

\* if (sem) xSemaphoreGive(sem): the test and the give are two steps, and the
\* give may find the semaphore deleted: it is lost, or the device panics.
Check4(at, give, skip) ==
  /\ Running /\ hpc = at /\ hpc' = IF s4 = "null" THEN skip ELSE give
  /\ UNCHANGED <<caller, s4, s6, retry, handlers, reg, ev, driver, got>>
Check6(at, give, skip) ==
  /\ Running /\ hpc = at /\ hpc' = IF s6 = "null" THEN skip ELSE give
  /\ UNCHANGED <<caller, s4, s6, retry, handlers, reg, ev, driver, got>>

Give4(at, next) ==
  /\ HGoto(at, next)
  /\ \/ s4 \in Live /\ s4' = "full" /\ UNCHANGED pc
     \/ s4 \notin Live /\ UNCHANGED s4 /\ pc' \in {pc, "fault"}
  /\ UNCHANGED <<op, ret, relay, s6, retry, handlers, reg, ev, driver, got>>
Give6(at, next) ==
  /\ HGoto(at, next)
  /\ \/ s6 \in Live /\ s6' = "full" /\ UNCHANGED pc
     \/ s6 \notin Live /\ UNCHANGED s6 /\ pc' \in {pc, "fault"}
  /\ UNCHANGED <<op, ret, relay, s4, retry, handlers, reg, ev, driver, got>>

\* Mutants: only the IPv4 waiter is woken; the handlers stay registered.
GiveUpOnly4 ==
  /\ HGoto("xCheck6", "xDrop")
  /\ UNCHANGED <<caller, s4, s6, retry, handlers, reg, ev, driver, got>>
GiveUpKeepsHandlers ==
  /\ HGoto("xDrop", "idle")
  /\ DriverDisconnect
  /\ UNCHANGED <<caller, s4, s6, retry, handlers, reg, got>>

\* The retries are spent: wake the caller, unregister, give up the link.
GiveUp4  == Check4("xCheck4", "xGive4", "xCheck6") \/ Give4("xGive4", "xCheck6")
GiveUp6  == Check6("xCheck6", "xGive6", "xDrop") \/ Give6("xGive6", "xDrop")
GiveUp ==
  /\ HGoto("xDrop", "idle") /\ handlers' = "off"
  /\ DriverDisconnect
  /\ UNCHANGED <<caller, s4, s6, retry, reg, got>>

\* The interface comes up on STA_CONNECTED before the handler of wifi.c runs
\* and asks for the link-local address.
DispatchConnected ==
  /\ Running /\ hpc = "idle" /\ ev # <<>> /\ Head(ev) = "conn"
  /\ ev' = Tail(ev)
  /\ IF drv \in {"assoc", "up"}
       THEN /\ drv' = "up"
            /\ ll' = IF handlers = "on" /\ ll = "none" THEN "tentative" ELSE ll
       ELSE UNCHANGED <<drv, ll>>
  /\ UNCHANGED <<caller, s4, s6, retry, loop, ip4, got>>

DispatchGotIp ==
  /\ Running /\ hpc = "idle" /\ ev # <<>> /\ Head(ev) = "ip4"
  /\ ev' = Tail(ev)
  /\ IF handlers = "on"
       THEN hpc' = "check4" /\ retry' = 0 /\ got' = got \union {"ip4"}
       ELSE UNCHANGED <<hpc, retry, got>>
  /\ UNCHANGED <<caller, s4, s6, handlers, reg, driver>>

\* An address of another type than the preferred one is only logged.
DispatchGotIp6 ==
  /\ Running /\ hpc = "idle" /\ ev # <<>> /\ Head(ev) \in {"ip6", "ip6other"}
  /\ ev' = Tail(ev)
  /\ IF handlers = "on" /\ Head(ev) = "ip6"
       THEN hpc' = "check6" /\ got' = got \union {"ip6"}
       ELSE UNCHANGED <<hpc, got>>
  /\ UNCHANGED <<caller, s4, s6, retry, handlers, reg, driver>>

GotIp  == Check4("check4", "give4", "idle") \/ Give4("give4", "idle")
GotIp6 == Check6("check6", "give6", "idle") \/ Give6("give6", "idle")

EventTask ==
  \/ DispatchDisconnect \/ CountRetry \/ Reconnect
  \/ GiveUp4 \/ GiveUp6 \/ GiveUp
  \/ DispatchConnected \/ DispatchGotIp \/ DispatchGotIp6 \/ GotIp \/ GotIp6

(***************************************************************************)
(* The driver and the access point (external).                             *)
(***************************************************************************)
DriverStep == Running /\ Room
              /\ UNCHANGED <<caller, s4, s6, retry, loop, got>>

Associate ==
  /\ DriverStep /\ relay = "on" /\ drv = "connecting"
  /\ drv' = "assoc" /\ Post("conn") /\ UNCHANGED <<ip4, ll>>
AttemptFails ==
  /\ DriverStep /\ drv = "connecting"
  /\ drv' = "idle" /\ Post("disc") /\ UNCHANGED <<ip4, ll>>
LinkLost ==
  /\ DriverStep /\ drv \in {"assoc", "up"}
  /\ drv' = "idle" /\ Post("disc") /\ LinkDown
\* The driver moves to another access point by itself.
Roam ==
  /\ DriverStep /\ relay = "on" /\ drv = "up"
  /\ drv' = "connecting" /\ Post("roam") /\ LinkDown
\* The DHCP client has a lease, or a renewed one.
Lease ==
  /\ DriverStep /\ relay = "on" /\ drv = "up"
  /\ ip4' = "leased" /\ Post("ip4") /\ UNCHANGED <<drv, ll>>
\* Duplicate address detection has accepted the link-local address.
LinkLocal ==
  /\ DriverStep /\ drv = "up" /\ ll = "tentative"
  /\ ll' = "done" /\ Post("ip6") /\ UNCHANGED <<drv, ip4>>
OtherAddress ==
  /\ DriverStep /\ relay = "on" /\ drv = "up" /\ ll = "done"
  /\ Post("ip6other") /\ UNCHANGED driver

Driver == \/ Associate \/ AttemptFails \/ LinkLost \/ Roam
          \/ Lease \/ LinkLocal \/ OtherAddress

Next == Caller \/ EventTask \/ Driver

Spec == Init /\ [][Next]_vars

(***************************************************************************)
(* Fairness.  The tasks are scheduled; an attempt ends; a link that is up  *)
(* gets an IPv4 lease or is lost; a link that keeps coming up stays up     *)
(* once for long enough to confirm its link-local address.  The last two   *)
(* are assumptions on the network, not something the code enforces.        *)
(***************************************************************************)
Fairness ==
  /\ WF_vars(Caller) /\ WF_vars(EventTask)
  /\ SF_vars(RegisterHandlers) /\ SF_vars(DoDisconnect) /\ SF_vars(Reset)
  /\ WF_vars(Associate \/ AttemptFails)
  /\ SF_vars(ip4 = "none" /\ Lease) /\ SF_vars(LinkLocal)
  /\ WF_vars(relay = "off" /\ LinkLost)

FairSpec == Spec /\ Fairness

-----------------------------------------------------------------------------
TypeOK ==
  /\ op \in Ops /\ pc \in CallerPC /\ ret \in {"OK"} \union Errors
  /\ relay \in {"on", "off"}
  /\ s4 \in Sem /\ s6 \in Sem /\ retry \in Nat
  /\ handlers \in {"on", "off"} /\ hpc \in HandlerPC /\ reg \in Nat
  /\ ev \in Seq(Events)
  /\ drv \in {"off", "idle", "connecting", "assoc", "up"}
  /\ ip4 \in {"none", "leased"} /\ ll \in {"none", "tentative", "done"}
  /\ got \subseteq {"already", "ip4", "ip6"}

\* The calls made when no handler of an earlier call can be registered.
Fresh == op \in {"init", "ota"}

\* The call saw the addresses it reports, or found them there.
Earned == "already" \in got \/ {"ip4", "ip6"} \subseteq got

(* The caller never sleeps on a semaphore nobody is left to give: the      *)
(* handlers are registered, the one that runs has not passed the give, and *)
(* the driver is active or an event that makes it so is on its way         *)
(* (wifi.c:153, 158: portMAX_DELAY).                                       *)
LostLinkIn(q) == \E i \in 1..Len(q) : q[i] = "disc"
DriverBusy ==
  \/ drv \in {"connecting", "assoc", "up"}
  \/ LostLinkIn(ev)
  \/ hpc \in {"disc", "reconnect"} \union Exhausted
WakeIsOwed ==
  /\ pc = "take4" /\ s4 # "full" =>
       s4 = "empty" /\ handlers = "on" /\ DriverBusy
         /\ hpc \notin {"xCheck6", "xGive6", "xDrop"}
  /\ pc = "take6" /\ s6 # "full" =>
       s6 = "empty" /\ handlers = "on" /\ DriverBusy /\ hpc # "xDrop"

(* The inductive invariant WakeIsOwed rests on.                            *)
Armed   == {"config", "connect", "take4"}
Waiting == {"take4", "del4", "null4", "take6"}
WakeInv ==
  \* a handler runs only while the handlers are registered
  /\ hpc # "idle" => handlers = "on"
  \* the driver is started before the first call goes on
  /\ drv = "off" <=> (op = "init" /\ pc = "call")
  /\ drv = "off" => handlers = "off"
  \* the semaphores live from their creation to their deletion
  /\ pc \in {"new6", "zero", "register"} \union Armed => s4 \in Live
  /\ pc \in {"zero", "register"} \union Armed \union Waiting => s6 \in Live
  \* each has been given, or its give is still to come
  /\ pc \in Armed =>
       s4 = "full" \/ (handlers = "on" /\ hpc \notin {"xCheck6", "xGive6", "xDrop"})
  /\ pc \in Armed \union Waiting =>
       s6 = "full" \/ (handlers = "on" /\ hpc # "xDrop")
  \* and registered handlers always have something to wait for
  /\ handlers = "on" /\ pc \notin {"config", "connect", "abort", "fault"} => DriverBusy

(* A connection begun with no stale handler reports ESP_OK only for        *)
(* addresses obtained in this very call, and ends in no other error than   *)
(* ESP_FAIL, after which the handlers are being taken down, or NO_MEM      *)
(* (wifi.c:162, 166).                                                      *)
FreshResult ==
  Fresh /\ pc = "ret" =>
    /\ ret \in {"OK", "FAIL", "NO_MEM"}
    /\ ret = "OK" => Earned
    /\ ret = "FAIL" => handlers = "off" \/ hpc \in Exhausted

(* A connection begun with no stale handler trips no ESP_ERROR_CHECK, in   *)
(* the caller or in the handlers (wifi.c:41, 144).                         *)
FreshNeverAborts == Fresh => pc # "abort"

(* When the relay has been off for its 60 minutes no handler is left over, *)
(* whatever wifi_disconnect_if_connected did (wifi.c:336, gpio.c:37-43):   *)
(* the connection before OTA starts fresh.                                 *)
OffLeavesNoHandler == pc = "off" /\ OffIsOver => handlers = "off"

(* The inductive invariant behind the last three, with WakeInv: a fresh    *)
(* call begins in silence, and from then on there is one lost link at a    *)
(* time, being reported or being repaired.                                 *)
OneLostLink(q) ==
  \A i, j \in 1..Len(q) : q[i] = "disc" /\ q[j] = "disc" => i = j
Quiet  == drv \in {"off", "idle"} /\ ev = <<>> /\ hpc = "idle"
Before == {"call", "new4", "new6", "zero", "register", "config", "connect"}
After4 == {"del4", "null4", "take6", "del6", "null6", "judge"}
After6 == {"del6", "null6", "judge"}
\* the retries are used up and the handlers on their way out
Spent  == retry > MaxRetry /\ (handlers = "off" \/ hpc \in Exhausted)
FreshInv ==
  Fresh =>
    /\ pc # "abort"
    /\ pc \in Before => Quiet
    /\ pc \in {"call", "new4", "new6", "zero", "register"} => handlers = "off"
    /\ handlers = "on" =>
         /\ OneLostLink(ev)
         /\ drv \in {"connecting", "assoc", "up"} =>
              ~LostLinkIn(ev) /\ hpc \notin {"disc", "reconnect"}
         /\ hpc \in {"disc", "reconnect"} => ~LostLinkIn(ev)
    /\ pc \in Armed \union After4 /\ retry > MaxRetry => Spent
    /\ hpc \in {"check4", "give4"} => "ip4" \in got
    /\ hpc \in {"check6", "give6"} => "ip6" \in got
    /\ hpc \in Exhausted => retry > MaxRetry
    /\ pc \in {"new6", "zero", "register"} => s4 = "empty"
    /\ pc \in {"zero", "register"} => s6 = "empty"
    /\ pc = "register" => retry = 0
    /\ pc \in Armed /\ s4 = "full" => "ip4" \in got \/ Spent
    /\ pc \in Armed \union {"del4", "null4", "take6"} /\ s6 = "full" =>
         "ip6" \in got \/ Spent
    /\ pc \in After4 => "ip4" \in got \/ Spent
    /\ pc \in After6 => "ip6" \in got \/ Spent
    /\ pc = "ret" => FreshResult

(* Every call returns, or the device resets (wifi.c:20, "let ... return"). *)
CallReturns == (pc \in {"take4", "take6"}) ~> (pc = "ret" \/ pc \in Stopped)

(* The device keeps reaching the OTA step of its cycle, or a restart.      *)
CycleEnds == []<>(pc \in Stopped)

(* wifi.c:290: "@return ESP_OK Si ya estaba conectado o si conecto         *)
(* correctamente".                                                         *)
OkMeansConnected ==
  op # "disconnect" /\ pc = "ret" /\ ret = "OK" => Earned

(* wifi.c:291: "@return ESP_FAIL / error de ESP-IDF en caso de falla": the *)
(* call returns its errors instead of aborting.                            *)
ErrorsAreReturned == op # "disconnect" => pc # "abort"

=============================================================================

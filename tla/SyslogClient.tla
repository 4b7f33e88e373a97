---------------------------- MODULE SyslogClient ----------------------------
(***************************************************************************)
(* udp_client.c: whoever logs puts its line into a ring buffer, and        *)
(* syslog_task sends the lines to the server.  This build does not start   *)
(* the client (vprintf.c:69 and main.c:108 are commented out): the module  *)
(* is the client as these two lines would have it.                         *)
(***************************************************************************)
EXTENDS Naturals, Sequences

CONSTANTS
  Lines,  \* a bound on the lines that are logged: 1, 2, ... Lines
  Room    \* CIRCULAR_BUFFER_SIZE, in lines

ASSUME LinesAssumption == Lines \in Nat
ASSUME RoomAssumption  == Room \in Nat \ {0}

VARIABLES
  cpc,      \* where syslog_task is; "off" before the start, or what that
            \* could not create: "noTask", "noBuffer" or "neither"
  waiting,  \* the lines in s_rb that it has not received
  used,     \* the room taken in s_rb
  item,     \* the line it has received, or 0
  kept,     \* is there a line that it received and will never return?
  logged,   \* how many lines have been logged
  wire      \* the datagrams under way

clientVars == <<cpc, waiting, used, item, kept, logged, wire>>

ClientInit ==
  /\ cpc = "off" /\ waiting = <<>> /\ used = 0 /\ item = 0 /\ kept = "no"
  /\ logged = 0 /\ wire = {}

-----------------------------------------------------------------------------
HasBuffer == cpc \notin {"off", "noBuffer", "neither"}
\* syslog_enqueue does not wait for room.
Log ==
  /\ logged < Lines /\ logged' = logged + 1
  /\ IF HasBuffer /\ used < Room
     THEN waiting' = Append(waiting, logged') /\ used' = used + 1
     ELSE UNCHANGED <<waiting, used>>
  /\ UNCHANGED <<cpc, item, kept, wire>>

ClientGoto(from, to) == cpc = from /\ cpc' = to

\* Nobody looks at the results of xRingbufferCreate and xTaskCreate.
Start ==
  /\ cpc = "off" /\ cpc' \in {"open", "noTask", "noBuffer", "neither"}
  /\ UNCHANGED <<waiting, used, item, kept, logged, wire>>
\* getaddrinfo and socket; a socket that fails is tried again.
Open ==
  /\ ClientGoto("open", "receive") /\ UNCHANGED <<waiting, used, item, kept, logged, wire>>
Receive ==
  /\ waiting # <<>> /\ ClientGoto("receive", "send")
  /\ item' = Head(waiting) /\ waiting' = Tail(waiting)
  /\ UNCHANGED <<used, kept, logged, wire>>
Nothing ==
  /\ waiting = <<>> /\ ClientGoto("receive", "open")
  /\ UNCHANGED <<waiting, used, item, kept, logged, wire>>
\* No time, no memory or no route: the line is neither sent nor returned.
Keep ==
  /\ ClientGoto("send", "open") /\ kept' = "yes" /\ item' = 0
  /\ UNCHANGED <<waiting, used, logged, wire>>
\* Mutant: the item is not returned.
SendAndKeep ==
  /\ ClientGoto("send", "open") /\ wire' = wire \union {item} /\ item' = 0
  /\ UNCHANGED <<waiting, used, kept, logged>>
\* The buffer frees its room in order: behind a line that is not returned
\* nothing is freed any more.
Send ==
  /\ ClientGoto("send", "open") /\ wire' = wire \union {item} /\ item' = 0
  /\ used' = IF kept = "no" THEN used - 1 ELSE used
  /\ UNCHANGED <<waiting, kept, logged>>

\* The device restarts.
Restart ==
  /\ cpc # "off" /\ cpc' = "off" /\ waiting' = <<>> /\ used' = 0 /\ item' = 0 /\ kept' = "no"
  /\ UNCHANGED <<logged, wire>>
\* Mutant: the task deletes itself and the device runs on.
ResolveFailsQuietly ==
  /\ ClientGoto("open", "ended") /\ UNCHANGED <<waiting, used, item, kept, logged, wire>>
\* The task function returns, and the device panics.
ResolveFails == cpc = "open" /\ Restart

\* The task of a client without a buffer trips an assertion where it receives.
ReceivesNull == cpc = "noBuffer" /\ Restart

SyslogTask == Start \/ Open \/ Receive \/ Nothing \/ Keep \/ Send \/ ResolveFails
              \/ ReceivesNull

-----------------------------------------------------------------------------
ClientTypeOK ==
  /\ cpc \in {"off", "open", "receive", "send", "noTask", "noBuffer", "neither"}
  /\ waiting \in Seq(1..Lines) /\ used \in 0..Room /\ item \in 0..Lines
  /\ kept \in {"no", "yes"} /\ logged \in 0..Lines /\ wire \subseteq 1..Lines

(* The room taken is that of the lines waiting and of the one in hand, and *)
(* more only if an error path kept a line; there is never more than Room   *)
(* (udp_client.c:106, 123, 137-143).                                       *)
RoomIsAccounted ==
  LET due == Len(waiting) + (IF item = 0 THEN 0 ELSE 1) IN
  /\ used <= Room
  /\ IF kept = "no" THEN used = due ELSE used > due
  /\ (item = 0) <=> (cpc # "send")

(* A line that is in the buffer is received in the end: none waits for     *)
(* ever, unless no socket can be had or the task could not be created;     *)
(* after a failure to resolve only the panic of the device sees to that    *)
(* (udp_client.c:70-98).                                                   *)
QueueMoves ==
  \A n \in 1..Lines :
    (waiting # <<>> /\ Head(waiting) = n)
      ~> (waiting = <<>> \/ Head(waiting) # n \/ cpc = "noTask")
=============================================================================

------------------------------- MODULE UdpLog -------------------------------
(***************************************************************************)
(* The log server: the UDP listener thread and the HTTP handlers of        *)
(* udp_server/app/main.py over one SQLite table, and the page of           *)
(* index.html, whose requests overlap.  SQLite is external: a transaction  *)
(* is one step, or fails and leaves nothing.                               *)
(***************************************************************************)
EXTENDS Naturals, Sequences

CONSTANTS
  Backlog,  \* a bound on the datagrams in the socket's buffer
  Limit,    \* the rows the page asks for
  Slots     \* the requests the page can have open

ASSUME LimitAssumption   == Limit \in Nat \ {0}
ASSUME BacklogAssumption == Backlog \in Nat

VARIABLES
  server,  \* the container: "down", "up" or "stopping"
  lpc,     \* where udp_listener is
  sockq,   \* its socket's buffer
  rx,      \* the message it has received, or 0
  rows,    \* the table messages: records of id and line
  seq,     \* the largest id given so far (sqlite_sequence)
  slot,    \* each request of the page: "idle", "get", "got", "clear", "cleared"
  answer,  \* the rows a request brings back
  shown,   \* tbody
  book     \* history: the lines recorded, in this order

table  == <<rows, seq, book>>
page   == <<slot, answer, shown>>
logVars == <<server, lpc, sockq, rx, table, page>>

LogInit ==
  /\ server = "down" /\ lpc = "none" /\ sockq = <<>> /\ rx = 0
  /\ rows = {} /\ seq = 0 /\ book = <<>>
  /\ slot = [k \in Slots |-> "idle"] /\ answer = [k \in Slots |-> {}]
  /\ shown = {}

-----------------------------------------------------------------------------
(***************************************************************************)
(* The container and its listener thread                                   *)
(***************************************************************************)
\* on_startup; the table is there already unless this is the first time.
Startup ==
  /\ server = "down" /\ server' = "up" /\ lpc' = "init"
  /\ UNCHANGED <<sockq, rx, table, page>>
\* The loop looks at stop_event and waits for a message, or ends and closes
\* the socket.
Loop(queue) == IF server = "up" THEN lpc' = "recv" /\ sockq' = queue ELSE lpc' = "dead" /\ sockq' = <<>>
Bind ==
  /\ lpc = "init" /\ Loop(sockq) /\ UNCHANGED <<server, rx, table, page>>

Listening == lpc \in {"recv", "insert"}
Arrive(n) ==
  /\ sockq' = IF Listening /\ Len(sockq) < Backlog THEN Append(sockq, n) ELSE sockq
  /\ UNCHANGED <<server, lpc, rx, table, page>>

Recv ==
  /\ lpc = "recv" /\ sockq # <<>> /\ lpc' = "insert"
  /\ rx' = Head(sockq) /\ sockq' = Tail(sockq) /\ UNCHANGED <<server, table, page>>

\* Mutants: no commit; and an INTEGER PRIMARY KEY without AUTOINCREMENT,
\* which goes on from the largest id in the table.
InsertUncommitted ==
  /\ lpc = "insert" /\ Loop(sockq) /\ rx' = 0 /\ UNCHANGED <<server, table, page>>
NewIdOfRows == IF rows = {} THEN 1 ELSE 1 + CHOOSE i \in {r.id : r \in rows} : \A r \in rows : r.id <= i
NewId == seq + 1
InsertMessage ==
  /\ lpc = "insert" /\ Loop(sockq) /\ rx' = 0
  /\ rows' = rows \union {[id |-> NewId, line |-> rx]} /\ seq' = NewId
  /\ book' = Append(book, rx) /\ UNCHANGED <<server, page>>

\* An exception ends the thread and closes the socket; the rest goes on.
ListenerDies ==
  /\ lpc \in {"init", "insert"} /\ lpc' = "dead" /\ rx' = 0 /\ sockq' = <<>>
  /\ UNCHANGED <<server, table, page>>

\* No request is served any more, and stop_event is set.
Shutdown ==
  /\ server = "up" /\ server' = "stopping" /\ UNCHANGED <<lpc, sockq, rx, table, page>>
TimesOut ==
  /\ server = "stopping" /\ lpc = "recv" /\ sockq = <<>> /\ Loop(sockq)
  /\ UNCHANGED <<server, rx, table, page>>
\* The process ends: 1.1 s after stop_event, whatever the thread does, or
\* killed at any time.
Exit ==
  /\ server # "down" /\ server' = "down" /\ lpc' = "none" /\ rx' = 0 /\ sockq' = <<>>
  /\ UNCHANGED <<table, page>>

-----------------------------------------------------------------------------
(***************************************************************************)
(* The page and the handlers of its requests                               *)
(***************************************************************************)
Step(k, from, to) == slot[k] = from /\ slot' = [slot EXCEPT ![k] = to]
\* Mutant: the limit counts the rows but one.
NewestAndOne(some) == {r \in some : \A q \in some : q.id <= r.id + Limit}
Newest(some) == {r \in some : \A q \in some : q.id < r.id + Limit}

\* fetchMessages, by the timer, which is left on, or by the user.
Fetch(k) ==
  /\ Step(k, "idle", "get") /\ UNCHANGED <<server, lpc, sockq, rx, table, answer, shown>>
GetMessages(k) ==
  /\ server = "up" /\ Step(k, "get", "got") /\ answer' = [answer EXCEPT ![k] = Newest(rows)]
  /\ UNCHANGED <<server, lpc, sockq, rx, table, shown>>
\* Mutant: only an answer that is newer than the page is shown.
RenderNewer(k) ==
  /\ Step(k, "got", "idle") /\ answer' = [answer EXCEPT ![k] = {}]
  /\ shown' = IF \A r \in shown : \E q \in answer[k] : q.id >= r.id THEN answer[k] ELSE shown
  /\ UNCHANGED <<server, lpc, sockq, rx, table>>
Render(k) ==
  /\ Step(k, "got", "idle") /\ shown' = answer[k] /\ answer' = [answer EXCEPT ![k] = {}]
  /\ UNCHANGED <<server, lpc, sockq, rx, table>>

Clear(k) ==
  /\ Step(k, "idle", "clear") /\ UNCHANGED <<server, lpc, sockq, rx, table, answer, shown>>
\* Mutant: only the rows of the page are deleted.
DeleteShown(k) ==
  /\ server = "up" /\ Step(k, "clear", "cleared") /\ rows' = rows \ shown
  /\ UNCHANGED <<server, lpc, sockq, rx, seq, book, answer, shown>>
DeleteMessages(k) ==
  /\ server = "up" /\ Step(k, "clear", "cleared") /\ rows' = {}
  /\ UNCHANGED <<server, lpc, sockq, rx, seq, book, answer, shown>>
\* The page waits for the answer before it fetches.
FetchCleared(k) ==
  /\ Step(k, "cleared", "get") /\ UNCHANGED <<server, lpc, sockq, rx, table, answer, shown>>
\* Any of it fails: only the status line tells.
RequestFails(k) ==
  /\ slot[k] # "idle" /\ slot' = [slot EXCEPT ![k] = "idle"] /\ answer' = [answer EXCEPT ![k] = {}]
  /\ UNCHANGED <<server, lpc, sockq, rx, table, shown>>

Listener == Bind \/ Recv \/ InsertMessage \/ ListenerDies \/ TimesOut
Container == Startup \/ Shutdown \/ Exit
Request(k) == GetMessages(k) \/ Render(k) \/ DeleteMessages(k) \/ FetchCleared(k) \/ RequestFails(k)
Timer == \E k \in Slots : Fetch(k)
User  == \E k \in Slots : Clear(k)

-----------------------------------------------------------------------------
Row(n) == [id : 1..n, line : Nat]
LogTypeOK ==
  /\ server \in {"down", "up", "stopping"}
  /\ lpc \in {"none", "init", "recv", "insert", "dead"}
  /\ sockq \in Seq(Nat) /\ Len(sockq) <= Backlog /\ rx \in Nat
  /\ seq \in Nat /\ book \in Seq(Nat) /\ rows \subseteq Row(seq)
  /\ slot \in [Slots -> {"idle", "get", "got", "clear", "cleared"}]
  /\ answer \in [Slots -> SUBSET Row(seq)] /\ shown \subseteq Row(seq)

(* An id names one message for ever: in the table, in the answers under    *)
(* way and on the page it is the n-th that was recorded, whatever has been *)
(* deleted or restarted meanwhile (main.py:36, 129).                       *)
IdsAreForever ==
  /\ seq = Len(book)
  /\ \A r \in rows \union shown \union UNION {answer[k] : k \in Slots} :
       r.id \in 1..seq /\ r.line = book[r.id]

(* Neither the table nor the page has a gap, although messages arrive, are *)
(* deleted and are answered in any order: the table goes from its oldest   *)
(* row to the last message recorded, the page from its oldest row to its   *)
(* newest (main.py:119, 129, index.html:82).                               *)
NoGaps ==
  /\ \A r \in rows : \A i \in r.id..seq : \E x \in rows : x.id = i
  /\ \A some \in {shown} \union {answer[k] : k \in Slots} :
       \A r, q \in some : \A i \in r.id..q.id : \E x \in some : x.id = i
=============================================================================

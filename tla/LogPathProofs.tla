--------------------------- MODULE LogPathProofs ----------------------------
(* Proofs about LogPath, for any number of lines, any room, any limit and  *)
(* any number of requests.                                                 *)
EXTENDS LogPath, TLAPS, SequenceTheorems, NatLemmas

(* The two invariants of the client hold each other up.                    *)
LEMMA ClientInd ==
  ASSUME ClientTypeOK, RoomIsAccounted, [PathNext]_pathVars
  PROVE  ClientTypeOK' /\ RoomIsAccounted'
<1> USE LinesAssumption, RoomAssumption DEF ClientTypeOK, RoomIsAccounted, ClientGoto
<1>1. CASE Log
  <2>1. CASE HasBuffer /\ used < Room
    <3>1. /\ logged' = logged + 1 /\ logged' \in 1..Lines
          /\ waiting' = Append(waiting, logged') /\ used' = used + 1
          /\ UNCHANGED <<cpc, item, kept, wire>>
      BY <1>1, <2>1 DEF Log
    <3>2. waiting' \in Seq(1..Lines) /\ Len(waiting') = Len(waiting) + 1
      BY <3>1
    <3> QED BY <2>1, <3>1, <3>2
  <2>2. CASE ~(HasBuffer /\ used < Room)
    BY <1>1, <2>2 DEF Log
  <2> QED BY <2>1, <2>2
<1>2. CASE Start BY <1>2 DEF Start
<1>3. CASE Open BY <1>3 DEF Open
<1>4. CASE Receive
  <2>1. cpc' = "send" /\ used' = used /\ kept' = kept /\ logged' = logged /\ wire' = wire
    BY <1>4 DEF Receive
  <2>2. item' \in 1..Lines /\ waiting' \in Seq(1..Lines) /\ Len(waiting') = Len(waiting) - 1
    BY <1>4 DEF Receive
  <2>3. item = 0 /\ Len(waiting) \in Nat
    BY <1>4 DEF Receive
  <2>4. item' # 0 /\ item' \in 0..Lines
    <3> HIDE DEF ClientTypeOK, RoomIsAccounted
    <3> QED BY <2>2
  <2>5. ClientTypeOK'
    BY <2>1, <2>2, <2>4
  <2>6. Len(waiting') + (IF item' = 0 THEN 0 ELSE 1) = Len(waiting) + (IF item = 0 THEN 0 ELSE 1)
    BY <2>2, <2>3, <2>4
  <2> QED BY <2>1, <2>4, <2>5, <2>6
<1>5. CASE Nothing BY <1>5 DEF Nothing
<1>6. CASE Keep BY <1>6 DEF Keep
<1>7. CASE Send BY <1>7 DEF Send
<1>8. CASE Restart BY <1>8 DEF Restart
<1>9. CASE UNCHANGED clientVars BY <1>9 DEF clientVars
<1>10. ASSUME NEW n \in wire, Deliver(n) \/ Lose(n) PROVE ClientTypeOK' /\ RoomIsAccounted'
  BY <1>10 DEF Deliver, Lose
<1> QED
  BY <1>1, <1>2, <1>3, <1>4, <1>5, <1>6, <1>7, <1>8, <1>9, <1>10
  DEF PathNext, ClientAlone, ServerAlone, SyslogTask, ResolveFails, ReceivesNull, pathVars

(* The client's variables keep their types, the room within the buffer's   *)
(* (udp_client.c:20).                                                      *)
THEOREM ClientTypeCorrect == PathSpec => []ClientTypeOK
<1>1. PathInit => ClientTypeOK /\ RoomIsAccounted
  BY LinesAssumption, RoomAssumption DEF PathInit, ClientInit, ClientTypeOK, RoomIsAccounted
<1> QED BY <1>1, ClientInd, PTL DEF PathSpec

(* The room of the ring buffer is taken by the lines that wait, the one in *)
(* hand and those an error path kept, and by nothing else                  *)
(* (udp_client.c:106-150).                                                 *)
THEOREM RoomIsAccountedHolds == PathSpec => []RoomIsAccounted
<1>1. PathInit => ClientTypeOK /\ RoomIsAccounted
  BY LinesAssumption, RoomAssumption DEF PathInit, ClientInit, ClientTypeOK, RoomIsAccounted
<1> QED BY <1>1, ClientInd, PTL DEF PathSpec

-----------------------------------------------------------------------------
(* The steps of LogPath as the server sees them.                           *)
ServerStep ==
  \/ UNCHANGED logVars \/ (\E n \in wire : Arrive(n)) \/ Bind \/ Recv \/ InsertMessage
  \/ ListenerDies \/ TimesOut \/ Startup \/ Shutdown \/ Exit
  \/ \E k \in Slots : Fetch(k) \/ Clear(k) \/ GetMessages(k) \/ Render(k)
                     \/ DeleteMessages(k) \/ FetchCleared(k) \/ RequestFails(k)

LEMMA ServerSteps == [PathNext]_pathVars => ServerStep
BY DEF PathNext, pathVars, ClientAlone, ServerAlone, Deliver, Lose, Listener, Container,
       Timer, User, Request, ServerStep

(* The server's variables keep their types.                                *)
THEOREM LogTypeCorrect == PathSpec => []LogTypeOK
<1> USE LimitAssumption, BacklogAssumption DEF LogTypeOK, table, page, logVars, Row
<1>1. PathInit => LogTypeOK
  BY DEF PathInit, LogInit
<1>2. ClientTypeOK /\ LogTypeOK /\ ServerStep => LogTypeOK'
  <2> SUFFICES ASSUME ClientTypeOK, LogTypeOK, ServerStep PROVE LogTypeOK'
    OBVIOUS
  <2>0. <<>> \in Seq(Nat) /\ Len(<<>>) <= Backlog
    OBVIOUS
  <2>1. ASSUME NEW n \in wire, Arrive(n) PROVE LogTypeOK'
    <3>1. n \in Nat BY LinesAssumption DEF ClientTypeOK
    <3>2. sockq' \in Seq(Nat) /\ Len(sockq') <= Backlog
      BY <2>1, <3>1 DEF Arrive
    <3> QED BY <2>1, <3>2 DEF Arrive
  <2>2. CASE UNCHANGED logVars \/ Startup \/ Shutdown
    BY <2>2 DEF Startup, Shutdown
  <2>3. CASE Exit \/ ListenerDies \/ Bind \/ TimesOut
    <3>1. sockq' = sockq \/ sockq' = <<>>
      BY <2>3 DEF Exit, ListenerDies, Bind, TimesOut, Loop
    <3>2. sockq' \in Seq(Nat) /\ Len(sockq') <= Backlog
      BY <2>0, <3>1
    <3>3. /\ server' \in {"down", "up", "stopping"} /\ lpc' \in {"none", "recv", "dead"}
          /\ rx' \in Nat /\ UNCHANGED <<rows, seq, book, slot, answer, shown>>
      BY <2>3 DEF Exit, ListenerDies, Bind, TimesOut, Loop
    <3> QED BY <3>2, <3>3
  <2>4. CASE Recv
    <3>1. rx' \in Nat /\ sockq' \in Seq(Nat) /\ Len(sockq') <= Backlog
      BY <2>4 DEF Recv
    <3> QED BY <2>4, <3>1 DEF Recv
  <2>5. CASE InsertMessage
    <3>1. /\ rows' = rows \union {[id |-> seq + 1, line |-> rx]} /\ seq' = seq + 1
          /\ book' = Append(book, rx) /\ rx' = 0
          /\ UNCHANGED <<server, slot, answer, shown>>
      BY <2>5 DEF InsertMessage, NewId
    <3>2. Row(seq) \subseteq Row(seq') /\ [id |-> seq + 1, line |-> rx] \in Row(seq')
      BY <3>1
    <3>3. lpc' \in {"recv", "dead"} /\ sockq' \in {sockq, <<>>}
      BY <2>5 DEF InsertMessage, Loop
    <3>4. sockq' \in Seq(Nat) /\ Len(sockq') <= Backlog
      BY <2>0, <3>3
    <3>5. book' \in Seq(Nat) /\ seq' \in Nat
      BY <3>1
    <3>6. rows' \subseteq Row(seq') /\ shown' \subseteq Row(seq')
      BY <3>1, <3>2
    <3>7. answer' \in [Slots -> SUBSET Row(seq')]
      BY <3>1, <3>2
    <3> QED BY <3>1, <3>3, <3>4, <3>5, <3>6, <3>7
  <2>6. ASSUME NEW k \in Slots,
               Fetch(k) \/ Clear(k) \/ GetMessages(k) \/ Render(k)
               \/ DeleteMessages(k) \/ FetchCleared(k) \/ RequestFails(k)
        PROVE  LogTypeOK'
    BY <2>6 DEF Fetch, Clear, GetMessages, Render, DeleteMessages, FetchCleared,
                RequestFails, Step, Newest
  <2> QED BY <2>1, <2>2, <2>3, <2>4, <2>5, <2>6 DEF ServerStep
<1> QED BY <1>1, <1>2, ServerSteps, ClientTypeCorrect, PTL DEF PathSpec

(* Every variable of the composition keeps its type.                       *)
THEOREM PathTypeCorrect == PathSpec => []PathTypeOK
<1>1. ClientTypeOK /\ LogTypeOK => PathTypeOK
  BY DEF PathTypeOK
<1> QED BY <1>1, ClientTypeCorrect, LogTypeCorrect, PTL

(* In the table, under way and on the page an id names the message it was  *)
(* given to, for ever (main.py:36, 129).                                   *)
THEOREM IdsAreForeverHolds == PathSpec => []IdsAreForever
<1> USE DEF IdsAreForever, table, page, logVars
<1>1. PathInit => IdsAreForever
  BY DEF PathInit, LogInit
<1>2. LogTypeOK /\ IdsAreForever /\ ServerStep => IdsAreForever'
  <2> SUFFICES ASSUME LogTypeOK, IdsAreForever, ServerStep PROVE IdsAreForever'
    OBVIOUS
  <2> USE DEF LogTypeOK
  <2>1. ASSUME NEW n \in wire, Arrive(n) PROVE IdsAreForever'
    BY <2>1 DEF Arrive
  <2>2. CASE UNCHANGED logVars \/ Startup \/ Shutdown \/ Exit \/ ListenerDies
    BY <2>2 DEF Startup, Shutdown, Exit, ListenerDies
  <2>3. CASE Bind \/ TimesOut \/ Recv
    BY <2>3 DEF Bind, TimesOut, Recv
  <2>4. CASE InsertMessage
    <3>1. /\ rows' = rows \union {[id |-> seq + 1, line |-> rx]} /\ seq' = seq + 1
          /\ book' = Append(book, rx) /\ UNCHANGED <<answer, shown>>
      BY <2>4 DEF InsertMessage, NewId
    <3>2. /\ Len(book') = seq + 1 /\ book'[seq + 1] = rx
          /\ \A i \in 1..seq : book'[i] = book[i]
      BY <3>1
    <3>3. \A r \in rows \union shown \union UNION {answer[k] : k \in Slots} :
             r.id \in 1..seq' /\ r.line = book'[r.id]
      BY <3>1, <3>2
    <3> QED BY <3>1, <3>2, <3>3
  <2>5. ASSUME NEW k \in Slots,
               Fetch(k) \/ Clear(k) \/ GetMessages(k) \/ Render(k)
               \/ DeleteMessages(k) \/ FetchCleared(k) \/ RequestFails(k)
        PROVE  IdsAreForever'
    <3>1. /\ UNCHANGED <<seq, book>> /\ rows' \subseteq rows
          /\ shown' = shown \/ shown' = answer[k]
          /\ \A j \in Slots : answer'[j] = answer[j] \/ answer'[j] \subseteq rows
      BY <2>5 DEF Fetch, Clear, GetMessages, Render, DeleteMessages, FetchCleared,
                  RequestFails, Step, Newest
    <3>2. ASSUME NEW r \in rows' \union shown' \union UNION {answer'[j] : j \in Slots}
          PROVE  r \in rows \union shown \union UNION {answer[j] : j \in Slots}
      BY <3>1, <3>2
    <3> QED BY <3>1, <3>2
  <2> QED BY <2>1, <2>2, <2>3, <2>4, <2>5 DEF ServerStep
<1> QED BY <1>1, <1>2, ServerSteps, LogTypeCorrect, PTL DEF PathSpec

(* Neither the table nor the page ever has a gap (main.py:119, 129).       *)
THEOREM NoGapsHolds == PathSpec => []NoGaps
<1> USE DEF table, page, logVars
<1>1. PathInit => NoGaps
  BY DEF PathInit, LogInit, NoGaps
<1>2. LogTypeOK /\ NoGaps /\ ServerStep => NoGaps'
  <2> SUFFICES ASSUME LogTypeOK, NoGaps, ServerStep PROVE NoGaps'
    OBVIOUS
  <2>0. CASE UNCHANGED <<rows, seq, answer, shown>>
    BY <2>0 DEF NoGaps
  <2>1. ASSUME NEW n \in wire, Arrive(n) PROVE NoGaps'
    BY <2>0, <2>1 DEF Arrive
  <2>2. CASE UNCHANGED logVars \/ Startup \/ Shutdown \/ Exit \/ ListenerDies
    BY <2>0, <2>2 DEF Startup, Shutdown, Exit, ListenerDies
  <2>3. CASE Bind \/ TimesOut \/ Recv
    BY <2>0, <2>3 DEF Bind, TimesOut, Recv
  <2>4. CASE InsertMessage
    <3> DEFINE new == [id |-> seq + 1, line |-> rx]
    <3>1. rows' = rows \union {new} /\ seq' = seq + 1 /\ UNCHANGED <<answer, shown>>
      BY <2>4 DEF InsertMessage, NewId
    <3>2. ASSUME NEW r \in rows', NEW i \in r.id..seq' PROVE \E x \in rows' : x.id = i
      <4>1. CASE i = seq + 1
        <5>1. new \in rows' /\ new.id = i BY <3>1, <4>1
        <5> QED BY <5>1
      <4>2. CASE i # seq + 1
        <5>1. seq \in Nat /\ r.id \in 1..(seq + 1)
          BY <3>1 DEF LogTypeOK, Row
        <5>2. i \in r.id..seq /\ r.id <= seq
          BY <3>1, <3>2, <4>2, <5>1
        <5>3. r \in rows
          BY <3>1, <5>1, <5>2
        <5> QED BY <3>1, <5>2, <5>3 DEF NoGaps
      <4> QED BY <4>1, <4>2
    <3> QED BY <3>1, <3>2 DEF NoGaps
  <2>5. ASSUME NEW k \in Slots, GetMessages(k) PROVE NoGaps'
    <3>1. /\ answer' = [answer EXCEPT ![k] = Newest(rows)] /\ UNCHANGED <<rows, seq, shown>>
      BY <2>5 DEF GetMessages
    <3>2. ASSUME NEW r \in Newest(rows), NEW q \in Newest(rows), NEW i \in r.id..q.id
          PROVE  \E x \in Newest(rows) : x.id = i
      <4>1. r \in rows /\ q \in rows /\ \A p \in rows : p.id < r.id + Limit
        BY <3>2 DEF Newest
      <4>2. /\ seq \in Nat /\ r.id \in 1..seq /\ q.id \in 1..seq
            /\ \A p \in rows : p.id \in 1..seq
        BY <4>1 DEF LogTypeOK, Row
      <4>3. i \in r.id..seq
        BY <4>2
      <4>4. PICK x \in rows : x.id = i
        BY <4>1, <4>3 DEF NoGaps
      <4>5. \A p \in rows : p.id < x.id + Limit
        BY <4>1, <4>2, <4>3, <4>4, LimitAssumption
      <4> QED BY <4>4, <4>5 DEF Newest
    <3>3. \A j \in Slots : answer'[j] = IF j = k THEN Newest(rows) ELSE answer[j]
      BY <3>1 DEF LogTypeOK
    <3> QED BY <3>1, <3>2, <3>3 DEF NoGaps
  <2>6. ASSUME NEW k \in Slots, Render(k) PROVE NoGaps'
    <3>1. /\ shown' = answer[k] /\ UNCHANGED <<rows, seq>>
          /\ \A j \in Slots : answer'[j] = IF j = k THEN {} ELSE answer[j]
      BY <2>6 DEF Render, LogTypeOK
    <3> QED BY <3>1 DEF NoGaps
  <2>7. ASSUME NEW k \in Slots, RequestFails(k) PROVE NoGaps'
    <3>1. /\ UNCHANGED <<rows, seq, shown>>
          /\ \A j \in Slots : answer'[j] = IF j = k THEN {} ELSE answer[j]
      BY <2>7 DEF RequestFails, LogTypeOK
    <3> QED BY <3>1 DEF NoGaps
  <2>8. ASSUME NEW k \in Slots, DeleteMessages(k) PROVE NoGaps'
    BY <2>8 DEF DeleteMessages, NoGaps
  <2>9. ASSUME NEW k \in Slots, Fetch(k) \/ Clear(k) \/ FetchCleared(k) PROVE NoGaps'
    BY <2>0, <2>9 DEF Fetch, Clear, FetchCleared
  <2> QED BY <2>1, <2>2, <2>3, <2>4, <2>5, <2>6, <2>7, <2>8, <2>9 DEF ServerStep
<1> QED BY <1>1, <1>2, ServerSteps, LogTypeCorrect, PTL DEF PathSpec

-----------------------------------------------------------------------------
(* What a step of the client leaves to the server, and the other way.      *)
LEMMA LoggedGrows ==
  ASSUME ClientTypeOK, [PathNext]_pathVars
  PROVE  logged \in Nat /\ (logged' = logged \/ (logged' = logged + 1 /\ UNCHANGED logVars /\ Log))
<1> USE LinesAssumption DEF ClientTypeOK
<1>1. CASE Log /\ UNCHANGED logVars
  BY <1>1 DEF Log
<1>2. CASE SyslogTask \/ Restart
  BY <1>2 DEF SyslogTask, Restart, Start, Open, Receive, Nothing, Keep, Send, ResolveFails,
             ReceivesNull
<1>3. CASE UNCHANGED clientVars
  BY <1>3 DEF clientVars
<1>4. ASSUME NEW n \in wire, Deliver(n) \/ Lose(n) PROVE logged' = logged
  BY <1>4 DEF Deliver, Lose
<1> QED BY <1>1, <1>2, <1>3, <1>4 DEF PathNext, ClientAlone, ServerAlone, pathVars

LEMMA FromTheClientInd ==
  ASSUME ClientTypeOK, LogTypeOK, FromTheClient, [PathNext]_pathVars
  PROVE  FromTheClient'
<1>0. logged \in Nat
  BY LoggedGrows
<1>1. CASE logged' = logged + 1
  <2>1. Log /\ UNCHANGED logVars
    BY <1>0, <1>1, LoggedGrows
  <2>2. 1..logged \subseteq 1..logged' /\ 0..logged \subseteq 0..logged' /\ logged' \in 1..logged'
    BY <1>0, <1>1
  <2>3. waiting \in Seq(1..logged') /\ sockq \in Seq(1..logged')
    BY <2>2, SeqMonotonic DEF FromTheClient
  <2>4. waiting' = waiting \/ waiting' = Append(waiting, logged')
    BY <2>1 DEF Log
  <2>5. waiting' \in Seq(1..logged')
    <3>1. Append(waiting, logged') \in Seq(1..logged')
      BY <2>2, <2>3, AppendProperties
    <3> QED BY <2>3, <2>4, <3>1
  <2>6. UNCHANGED <<item, wire, sockq, rx, lpc, cpc>>
    BY <2>1 DEF Log, logVars
  <2> QED BY <2>2, <2>3, <2>5, <2>6 DEF FromTheClient
<1>2. CASE logged' = logged
  <2> USE DEF FromTheClient
  <2>1. ASSUME UNCHANGED <<sockq, rx, lpc>> \/ UNCHANGED logVars, UNCHANGED wire,
               UNCHANGED <<waiting, item, cpc>> \/ UNCHANGED clientVars
        PROVE  FromTheClient'
    BY <1>2, <2>1 DEF logVars, clientVars
  <2>2. CASE ClientAlone
    <3>0. UNCHANGED <<sockq, rx, lpc>> BY <2>2 DEF ClientAlone, logVars
    <3>1. CASE Log
      BY <1>0, <1>2, <3>1 DEF Log
    <3>2. CASE Start \/ Open \/ Nothing
      BY <1>2, <3>0, <3>2 DEF Start, Open, Nothing, ClientGoto
    <3>3. CASE Receive
      <4>1. waiting # <<>> /\ item' = Head(waiting) /\ waiting' = Tail(waiting) /\ wire' = wire
        BY <3>3 DEF Receive
      <4>2. item' \in 1..logged /\ waiting' \in Seq(1..logged)
        BY <4>1, HeadTailProperties
      <4>3. item' \in 0..logged /\ item' # 0
        BY <1>0, <4>2
      <4> QED BY <1>2, <3>0, <4>1, <4>2, <4>3
    <3>4. CASE Keep \/ Send
      <4>1. waiting' = waiting /\ item' = 0 /\ cpc' = "open" /\ wire' \subseteq wire \union {item} /\ item # 0
        BY <3>4 DEF Keep, Send, ClientGoto
      <4>2. item \in 1..logged /\ 0 \in 0..logged
        BY <1>0, <4>1
      <4> QED BY <1>2, <3>0, <4>1, <4>2
    <3>5. CASE Restart \/ ResolveFails \/ ReceivesNull
      <4>1. waiting' = <<>> /\ item' = 0 /\ cpc' = "off" /\ wire' = wire
        BY <3>5 DEF Restart, ResolveFails, ReceivesNull
      <4>2. <<>> \in Seq(1..logged) /\ 0 \in 0..logged
        BY <1>0
      <4> QED BY <1>2, <3>0, <4>1, <4>2
    <3> QED BY <2>2, <3>1, <3>2, <3>3, <3>4, <3>5 DEF ClientAlone, SyslogTask
  <2>3. CASE ServerAlone
    <3>0. UNCHANGED <<waiting, item, cpc, wire>> BY <2>3 DEF ServerAlone, clientVars
    <3>1. <<>> \in Seq(1..logged) /\ 0 \in 0..logged
      BY <1>0
    <3>2. CASE Bind \/ InsertMessage \/ ListenerDies \/ TimesOut \/ Exit
      <4>1. sockq' \in {sockq, <<>>} /\ rx' \in {rx, 0} /\ lpc' # "insert"
        BY <3>2 DEF Bind, InsertMessage, ListenerDies, TimesOut, Exit, Loop
      <4> QED BY <1>2, <3>0, <3>1, <4>1
    <3>3. CASE Recv
      <4>1. sockq # <<>> /\ rx' = Head(sockq) /\ sockq' = Tail(sockq)
        BY <3>3 DEF Recv
      <4>2. rx' \in 1..logged /\ sockq' \in Seq(1..logged)
        BY <4>1, HeadTailProperties
      <4>3. rx' \in 0..logged /\ rx' # 0
        BY <1>0, <4>2
      <4> QED BY <1>2, <3>0, <4>2, <4>3
    <3>4. CASE Startup
      BY <1>2, <3>0, <3>4 DEF Startup
    <3>5. CASE Shutdown \/ User \/ Timer \/ \E k \in Slots : Request(k)
      <4>1. UNCHANGED <<sockq, rx, lpc>>
        BY <3>5 DEF Shutdown, User, Timer, Request, Fetch, Clear, GetMessages, Render,
                    DeleteMessages, FetchCleared, RequestFails
      <4> QED BY <2>1, <3>0, <4>1
    <3> QED BY <2>3, <3>2, <3>3, <3>4, <3>5 DEF ServerAlone, Listener, Container
  <2>4. ASSUME NEW n \in wire, Deliver(n) \/ Lose(n) PROVE FromTheClient'
    <3>1. /\ UNCHANGED <<waiting, item, rx, lpc, cpc>> /\ wire' \subseteq wire
          /\ sockq' = sockq \/ sockq' = Append(sockq, n)
      BY <2>4 DEF Deliver, Lose, Arrive, logVars
    <3>2. sockq' \in Seq(1..logged)
      <4>1. n \in 1..logged /\ sockq \in Seq(1..logged)
        OBVIOUS
      <4>2. Append(sockq, n) \in Seq(1..logged)
        BY <4>1, AppendProperties
      <4> QED BY <3>1, <4>1, <4>2
    <3> QED BY <1>2, <3>1, <3>2
  <2>5. CASE UNCHANGED pathVars
    BY <2>1, <2>5 DEF pathVars, clientVars, logVars
  <2> QED BY <2>2, <2>3, <2>4, <2>5 DEF PathNext
<1> QED BY <1>0, <1>1, <1>2, LoggedGrows

(* Nothing is under way, in hand or about to be recorded but what was      *)
(* logged before (udp_client.c:36, main.py:74-78).                         *)
THEOREM FromTheClientHolds == PathSpec => []FromTheClient
<1>1. PathInit => FromTheClient
  <2>1. <<>> \in Seq(1..0) /\ 0 \in 0..0
    OBVIOUS
  <2> QED BY <2>1 DEF PathInit, ClientInit, LogInit, FromTheClient
<1> QED BY <1>1, FromTheClientInd, ClientTypeCorrect, LogTypeCorrect, PTL DEF PathSpec

(* An answer has at most Limit rows (main.py:119).                         *)
THEOREM WithinLimitHolds == PathSpec => []WithinLimit
<1> USE LimitAssumption DEF LogTypeOK, table, page, logVars
<1>1. PathInit => WithinLimit
  BY DEF PathInit, LogInit, WithinLimit
<1>2. LogTypeOK /\ WithinLimit /\ ServerStep => WithinLimit'
  <2> SUFFICES ASSUME LogTypeOK, WithinLimit, ServerStep PROVE WithinLimit'
    OBVIOUS
  <2>1. CASE UNCHANGED answer
    BY <2>1 DEF WithinLimit
  <2>2. ASSUME NEW n \in wire, Arrive(n) PROVE UNCHANGED answer
    BY <2>2 DEF Arrive
  <2>3. CASE UNCHANGED logVars \/ Startup \/ Shutdown \/ Exit \/ ListenerDies \/ Bind
             \/ TimesOut \/ Recv \/ InsertMessage
    <3>1. UNCHANGED answer
      BY <2>3 DEF Startup, Shutdown, Exit, ListenerDies, Bind, TimesOut, Recv, InsertMessage
    <3> QED BY <2>1, <3>1
  <2>4. ASSUME NEW k \in Slots, Fetch(k) \/ Clear(k) \/ DeleteMessages(k) \/ FetchCleared(k)
        PROVE  UNCHANGED answer
    BY <2>4 DEF Fetch, Clear, DeleteMessages, FetchCleared
  <2>5. ASSUME NEW k \in Slots, GetMessages(k) PROVE WithinLimit'
    <3>1. \A j \in Slots : answer'[j] = IF j = k THEN Newest(rows) ELSE answer[j]
      BY <2>5 DEF GetMessages
    <3>2. ASSUME NEW r \in Newest(rows), NEW q \in Newest(rows) PROVE q.id - r.id < Limit
      <4>1. r \in rows /\ q \in rows /\ q.id < r.id + Limit
        BY <3>2 DEF Newest
      <4>2. r.id \in Nat /\ q.id \in Nat
        BY <4>1 DEF Row
      <4> QED BY <4>1, <4>2
    <3> QED BY <3>1, <3>2 DEF WithinLimit
  <2>6. ASSUME NEW k \in Slots, Render(k) \/ RequestFails(k) PROVE WithinLimit'
    <3>1. \A j \in Slots : answer'[j] = IF j = k THEN {} ELSE answer[j]
      BY <2>6 DEF Render, RequestFails
    <3> QED BY <3>1 DEF WithinLimit
  <2> QED BY <2>1, <2>2, <2>3, <2>4, <2>5, <2>6 DEF ServerStep
<1> QED BY <1>1, <1>2, ServerSteps, LogTypeCorrect, PTL DEF PathSpec

-----------------------------------------------------------------------------
(* Rows without a gap, each with the message that was recorded under its   *)
(* id, are a run of the log.                                               *)
LEMMA GapFreeIsRun ==
  ASSUME NEW n \in Nat, NEW some, some \subseteq Row(n),
         \A r \in some : r.line = book[r.id],
         \A r, q \in some : \A i \in r.id..q.id : \E x \in some : x.id = i,
         \A r, q \in some : q.id - r.id < Limit
  PROVE  \E from \in 1..(n + 1), to \in 0..n : to - from < Limit /\ some = MsgLog!Run(from, to)
<1> USE LimitAssumption
<1>0. ASSUME NEW r \in some PROVE r.id \in 1..n /\ r = MsgLog!Numbered(r.id)
  BY DEF Row, MsgLog!Numbered
<1>1. CASE some = {}
  <2>1. 1 \in 1..(n + 1) /\ 0 \in 0..n /\ 0 - 1 < Limit
    OBVIOUS
  <2>2. some = MsgLog!Run(1, 0)
    BY <1>1 DEF MsgLog!Run
  <2> QED BY <2>1, <2>2
<1>2. CASE some # {}
  <2> DEFINE ids == {r.id : r \in some}
  <2>1. ids \subseteq 0..n /\ ids \subseteq 1..n /\ ids \subseteq Nat /\ ids # {}
    BY <1>0, <1>2
  <2>2. PICK from \in ids : \A i \in ids : from <= i
    <3> HIDE DEF ids
    <3> QED BY <2>1, Least
  <2>3. PICK to \in ids : \A i \in ids : i <= to
    <3> HIDE DEF ids
    <3> QED BY <2>1, Greatest
  <2>4. PICK r \in some : r.id = from
    OBVIOUS
  <2>5. PICK q \in some : q.id = to
    OBVIOUS
  <2>6. from \in 1..(n + 1) /\ to \in 0..n /\ to - from < Limit
    BY <2>1, <2>4, <2>5
  <2>7. ASSUME NEW x \in some PROVE x \in MsgLog!Run(from, to)
    <3>1. x.id \in from..to
      BY <1>0, <2>1, <2>2, <2>3
    <3> QED BY <1>0, <3>1 DEF MsgLog!Run
  <2>8. ASSUME NEW i \in from..to PROVE MsgLog!Numbered(i) \in some
    <3>1. PICK x \in some : x.id = i
      BY <2>4, <2>5
    <3> QED BY <1>0, <3>1
  <2>9. some = MsgLog!Run(from, to)
    BY <2>7, <2>8 DEF MsgLog!Run
  <2> QED BY <2>6, <2>9
<1> QED BY <1>1, <1>2

LEMMA PathInitImplements == PathInit => MsgLog!Init
BY DEF PathInit, ClientInit, LogInit, MsgLog!Init

(* Every step is one of the MessageLog's or none of its business.          *)
LEMMA PathStepImplements ==
  ASSUME ClientTypeOK, LogTypeOK, IdsAreForever, NoGaps, FromTheClient, WithinLimit,
         [PathNext]_pathVars
  PROVE  [MsgLog!Next]_(MsgLog!vars)
<1> USE DEF table, page, logVars
<1>1. CASE logged' = logged + 1
  <2>1. Log /\ UNCHANGED logVars /\ logged \in Nat /\ logged' \in 1..Lines
    BY <1>1, LoggedGrows, LinesAssumption DEF Log, ClientTypeOK
  <2>2. 1..logged' = (1..logged) \union {logged'}
    BY <1>1, <2>1
  <2>3. MsgLog!Say(logged')
    BY <2>1, <2>2 DEF MsgLog!Say
  <2> QED BY <2>1, <2>3 DEF MsgLog!Next
<1>2. CASE logged' = logged
  <2>0. ServerStep
    BY ServerSteps
  <2>1. CASE UNCHANGED <<book, rows, shown>>
    BY <1>2, <2>1 DEF MsgLog!vars
  <2>2. ASSUME NEW n \in wire, Arrive(n) PROVE UNCHANGED <<book, rows, shown>>
    BY <2>2 DEF Arrive
  <2>3. CASE UNCHANGED logVars \/ Startup \/ Shutdown \/ Exit \/ ListenerDies \/ Bind
             \/ TimesOut \/ Recv
    <3>1. UNCHANGED <<book, rows, shown>>
      BY <2>3 DEF Startup, Shutdown, Exit, ListenerDies, Bind, TimesOut, Recv
    <3> QED BY <2>1, <3>1
  <2>4. CASE InsertMessage
    <3>1. /\ rows' = rows \union {[id |-> seq + 1, line |-> rx]} /\ book' = Append(book, rx)
          /\ lpc = "insert" /\ shown' = shown
      BY <2>4 DEF InsertMessage, NewId
    <3>2. seq = Len(book)
      BY DEF IdsAreForever
    <3>3. rx \in 1..logged
      <4>1. rx \in 0..logged /\ rx # 0 /\ logged \in Nat
        BY <3>1, LoggedGrows DEF FromTheClient
      <4> QED BY <4>1
    <3>4. MsgLog!Write(rx)
      BY <1>2, <3>1, <3>2, <3>3 DEF MsgLog!Write
    <3> QED BY <3>3, <3>4 DEF MsgLog!Next
  <2>5. ASSUME NEW k \in Slots, DeleteMessages(k) PROVE [MsgLog!Next]_(MsgLog!vars)
    <3>1. MsgLog!Clear
      BY <1>2, <2>5 DEF DeleteMessages, MsgLog!Clear
    <3> QED BY <3>1 DEF MsgLog!Next
  <2>6. ASSUME NEW k \in Slots, Render(k) PROVE [MsgLog!Next]_(MsgLog!vars)
    <3>1. shown' = answer[k] /\ UNCHANGED <<book, rows>>
      BY <2>6 DEF Render
    <3>2. answer[k] \subseteq Row(seq) /\ seq \in Nat /\ seq = Len(book)
      BY DEF LogTypeOK, IdsAreForever
    <3>3. \A r \in answer[k] : r.line = book[r.id]
      BY DEF IdsAreForever
    <3>4. \A r, q \in answer[k] : \A i \in r.id..q.id : \E x \in answer[k] : x.id = i
      BY DEF NoGaps
    <3>5. \A r, q \in answer[k] : q.id - r.id < Limit
      BY DEF WithinLimit
    <3>6. \E from \in 1..(seq + 1), to \in 0..seq :
            to - from < Limit /\ answer[k] = MsgLog!Run(from, to)
      <4> DEFINE some == answer[k]
      <4>1. some \subseteq Row(seq) /\ seq \in Nat
        BY <3>2
      <4> HIDE DEF some
      <4> QED BY ONLY <3>3, <3>4, <3>5, <4>1, GapFreeIsRun DEF some
    <3>7. PICK from \in 1..(Len(book) + 1), to \in 0..Len(book) :
            to - from < Limit /\ answer[k] = MsgLog!Run(from, to)
      BY <3>2, <3>6
    <3>8. MsgLog!Show(from, to)
      BY <1>2, <3>1, <3>7 DEF MsgLog!Show
    <3> QED BY <3>7, <3>8 DEF MsgLog!Next
  <2>7. ASSUME NEW k \in Slots,
               Fetch(k) \/ Clear(k) \/ GetMessages(k) \/ FetchCleared(k) \/ RequestFails(k)
        PROVE  UNCHANGED <<book, rows, shown>>
    BY <2>7 DEF Fetch, Clear, GetMessages, FetchCleared, RequestFails
  <2> QED BY <2>0, <2>1, <2>2, <2>3, <2>4, <2>5, <2>6, <2>7 DEF ServerStep
<1> QED BY <1>1, <1>2, LoggedGrows

(* The client, the network and the server implement a MessageLog           *)
(* (udp_client.c:106, main.py:74-78, 119, index.html:82).                  *)
THEOREM ImplementsMessageLogHolds == PathSpec => ImplementsMessageLog
<1> USE DEF ImplementsMessageLog, MsgLog!Spec
<1> QED
  BY PathInitImplements, PathStepImplements, ClientTypeCorrect, LogTypeCorrect,
     IdsAreForeverHolds, NoGapsHolds, FromTheClientHolds, WithinLimitHolds, PTL DEF PathSpec
=============================================================================

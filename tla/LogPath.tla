------------------------------ MODULE LogPath -------------------------------
(* The client, the network and the server: the network may lose datagrams  *)
(* and change their order.                                                 *)
EXTENDS SyslogClient, UdpLog, Integers

pathVars == <<clientVars, logVars>>

PathInit == ClientInit /\ LogInit

Deliver(n) == /\ n \in wire /\ wire' = wire \ {n} /\ Arrive(n)
              /\ UNCHANGED <<cpc, waiting, used, item, kept, logged>>
Lose(n)    == /\ n \in wire /\ wire' = wire \ {n}
              /\ UNCHANGED <<cpc, waiting, used, item, kept, logged, logVars>>

ClientAlone == (Log \/ SyslogTask \/ Restart) /\ UNCHANGED logVars
ServerAlone == /\ Listener \/ Container \/ Timer \/ User \/ \E k \in Slots : Request(k)
               /\ UNCHANGED clientVars
PathNext == ClientAlone \/ ServerAlone \/ \E n \in wire : Deliver(n) \/ Lose(n)

PathSpec == PathInit /\ [][PathNext]_pathVars

(* Both programs are scheduled, and every request ends, as a failure if    *)
(* nothing else; of the sockets and of the requests of a server that is    *)
(* up, not all fail (SF).                                                  *)
PathFairSpec ==
  /\ PathSpec
  /\ WF_pathVars(SyslogTask /\ UNCHANGED logVars)
  /\ WF_pathVars(Listener /\ UNCHANGED clientVars) /\ SF_pathVars(Timer /\ UNCHANGED clientVars)
  /\ \A k \in Slots : WF_pathVars(Request(k) /\ UNCHANGED clientVars)
  /\ SF_pathVars(UNCHANGED clientVars /\ \E k \in Slots : GetMessages(k))
  /\ SF_pathVars(UNCHANGED clientVars /\ \E k \in Slots : Render(k))

-----------------------------------------------------------------------------
(* The types of both parts: above all, the ring buffer's room and the      *)
(* socket's backlog keep within their bounds, and an id within those given *)
(* (udp_client.c:20, main.py:36).                                          *)
PathTypeOK == ClientTypeOK /\ LogTypeOK

(* From the line to the page, over full buffers, a network that loses and  *)
(* reorders, restarts, deletions and overlapping requests, the two         *)
(* programs do nothing a MessageLog would not: whatever is recorded was    *)
(* logged, and the page is a run of what was recorded (udp_client.c:106,   *)
(* main.py:74-78, 119, index.html:82).                                     *)
MsgLog == INSTANCE MessageLog WITH Messages <- 1..Lines, said <- 1..logged, log <- book,
                                   table <- rows, page <- shown
ImplementsMessageLog == MsgLog!Spec

(* What that rests on, with the invariants above: no line comes from       *)
(* nowhere, and every answer under way has at most Limit rows.             *)
FromTheClient ==
  /\ waiting \in Seq(1..logged) /\ item \in 0..logged /\ wire \subseteq 1..logged
  /\ sockq \in Seq(1..logged) /\ rx \in 0..logged /\ (lpc = "insert" => rx # 0)
  /\ cpc = "send" => item # 0
WithinLimit ==
  \A k \in Slots : \A r, q \in answer[k] : q.id - r.id < Limit

(* A message in the socket of a listener that goes on is recorded in the   *)
(* end (main.py:69-78).                                                    *)
ReceivedIsRecorded ==
  \A n \in 1..Lines :
    (\E i \in 1..Len(sockq) : sockq[i] = n)
      ~> ((\E i \in 1..Len(book) : book[i] = n) \/ server # "up" \/ lpc = "dead")

(* Once the table rests, the page of a server that is up shows it, however *)
(* its requests overtook one another (index.html:67-79, 115-122).  Lines   *)
(* bounds the messages, so that the table comes to rest.                   *)
PageCatchesUp == <>[](server = "up") => <>[](shown = Newest(rows))
=============================================================================

--------------------------- MODULE WifiConnProofs ---------------------------
(* Proofs about WifiConn, for every retry limit and every queue bound. *)
EXTENDS WifiConn, TLAPS

(* Every variable keeps its type (wifi.c:7-10 and the driver behind it).   *)
THEOREM TypeCorrect == Spec => []TypeOK
<1> USE MaxRetryAssumption, QueueLenAssumption
    DEF TypeOK, Ops, Events, Errors, Sem, CallerPC, Exhausted, HandlerPC
<1>1. Init => TypeOK
  BY DEF Init
<1>2. TypeOK /\ [Next]_vars => TypeOK'
  <2> SUFFICES ASSUME TypeOK, [Next]_vars PROVE TypeOK'
    OBVIOUS
  <2> USE DEF caller, loop, driver, Goto, HGoto, Post, LinkDown
  <2>1. CASE Caller
    <3>1. CASE CallInit BY <3>1 DEF CallInit
    <3>2. CASE CallConnect BY <3>2 DEF CallConnect
    <3>3. CASE CallDisconnect BY <3>3 DEF CallDisconnect
    <3>4. CASE DoDisconnect BY <3>4 DEF DoDisconnect, DriverDisconnect
    <3>5. CASE CreateSem4 BY <3>5 DEF CreateSem4
    <3>6. CASE CreateSem6 BY <3>6 DEF CreateSem6
    <3>7. CASE ZeroRetries BY <3>7 DEF ZeroRetries
    <3>8. CASE RegisterHandlers BY <3>8 DEF RegisterHandlers
    <3>9. CASE SetConfig BY <3>9 DEF SetConfig
    <3>10. CASE DriverConnect BY <3>10 DEF DriverConnect
    <3>11. CASE Take4 BY <3>11 DEF Take4
    <3>12. CASE Delete4 BY <3>12 DEF Delete4
    <3>13. CASE Null4 BY <3>13 DEF Null4
    <3>14. CASE Take6 BY <3>14 DEF Take6
    <3>15. CASE Delete6 BY <3>15 DEF Delete6
    <3>16. CASE Null6 BY <3>16 DEF Null6
    <3>17. CASE Judge BY <3>17 DEF Judge
    <3>18. CASE AfterInit BY <3>18 DEF AfterInit
    <3>19. CASE AfterConnect BY <3>19 DEF AfterConnect
    <3>20. CASE AfterDisconnect BY <3>20 DEF AfterDisconnect
    <3>21. CASE RelayOn BY <3>21 DEF RelayOn
    <3>22. CASE AfterOtaConnect BY <3>22 DEF AfterOtaConnect
    <3>23. CASE ExecuteOta BY <3>23 DEF ExecuteOta
    <3>24. CASE Reset BY <3>24 DEF Reset
    <3> QED BY <2>1, <3>1, <3>2, <3>3, <3>4, <3>5, <3>6, <3>7, <3>8, <3>9, <3>10,
               <3>11, <3>12, <3>13, <3>14, <3>15, <3>16, <3>17, <3>18, <3>19,
               <3>20, <3>21, <3>22, <3>23, <3>24 DEF Caller
  <2>2. CASE EventTask
    <3>1. CASE DispatchDisconnect BY <3>1 DEF DispatchDisconnect
    <3>2. CASE CountRetry BY <3>2 DEF CountRetry
    <3>3. CASE Reconnect BY <3>3 DEF Reconnect
    <3>4. ASSUME NEW at, NEW next \in HandlerPC, Give4(at, next) PROVE TypeOK'
      BY <3>4 DEF Give4, Live
    <3>5. ASSUME NEW at, NEW next \in HandlerPC, Give6(at, next) PROVE TypeOK'
      BY <3>5 DEF Give6, Live
    <3>12. ASSUME NEW at, NEW give \in HandlerPC, NEW skip \in HandlerPC,
                  Check4(at, give, skip)
           PROVE  TypeOK'
      BY <3>12 DEF Check4
    <3>13. ASSUME NEW at, NEW give \in HandlerPC, NEW skip \in HandlerPC,
                  Check6(at, give, skip)
           PROVE  TypeOK'
      BY <3>13 DEF Check6
    <3>6. CASE GiveUp BY <3>6 DEF GiveUp, DriverDisconnect
    <3>7. CASE DispatchConnected BY <3>7 DEF DispatchConnected
    <3>8. CASE DispatchGotIp
      <4>1. got' \subseteq {"already", "ip4", "ip6"}
        BY <3>8 DEF DispatchGotIp
      <4> QED BY <3>8, <4>1 DEF DispatchGotIp
    <3>9. CASE DispatchGotIp6
      <4>1. got' \subseteq {"already", "ip4", "ip6"}
        BY <3>9 DEF DispatchGotIp6
      <4> QED BY <3>9, <4>1 DEF DispatchGotIp6
    <3>10. CASE GiveUp4 \/ GotIp BY <3>10, <3>4, <3>12 DEF GiveUp4, GotIp
    <3>11. CASE GiveUp6 \/ GotIp6 BY <3>11, <3>5, <3>13 DEF GiveUp6, GotIp6
    <3> QED BY <2>2, <3>1, <3>2, <3>3, <3>6, <3>7, <3>8, <3>9, <3>10,
               <3>11 DEF EventTask
  <2>3. CASE Driver
    <3> USE DEF DriverStep
    <3>1. CASE Associate BY <3>1 DEF Associate
    <3>2. CASE AttemptFails BY <3>2 DEF AttemptFails
    <3>3. CASE LinkLost BY <3>3 DEF LinkLost
    <3>4. CASE Roam BY <3>4 DEF Roam
    <3>5. CASE Lease BY <3>5 DEF Lease
    <3>6. CASE LinkLocal BY <3>6 DEF LinkLocal
    <3>7. CASE OtherAddress BY <3>7 DEF OtherAddress
    <3> QED BY <2>3, <3>1, <3>2, <3>3, <3>4, <3>5, <3>6, <3>7 DEF Driver
  <2>4. CASE UNCHANGED vars BY <2>4 DEF vars
  <2> QED BY <2>1, <2>2, <2>3, <2>4 DEF Next
<1>3. QED BY <1>1, <1>2, PTL DEF Spec

-----------------------------------------------------------------------------
(* What posting and dispatching do to the lost-link events of the queue.   *)
LEMMA PostKeepsLostLink ==
  ASSUME NEW q \in Seq(Events), NEW e \in Events
  PROVE  LostLinkIn(Append(q, e)) <=> LostLinkIn(q) \/ e = "disc"
BY DEF LostLinkIn

LEMMA DispatchKeepsLostLink ==
  ASSUME NEW q \in Seq(Events), q # <<>>, LostLinkIn(q), Head(q) # "disc"
  PROVE  LostLinkIn(Tail(q))
<1>1. PICK i \in 1..Len(q) : q[i] = "disc"
  BY DEF LostLinkIn
<1>2. i # 1
  BY <1>1
<1>3. i - 1 \in 1..Len(Tail(q)) /\ Tail(q)[i - 1] = q[i]
  BY <1>1, <1>2
<1> QED BY <1>1, <1>3 DEF LostLinkIn

(* The caller of custom_wifi_sta_do_connect never sleeps on a semaphore    *)
(* that no handler is left to give (wifi.c:153, 158 against 17-28).        *)
LEMMA WakeInductive == TypeOK /\ WakeInv /\ [Next]_vars => WakeInv'
<1> SUFFICES ASSUME TypeOK, WakeInv, [Next]_vars PROVE WakeInv'
  OBVIOUS
<1> USE DEF WakeInv, Armed, Waiting, Live, Goto, HGoto, caller, loop, driver
<1>1. CASE Caller
  <2>1. CASE CallInit BY <2>1 DEF CallInit, DriverBusy
  <2>2. CASE CallConnect BY <2>2 DEF CallConnect, DriverBusy
  <2>3. CASE CallDisconnect BY <2>3 DEF CallDisconnect, DriverBusy
  <2>4. CASE DoDisconnect BY <2>4 DEF DoDisconnect, DriverDisconnect, DriverBusy
  <2>5. CASE CreateSem4 BY <2>5 DEF CreateSem4, DriverBusy
  <2>6. CASE CreateSem6 BY <2>6 DEF CreateSem6, DriverBusy
  <2>7. CASE ZeroRetries BY <2>7 DEF ZeroRetries, DriverBusy
  <2>8. CASE RegisterHandlers BY <2>8 DEF RegisterHandlers, DriverBusy
  <2>9. CASE SetConfig BY <2>9 DEF SetConfig, DriverBusy
  <2>10. CASE DriverConnect BY <2>10 DEF DriverConnect, DriverBusy
  <2>11. CASE Take4 BY <2>11 DEF Take4, DriverBusy
  <2>12. CASE Delete4 BY <2>12 DEF Delete4, DriverBusy
  <2>13. CASE Null4 BY <2>13 DEF Null4, DriverBusy
  <2>14. CASE Take6 BY <2>14 DEF Take6, DriverBusy
  <2>15. CASE Delete6 BY <2>15 DEF Delete6, DriverBusy
  <2>16. CASE Null6 BY <2>16 DEF Null6, DriverBusy
  <2>17. CASE Judge BY <2>17 DEF Judge, DriverBusy
  <2>18. CASE AfterInit BY <2>18 DEF AfterInit, DriverBusy
  <2>19. CASE AfterConnect BY <2>19 DEF AfterConnect, DriverBusy
  <2>20. CASE AfterDisconnect BY <2>20 DEF AfterDisconnect, DriverBusy
  <2>21. CASE RelayOn BY <2>21 DEF RelayOn, DriverBusy
  <2>22. CASE AfterOtaConnect BY <2>22 DEF AfterOtaConnect, DriverBusy
  <2>23. CASE ExecuteOta BY <2>23 DEF ExecuteOta, DriverBusy
  <2>24. CASE Reset BY <2>24 DEF Reset, DriverBusy
  <2> QED BY <1>1, <2>1, <2>2, <2>3, <2>4, <2>5, <2>6, <2>7, <2>8, <2>9, <2>10, <2>11, <2>12, <2>13, <2>14, <2>15, <2>16, <2>17, <2>18, <2>19, <2>20, <2>21, <2>22, <2>23, <2>24 DEF Caller
<1>2. CASE EventTask
  <2> USE DEF DriverBusy, TypeOK, Exhausted
  <2>1. CASE DispatchDisconnect
    <3>1. Head(ev) # "disc" /\ LostLinkIn(ev) => LostLinkIn(ev')
      BY <2>1, DispatchKeepsLostLink DEF DispatchDisconnect
    <3> QED BY <2>1, <3>1 DEF DispatchDisconnect
  <2>2. CASE CountRetry BY <2>2, MaxRetryAssumption DEF CountRetry
  <2>3. CASE Reconnect BY <2>3 DEF Reconnect
  <2>4. CASE GiveUp4 BY <2>4 DEF GiveUp4, Check4, Give4
  <2>5. CASE GiveUp6 BY <2>5 DEF GiveUp6, Check6, Give6
  <2>6. CASE GiveUp BY <2>6 DEF GiveUp, DriverDisconnect
  <2>7. CASE DispatchConnected
    <3>1. LostLinkIn(ev) => LostLinkIn(ev')
      BY <2>7, DispatchKeepsLostLink DEF DispatchConnected
    <3> QED BY <2>7, <3>1 DEF DispatchConnected
  <2>8. CASE DispatchGotIp
    <3>1. LostLinkIn(ev) => LostLinkIn(ev')
      BY <2>8, DispatchKeepsLostLink DEF DispatchGotIp
    <3> QED BY <2>8, <3>1 DEF DispatchGotIp
  <2>9. CASE DispatchGotIp6
    <3>1. LostLinkIn(ev) => LostLinkIn(ev')
      BY <2>9, DispatchKeepsLostLink DEF DispatchGotIp6
    <3> QED BY <2>9, <3>1 DEF DispatchGotIp6
  <2>10. CASE GotIp BY <2>10 DEF GotIp, Check4, Give4
  <2>11. CASE GotIp6 BY <2>11 DEF GotIp6, Check6, Give6
  <2> QED BY <1>2, <2>1, <2>2, <2>3, <2>4, <2>5, <2>6, <2>7, <2>8, <2>9, <2>10,
             <2>11 DEF EventTask
<1>3. CASE Driver
  <2> USE DEF DriverStep, DriverBusy, Post, TypeOK
  <2>1. ASSUME NEW e \in Events, ev' = Append(ev, e)
        PROVE  (LostLinkIn(ev) => LostLinkIn(ev')) /\ (e = "disc" => LostLinkIn(ev'))
    BY <2>1, PostKeepsLostLink
  <2> USE DEF Events
  <2>2. CASE Associate BY <2>2, <2>1 DEF Associate
  <2>3. CASE AttemptFails BY <2>3, <2>1 DEF AttemptFails
  <2>4. CASE LinkLost BY <2>4, <2>1 DEF LinkLost
  <2>5. CASE Roam BY <2>5, <2>1 DEF Roam
  <2>6. CASE Lease BY <2>6, <2>1 DEF Lease
  <2>7. CASE LinkLocal BY <2>7, <2>1 DEF LinkLocal
  <2>8. CASE OtherAddress BY <2>8, <2>1 DEF OtherAddress
  <2> QED BY <1>3, <2>2, <2>3, <2>4, <2>5, <2>6, <2>7, <2>8 DEF Driver
<1>4. CASE UNCHANGED vars BY <1>4 DEF vars, DriverBusy
<1> QED BY <1>1, <1>2, <1>3, <1>4 DEF Next

(* What each waiting caller is still owed, and by whom (wifi.c:120-161).   *)
THEOREM WakeInvariant == Spec => []WakeInv
<1>1. Init => WakeInv
  BY DEF Init, WakeInv, Armed, Waiting
<1> QED BY <1>1, TypeCorrect, WakeInductive, PTL DEF Spec

(* No wake-up is lost, whichever way the caller and the handlers           *)
(* interleave and although s_retry_num and the semaphores are unprotected: *)
(* wifi.c:153, 158 wait with portMAX_DELAY.                                *)
THEOREM NoLostWakeUp == Spec => []WakeIsOwed
<1>1. TypeOK /\ WakeInv => WakeIsOwed
  BY DEF WakeInv, WakeIsOwed, Armed, Waiting, Live
<1> QED BY <1>1, TypeCorrect, WakeInvariant, PTL

-----------------------------------------------------------------------------
LEMMA SilenceIsClean == OneLostLink(<<>>) /\ ~LostLinkIn(<<>>)
BY DEF OneLostLink, LostLinkIn

(* At most one lost link is queued, through posting and dispatching.       *)
LEMMA PostOneLostLink ==
  ASSUME NEW q \in Seq(Events), NEW e \in Events, OneLostLink(q),
         e = "disc" => ~LostLinkIn(q)
  PROVE  OneLostLink(Append(q, e))
BY DEF OneLostLink, LostLinkIn

LEMMA DispatchOneLostLink ==
  ASSUME NEW q \in Seq(Events), q # <<>>, OneLostLink(q)
  PROVE  /\ OneLostLink(Tail(q))
         /\ Head(q) = "disc" \/ ~LostLinkIn(q) => ~LostLinkIn(Tail(q))
<1>1. \A i \in 1..Len(Tail(q)) : i + 1 \in 1..Len(q) /\ Tail(q)[i] = q[i + 1]
  OBVIOUS
<1>2. 1 \in 1..Len(q) /\ Head(q) = q[1]
  OBVIOUS
<1>3. OneLostLink(Tail(q))
  BY <1>1 DEF OneLostLink
<1>4. ASSUME NEW i \in 1..Len(Tail(q)), Tail(q)[i] = "disc"
      PROVE  LostLinkIn(q) /\ Head(q) # "disc"
  BY <1>1, <1>2, <1>4 DEF OneLostLink, LostLinkIn
<1> QED BY <1>3, <1>4 DEF LostLinkIn

(* A connection begun with no stale handler: what the handlers report,     *)
(* what they give and what the caller returns go together.                 *)
LEMMA FreshInductive ==
  TypeOK /\ WakeInv /\ FreshInv /\ [Next]_vars => FreshInv'
<1> SUFFICES ASSUME TypeOK, WakeInv, FreshInv, [Next]_vars PROVE FreshInv'
  OBVIOUS
<1> USE MaxRetryAssumption
    DEF FreshInv, Fresh, Quiet, Before, After4, After6, Armed, Waiting, Spent,
        FreshResult, Earned, Exhausted, Goto, HGoto, caller, loop, driver
<1>1. CASE Caller
  <2>1. CASE CallInit BY <2>1 DEF CallInit, WakeInv
  <2>2. CASE CallConnect BY <2>2 DEF CallConnect, Connected, WakeInv
  <2>3. CASE CallDisconnect BY <2>3 DEF CallDisconnect, WakeInv
  <2>4. CASE DoDisconnect BY <2>4 DEF DoDisconnect, DriverDisconnect, WakeInv
  <2>5. CASE CreateSem4 BY <2>5 DEF CreateSem4, WakeInv
  <2>6. CASE CreateSem6 BY <2>6 DEF CreateSem6, WakeInv
  <2>7. CASE ZeroRetries BY <2>7 DEF ZeroRetries, WakeInv
  <2>8. CASE RegisterHandlers BY <2>8, SilenceIsClean DEF RegisterHandlers, WakeInv
  <2>9. CASE SetConfig BY <2>9 DEF SetConfig, WakeInv
  <2>10. CASE DriverConnect BY <2>10, SilenceIsClean DEF DriverConnect, WakeInv
  <2>11. CASE Take4 BY <2>11 DEF Take4, WakeInv
  <2>12. CASE Delete4 BY <2>12 DEF Delete4, WakeInv
  <2>13. CASE Null4 BY <2>13 DEF Null4, WakeInv
  <2>14. CASE Take6 BY <2>14 DEF Take6, WakeInv
  <2>15. CASE Delete6 BY <2>15 DEF Delete6, WakeInv
  <2>16. CASE Null6 BY <2>16 DEF Null6, WakeInv
  <2>17. CASE Judge BY <2>17 DEF Judge, WakeInv
  <2>18. CASE AfterInit BY <2>18 DEF AfterInit, WakeInv
  <2>19. CASE AfterConnect BY <2>19 DEF AfterConnect, WakeInv
  <2>20. CASE AfterDisconnect BY <2>20 DEF AfterDisconnect, WakeInv
  <2>21. CASE RelayOn
    <3>1. ~DriverBusy
      BY <2>21 DEF RelayOn, OffIsOver, DriverBusy, LostLinkIn
    <3>2. handlers = "off"
      BY <2>21, <3>1 DEF RelayOn, WakeInv, TypeOK
    <3> QED BY <2>21, <3>2 DEF RelayOn, OffIsOver
  <2>22. CASE AfterOtaConnect BY <2>22 DEF AfterOtaConnect, WakeInv
  <2>23. CASE ExecuteOta BY <2>23 DEF ExecuteOta, WakeInv
  <2>24. CASE Reset BY <2>24 DEF Reset, WakeInv
  <2> QED BY <1>1, <2>1, <2>2, <2>3, <2>4, <2>5, <2>6, <2>7, <2>8, <2>9, <2>10, <2>11, <2>12, <2>13, <2>14, <2>15, <2>16, <2>17, <2>18, <2>19, <2>20, <2>21, <2>22, <2>23, <2>24 DEF Caller
<1>2. CASE EventTask
  <2> USE DEF WakeInv, TypeOK
  <2>1. CASE DispatchDisconnect
    <3>1. OneLostLink(ev) =>
            /\ OneLostLink(ev')
            /\ Head(ev) = "disc" \/ ~LostLinkIn(ev) => ~LostLinkIn(ev')
      BY <2>1, DispatchOneLostLink DEF DispatchDisconnect
    <3>2. Head(ev) = "disc" => LostLinkIn(ev)
      BY <2>1 DEF DispatchDisconnect, LostLinkIn
    <3> QED BY <2>1, <3>1, <3>2 DEF DispatchDisconnect
  <2>2. CASE CountRetry BY <2>2 DEF CountRetry
  <2>3. CASE Reconnect BY <2>3 DEF Reconnect
  <2>4. CASE GiveUp4 BY <2>4 DEF GiveUp4, Check4, Give4, Live
  <2>5. CASE GiveUp6 BY <2>5 DEF GiveUp6, Check6, Give6, Live
  <2>6. CASE GiveUp BY <2>6 DEF GiveUp, DriverDisconnect
  <2>7. CASE DispatchConnected
    <3>1. OneLostLink(ev) =>
            OneLostLink(ev') /\ (~LostLinkIn(ev) => ~LostLinkIn(ev'))
      BY <2>7, DispatchOneLostLink DEF DispatchConnected
    <3> QED BY <2>7, <3>1 DEF DispatchConnected
  <2>8. CASE DispatchGotIp
    <3>1. OneLostLink(ev) =>
            OneLostLink(ev') /\ (~LostLinkIn(ev) => ~LostLinkIn(ev'))
      BY <2>8, DispatchOneLostLink DEF DispatchGotIp
    <3> QED BY <2>8, <3>1 DEF DispatchGotIp
  <2>9. CASE DispatchGotIp6
    <3>1. OneLostLink(ev) =>
            OneLostLink(ev') /\ (~LostLinkIn(ev) => ~LostLinkIn(ev'))
      BY <2>9, DispatchOneLostLink DEF DispatchGotIp6
    <3> QED BY <2>9, <3>1 DEF DispatchGotIp6
  <2>10. CASE GotIp BY <2>10 DEF GotIp, Check4, Give4, Live
  <2>11. CASE GotIp6 BY <2>11 DEF GotIp6, Check6, Give6, Live
  <2> QED BY <1>2, <2>1, <2>2, <2>3, <2>4, <2>5, <2>6, <2>7, <2>8, <2>9, <2>10,
             <2>11 DEF EventTask
<1>3. CASE Driver
  <2> USE DEF DriverStep, Post, TypeOK
  <2>1. ASSUME NEW e \in Events, ev' = Append(ev, e), OneLostLink(ev),
               e = "disc" => ~LostLinkIn(ev)
        PROVE  OneLostLink(ev') /\ (LostLinkIn(ev') <=> LostLinkIn(ev) \/ e = "disc")
    BY <2>1, PostOneLostLink, PostKeepsLostLink
  <2> USE DEF Events
  <2>2. CASE Associate BY <2>2, <2>1 DEF Associate
  <2>3. CASE AttemptFails BY <2>3, <2>1 DEF AttemptFails
  <2>4. CASE LinkLost BY <2>4, <2>1 DEF LinkLost
  <2>5. CASE Roam BY <2>5, <2>1 DEF Roam
  <2>6. CASE Lease BY <2>6, <2>1 DEF Lease
  <2>7. CASE LinkLocal BY <2>7, <2>1 DEF LinkLocal
  <2>8. CASE OtherAddress BY <2>8, <2>1 DEF OtherAddress
  <2> QED BY <1>3, <2>2, <2>3, <2>4, <2>5, <2>6, <2>7, <2>8 DEF Driver
<1>4. CASE UNCHANGED vars BY <1>4 DEF vars
<1> QED BY <1>1, <1>2, <1>3, <1>4 DEF Next

(* What a caller waits for is owed to it, and a fresh connection begins in *)
(* silence: the two inductive invariants, with stale handlers and without  *)
(* (wifi.c:120-167).                                                       *)
THEOREM FreshInvariant == Spec => [](TypeOK /\ WakeInv /\ FreshInv)
<1>1. Init => WakeInv /\ FreshInv
  BY SilenceIsClean
     DEF Init, WakeInv, FreshInv, Fresh, Quiet, Before, After4, After6, Armed,
         Waiting, Exhausted
<1>2. QED
  BY <1>1, TypeCorrect, WakeInductive, FreshInductive, PTL DEF Spec

(* A connection begun with no stale handler (wifi_init, and the one before *)
(* OTA in the relay cycle) returns ESP_OK only for addresses it obtained,  *)
(* and no error but ESP_FAIL and NO_MEM (wifi.c:120-167).                  *)
THEOREM FreshResultHolds == Spec => []FreshResult
<1>1. TypeOK /\ FreshInv => FreshResult
  BY DEF FreshInv, FreshResult
<1>2. QED BY <1>1, FreshInvariant, PTL

(* ... and trips none of the ESP_ERROR_CHECKs of wifi.c.                   *)
THEOREM FreshNeverAbortsHolds == Spec => []FreshNeverAborts
<1>1. FreshInv => FreshNeverAborts
  BY DEF FreshInv, FreshNeverAborts
<1>2. QED BY <1>1, FreshInvariant, PTL

(* The relay comes back on with every handler of the last cycle gone       *)
(* (gpio.c:37-43).                                                         *)
THEOREM OffLeavesNoHandlerHolds == Spec => []OffLeavesNoHandler
<1>1. TypeOK /\ WakeInv => OffLeavesNoHandler
  BY DEF TypeOK, WakeInv, OffLeavesNoHandler, OffIsOver, DriverBusy, LostLinkIn,
         Exhausted
<1>2. QED BY <1>1, FreshInvariant, PTL

=============================================================================

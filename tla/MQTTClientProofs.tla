--------------------------- MODULE MQTTClientProofs ---------------------------
(* Theorems about MQTTClient, for every set of calls and publishers and    *)
(* every limit.                                                            *)
EXTENDS MQTTClient, FiniteSetTheorems, TLAPS

(* Counting modulo CountCap stays in range.                                *)
LEMMA CountInRange == ASSUME NEW n \in 0..(CountCap - 1)
                      PROVE  (n + 1) % CountCap \in 0..(CountCap - 1)
BY ClientAssumption

(* Every variable keeps its type.                                          *)
THEOREM TypeCorrect == Spec => []TypeOK
<1>1. Init => TypeOK
  <2> SUFFICES ASSUME Init PROVE TypeOK
    OBVIOUS
  <2>1. /\ cm \in Starts \cup {None} /\ connected \in BOOLEAN /\ gauge \in BOOLEAN
        /\ publishFunc \in [Publishers -> Starts \cup {None}]
    BY DEF Init
  <2>2. /\ startPc \in [Starts -> StartPcs] /\ mgrPc \in [Starts -> MgrPcs]
        /\ stopPc \in [Stops -> StopPcs] /\ held \in [Stops -> Starts \cup {None}]
        /\ stopResult \in [Stops -> {"none", "nil", "expired"}]
    BY DEF Init, StartPcs, MgrPcs, StopPcs
  <2>3. /\ callerCtx \in [Starts -> BOOLEAN] /\ runCtx \in [Starts -> BOOLEAN]
        /\ startReady \in [Starts -> BOOLEAN] /\ firstConn \in [Starts -> BOOLEAN]
        /\ connectedOnce \in [Starts -> BOOLEAN] /\ gaveUp \in [Starts -> BOOLEAN]
        /\ innerCtx \in [Starts -> BOOLEAN] /\ link \in [Starts -> BOOLEAN]
        /\ subscribed \in [Starts -> BOOLEAN] /\ everUp \in [Starts -> BOOLEAN]
    BY DEF Init
  <2>4. /\ failures \in [Starts -> Nat] /\ outage \in [Starts -> 0..OutageCap]
        /\ wired \in [Starts -> SUBSET Publishers]
        /\ reconnects \in 0..(CountCap - 1)
    BY ClientAssumption DEF Init
  <2>. QED
    BY <2>1, <2>2, <2>3, <2>4 DEF TypeOK
<1>2. TypeOK /\ [Next]_vars => TypeOK'
  <2> SUFFICES ASSUME TypeOK, [Next]_vars PROVE TypeOK'
    OBVIOUS
  <2> USE ClientAssumption
  <2> USE DEF clientVars, startVars, limiterVars, networkVars, managerVars, stopVars,
          TypeOK, StartPcs, MgrPcs, StopPcs
  <2>1. ASSUME NEW s \in Starts, CancelCaller(s) PROVE TypeOK'
    BY <2>1 DEF CancelCaller
  <2>2. ASSUME NEW s \in Starts, StartRefused(s) PROVE TypeOK'
    BY <2>2 DEF StartRefused
  <2>3. ASSUME NEW s \in Starts, StartAdmitted(s) PROVE TypeOK'
    BY <2>3 DEF StartAdmitted
  <2>4. ASSUME NEW s \in Starts, StartConnect(s) PROVE TypeOK'
    BY <2>4 DEF StartConnect
  <2>5. ASSUME NEW s \in Starts, StartConnectError(s) PROVE TypeOK'
    BY <2>5 DEF StartConnectError
  <2>6. ASSUME NEW s \in Starts, StartReady(s) PROVE TypeOK'
    BY <2>6 DEF StartReady
  <2>7. ASSUME NEW s \in Starts, StartAbandoned(s) PROVE TypeOK'
    BY <2>7 DEF StartAbandoned
  <2>8. ASSUME NEW s \in Starts, DialAborted(s) PROVE TypeOK'
    BY <2>8 DEF DialAborted
  <2>9. ASSUME NEW s \in Starts, OnConnectionUp(s) PROVE TypeOK'
    BY <2>9 DEF OnConnectionUp, LimiterConnected
  <2>10. ASSUME NEW s \in Starts, SubscribeOK(s) PROVE TypeOK'
    BY <2>10 DEF SubscribeOK
  <2>11. ASSUME NEW s \in Starts, SubscribeError(s) PROVE TypeOK'
    BY <2>11 DEF SubscribeError
  <2>12. ASSUME NEW s \in Starts, SetConnectedUp(s) PROVE TypeOK'
    BY <2>12 DEF SetConnectedUp
  <2>13. ASSUME NEW s \in Starts, GaugeUp(s) PROVE TypeOK'
    BY <2>13, CountInRange DEF GaugeUp
  <2>14. ASSUME NEW s \in Starts, NEW p \in Publishers, WirePublisher(s, p)
       PROVE  TypeOK'
    BY <2>14 DEF WirePublisher
  <2>15. ASSUME NEW s \in Starts, CloseStartReady(s) PROVE TypeOK'
    BY <2>15 DEF CloseStartReady
  <2>16. ASSUME NEW s \in Starts, ConnectionDropped(s) PROVE TypeOK'
    BY <2>16 DEF ConnectionDropped
  <2>17. ASSUME NEW s \in Starts, GracefulDisconnect(s) PROVE TypeOK'
    BY <2>17 DEF GracefulDisconnect
  <2>18. ASSUME NEW s \in Starts, SetConnectedDown(s) PROVE TypeOK'
    BY <2>18 DEF SetConnectedDown
  <2>19. ASSUME NEW s \in Starts, GaugeDown(s) PROVE TypeOK'
    BY <2>19 DEF GaugeDown
  <2>20. ASSUME NEW s \in Starts, DialOK(s) PROVE TypeOK'
    BY <2>20 DEF DialOK
  <2>21. ASSUME NEW s \in Starts, OnConnectError(s) PROVE TypeOK'
    BY <2>21 DEF OnConnectError, Counts, Reached
  <2>22. ASSUME NEW s \in Starts, LinkLost(s) PROVE TypeOK'
    BY <2>22 DEF LinkLost
  <2>23. ASSUME NEW s \in Starts, DialHangs(s) PROVE TypeOK'
    BY <2>23 DEF DialHangs
  <2>24. ASSUME NEW s \in Starts, DialReturns(s) PROVE TypeOK'
    BY <2>24 DEF DialReturns
  <2>25. ASSUME NEW t \in Stops, StopNothing(t) PROVE TypeOK'
    BY <2>25 DEF StopNothing
  <2>26. ASSUME NEW t \in Stops, StopDisconnect(t) PROVE TypeOK'
    BY <2>26 DEF StopDisconnect
  <2>27. ASSUME NEW t \in Stops, StopDisconnected(t) PROVE TypeOK'
    BY <2>27 DEF StopDisconnected
  <2>28. ASSUME NEW t \in Stops, StopExpired(t) PROVE TypeOK'
    BY <2>28 DEF StopExpired
  <2>29. ASSUME NEW t \in Stops, StopClear(t) PROVE TypeOK'
    BY <2>29 DEF StopClear
  <2>30. ASSUME NEW t \in Stops, StopRelease(t) PROVE TypeOK'
    BY <2>30 DEF StopRelease
  <2>31. CASE UNCHANGED vars
    BY <2>31 DEF vars
  <2>. QED
    BY <2>1, <2>2, <2>3, <2>4, <2>5, <2>6, <2>7, <2>8, <2>9, <2>10,
       <2>11, <2>12, <2>13, <2>14, <2>15, <2>16, <2>17, <2>18, <2>19,
       <2>20, <2>21, <2>22, <2>25, <2>26, <2>27, <2>28, <2>29, <2>30,
       <2>31, <2>23, <2>24 DEF Next, StartStep, ManagerStep, NetworkStep, StopStep
<1>. QED
  BY <1>1, <1>2, PTL DEF Spec

-----------------------------------------------------------------------------
(* The limiter.  Its counter is compared with the failures the network     *)
(* really had: the two agree but while the main loop is between the        *)
(* connection and OnConnectionUp, which resets the counter late.           *)

\* Nothing is counted, and nobody gives up, before the first connection.
NotArmed(s) == ~everUp[s] => ~connectedOnce[s] /\ ~gaveUp[s]

\* A main loop that has yet to start has never been connected.
NotStarted(s) == startPc[s] \in {"idle", "admitted"} => mgrPc[s] = "none" /\ ~everUp[s]

\* OnConnectionUp is about to reset the counter, or has done so.
CounterExact(s) ==
  IF mgrPc[s] = "up" THEN everUp[s] /\ outage[s] = 0
  ELSE everUp[s] => connectedOnce[s] /\ (MaxReconnectAttempts > 0 => failures[s] = outage[s])

\* The counter stays below the limit until it reaches it, once and for all.
BelowLimit(s) ==
  /\ MaxReconnectAttempts > 0 /\ ~gaveUp[s] => failures[s] < MaxReconnectAttempts
  /\ gaveUp[s] => /\ runCtx[s]
                  /\ mgrPc[s] \in {"dialing", "done"}
                  /\ MaxReconnectAttempts > 0
                  /\ failures[s] = MaxReconnectAttempts

LimiterInv ==
  \A s \in Starts : NotArmed(s) /\ NotStarted(s) /\ CounterExact(s) /\ BelowLimit(s)

(* The parts of LimiterInv bound the count by the length of the outage.    *)
LEMMA LimiterInvImplies == TypeOK /\ LimiterInv => GivesUpExactlyAtLimit
<1> SUFFICES ASSUME TypeOK, LimiterInv, NEW s \in Starts
             PROVE  /\ gaveUp[s] => everUp[s] /\ outage[s] = MaxReconnectAttempts
                    /\ everUp[s] /\ MaxReconnectAttempts > 0
                         => outage[s] <= MaxReconnectAttempts
  BY DEF GivesUpExactlyAtLimit
<1>1. failures[s] \in Nat /\ outage[s] \in Nat /\ MaxReconnectAttempts \in Int
  BY ClientAssumption DEF TypeOK
<1>2. NotArmed(s) /\ CounterExact(s) /\ BelowLimit(s)
  BY DEF LimiterInv
<1>. QED
  BY <1>1, <1>2 DEF NotArmed, CounterExact, BelowLimit

(* The limiter's counter is the length of the outage, in every state.      *)
LEMMA LimiterInvariant == Spec => []LimiterInv
<1>1. Init => LimiterInv
  <2> SUFFICES ASSUME Init, NEW s \in Starts
               PROVE  NotArmed(s) /\ NotStarted(s) /\ CounterExact(s) /\ BelowLimit(s)
    BY DEF LimiterInv
  <2>1. mgrPc[s] = "none" /\ failures[s] = 0
    BY DEF Init
  <2>2. ~everUp[s] /\ ~connectedOnce[s] /\ ~gaveUp[s]
    BY DEF Init
  <2>. QED
    BY <2>1, <2>2, ClientAssumption DEF NotArmed, NotStarted, CounterExact, BelowLimit
<1>2. TypeOK /\ LimiterInv /\ [Next]_vars => LimiterInv'
  <2> SUFFICES ASSUME TypeOK, LimiterInv, [Next]_vars PROVE LimiterInv'
    OBVIOUS
  <2> USE ClientAssumption
  <2> USE DEF clientVars, startVars, limiterVars, networkVars, managerVars, stopVars,
          TypeOK, LimiterInv, NotArmed, NotStarted, CounterExact,
          BelowLimit
  <2>1. ASSUME NEW s \in Starts, CancelCaller(s) PROVE LimiterInv'
    BY <2>1 DEF CancelCaller
  <2>2. ASSUME NEW s \in Starts, StartRefused(s) PROVE LimiterInv'
    BY <2>2 DEF StartRefused
  <2>3. ASSUME NEW s \in Starts, StartAdmitted(s) PROVE LimiterInv'
    BY <2>3 DEF StartAdmitted
  <2>4. ASSUME NEW s \in Starts, StartConnect(s) PROVE LimiterInv'
    BY <2>4 DEF StartConnect
  <2>5. ASSUME NEW s \in Starts, StartConnectError(s) PROVE LimiterInv'
    BY <2>5 DEF StartConnectError
  <2>6. ASSUME NEW s \in Starts, StartReady(s) PROVE LimiterInv'
    BY <2>6 DEF StartReady
  <2>7. ASSUME NEW s \in Starts, StartAbandoned(s) PROVE LimiterInv'
    BY <2>7 DEF StartAbandoned
  <2>8. ASSUME NEW s \in Starts, DialAborted(s) PROVE LimiterInv'
    BY <2>8 DEF DialAborted
  <2>9. ASSUME NEW s \in Starts, OnConnectionUp(s) PROVE LimiterInv'
    BY <2>9 DEF OnConnectionUp, LimiterConnected
  <2>10. ASSUME NEW s \in Starts, SubscribeOK(s) PROVE LimiterInv'
    BY <2>10 DEF SubscribeOK
  <2>11. ASSUME NEW s \in Starts, SubscribeError(s) PROVE LimiterInv'
    BY <2>11 DEF SubscribeError
  <2>12. ASSUME NEW s \in Starts, SetConnectedUp(s) PROVE LimiterInv'
    BY <2>12 DEF SetConnectedUp
  <2>13. ASSUME NEW s \in Starts, GaugeUp(s) PROVE LimiterInv'
    BY <2>13, CountInRange DEF GaugeUp
  <2>14. ASSUME NEW s \in Starts, NEW p \in Publishers, WirePublisher(s, p)
       PROVE  LimiterInv'
    BY <2>14 DEF WirePublisher
  <2>15. ASSUME NEW s \in Starts, CloseStartReady(s) PROVE LimiterInv'
    BY <2>15 DEF CloseStartReady
  <2>16. ASSUME NEW s \in Starts, ConnectionDropped(s) PROVE LimiterInv'
    BY <2>16 DEF ConnectionDropped
  <2>17. ASSUME NEW s \in Starts, GracefulDisconnect(s) PROVE LimiterInv'
    BY <2>17 DEF GracefulDisconnect
  <2>18. ASSUME NEW s \in Starts, SetConnectedDown(s) PROVE LimiterInv'
    BY <2>18 DEF SetConnectedDown
  <2>19. ASSUME NEW s \in Starts, GaugeDown(s) PROVE LimiterInv'
    BY <2>19 DEF GaugeDown
  <2>20. ASSUME NEW s \in Starts, DialOK(s) PROVE LimiterInv'
    BY <2>20 DEF DialOK, Cancelled, RunCancelled
  <2>21. ASSUME NEW s \in Starts, OnConnectError(s) PROVE LimiterInv'
    BY <2>21 DEF OnConnectError, Counts, Reached, Cancelled, RunCancelled
  <2>22. ASSUME NEW s \in Starts, LinkLost(s) PROVE LimiterInv'
    BY <2>22 DEF LinkLost
  <2>23. ASSUME NEW s \in Starts, DialHangs(s) PROVE LimiterInv'
    BY <2>23 DEF DialHangs, Cancelled, RunCancelled
  <2>24. ASSUME NEW s \in Starts, DialReturns(s) PROVE LimiterInv'
    BY <2>24 DEF DialReturns
  <2>25. ASSUME NEW t \in Stops, StopNothing(t) PROVE LimiterInv'
    BY <2>25 DEF StopNothing
  <2>26. ASSUME NEW t \in Stops, StopDisconnect(t) PROVE LimiterInv'
    BY <2>26 DEF StopDisconnect
  <2>27. ASSUME NEW t \in Stops, StopDisconnected(t) PROVE LimiterInv'
    BY <2>27 DEF StopDisconnected
  <2>28. ASSUME NEW t \in Stops, StopExpired(t) PROVE LimiterInv'
    BY <2>28 DEF StopExpired
  <2>29. ASSUME NEW t \in Stops, StopClear(t) PROVE LimiterInv'
    BY <2>29 DEF StopClear
  <2>30. ASSUME NEW t \in Stops, StopRelease(t) PROVE LimiterInv'
    BY <2>30 DEF StopRelease
  <2>31. CASE UNCHANGED vars
    BY <2>31 DEF vars
  <2>. QED
    BY <2>1, <2>2, <2>3, <2>4, <2>5, <2>6, <2>7, <2>8, <2>9, <2>10,
       <2>11, <2>12, <2>13, <2>14, <2>15, <2>16, <2>17, <2>18, <2>19,
       <2>20, <2>21, <2>22, <2>25, <2>26, <2>27, <2>28, <2>29, <2>30,
       <2>31, <2>23, <2>24 DEF Next, StartStep, ManagerStep, NetworkStep, StopStep
<1>. QED
  BY <1>1, <1>2, TypeCorrect, PTL DEF Spec

(* The client gives up in an outage of exactly MaxReconnectAttempts failed *)
(* attempts in a row, and never before its first connection                *)
(* (client.go:40-100).                                                     *)
THEOREM LimiterCorrect == Spec => []GivesUpExactlyAtLimit
BY TypeCorrect, LimiterInvariant, LimiterInvImplies, PTL

-----------------------------------------------------------------------------
(* startReady.                                                             *)

\* firstConn is cleared before startReady is closed.
ClosedOnce(s) ==
  /\ startReady[s] \/ mgrPc[s] = "wire" => ~firstConn[s]
  /\ ~(startReady[s] /\ mgrPc[s] = "wire")

CloseInv == \A s \in Starts : ClosedOnce(s)

(* No connection but the first closes startReady: the close of a closed    *)
(* channel would panic (client.go:335-340).                                *)
THEOREM ReadyClosedOnce == Spec => []NoDoubleClose
<1>1. Init => CloseInv
  BY DEF Init, CloseInv, ClosedOnce
<1>2. TypeOK /\ CloseInv /\ [Next]_vars => CloseInv'
  <2> SUFFICES ASSUME TypeOK, CloseInv, [Next]_vars PROVE CloseInv'
    OBVIOUS
  <2> USE DEF clientVars, startVars, limiterVars, networkVars, managerVars, stopVars,
          TypeOK, CloseInv, ClosedOnce
  <2>1. ASSUME NEW s \in Starts, CancelCaller(s) PROVE CloseInv'
    BY <2>1 DEF CancelCaller
  <2>2. ASSUME NEW s \in Starts, StartStep(s) PROVE CloseInv'
    BY <2>2
    DEF StartStep, StartRefused, StartAdmitted, StartConnect,
        StartConnectError, StartReady, StartAbandoned
  <2>3. ASSUME NEW s \in Starts, NetworkStep(s) PROVE CloseInv'
    BY <2>3 DEF NetworkStep, DialOK, OnConnectError, DialHangs, DialReturns, LinkLost,
                ConnectionDropped
  <2>4. ASSUME NEW s \in Starts, ManagerStep(s) PROVE CloseInv'
    <3>1. CASE GaugeUp(s)
      BY <3>1 DEF GaugeUp
    <3>2. CASE CloseStartReady(s)
      BY <3>2 DEF CloseStartReady
    <3>3. CASE DialAborted(s) \/ OnConnectionUp(s) \/ SubscribeOK(s) \/
              SubscribeError(s) \/ SetConnectedUp(s) \/ (\E p \in Publishers
              : WirePublisher(s, p)) \/ GracefulDisconnect(s) \/ SetConnectedDown(s) \/ GaugeDown(s)
      BY <3>3
      DEF DialAborted, OnConnectionUp, LimiterConnected, SubscribeOK, SubscribeError,
          SetConnectedUp, WirePublisher, GracefulDisconnect, SetConnectedDown, GaugeDown
    <3>. QED
      BY <2>4, <3>1, <3>2, <3>3 DEF ManagerStep
  <2>5. ASSUME NEW t \in Stops, StopStep(t) PROVE CloseInv'
    BY <2>5
    DEF StopStep, StopNothing, StopDisconnect, StopDisconnected,
        StopExpired, StopClear, StopRelease
  <2>6. CASE UNCHANGED vars
    BY <2>6 DEF vars
  <2>. QED
    BY <2>1, <2>2, <2>3, <2>4, <2>5, <2>6 DEF Next
<1>3. CloseInv => NoDoubleClose
  BY DEF CloseInv, ClosedOnce, NoDoubleClose
<1>. QED
  BY <1>1, <1>2, <1>3, TypeCorrect, PTL DEF Spec

-----------------------------------------------------------------------------
(* Stop.                                                                   *)

\* What Stop finds in cm is the manager of a Start that returned nil.
HoldsStarted ==
  /\ cm # None => startPc[cm] = "started"
  /\ \A t \in Stops : held[t] # None => startPc[held[t]] = "started"

\* A Stop holds a manager from the moment it calls Disconnect on it; when
\* Disconnect has returned nil the main loop has ended.
StopProgress(t) ==
  /\ stopPc[t] = "idle" => held[t] = None /\ stopResult[t] = "none"
  /\ stopPc[t] = "disconnecting" => held[t] # None /\ stopResult[t] = "none"
  /\ stopPc[t] \in {"clearing", "releasing"} =>
       held[t] # None /\ stopResult[t] \in {"nil", "expired"}
  /\ stopResult[t] = "nil" /\ held[t] # None => mgrPc[held[t]] = "done"

\* Those who may have cancelled the run context of a main loop that goes on.
CancelledBy(s) == gaveUp[s] \/ \E t \in Stops : held[t] = s /\ stopResult[t] = "expired"

RunCtxKept(s) ==
  /\ startPc[s] \in {"idle", "admitted"} => ~runCtx[s]
  /\ startPc[s] \in {"waiting", "started"} /\ mgrPc[s] # "done" /\ runCtx[s] => CancelledBy(s)

StopInv ==
  HoldsStarted /\ (\A t \in Stops : StopProgress(t)) /\ (\A s \in Starts : RunCtxKept(s))

(* A call of Stop past its first section holds a manager that was started, *)
(* and cancels its run context only at the end.                            *)
LEMMA StopInvariant == Spec => []StopInv
<1>1. Init => StopInv
  <2> SUFFICES ASSUME Init PROVE StopInv
    OBVIOUS
  <2>1. HoldsStarted /\ \A t \in Stops : StopProgress(t)
    BY DEF Init, HoldsStarted, StopProgress
  <2>2. \A s \in Starts : RunCtxKept(s)
    BY DEF Init, RunCtxKept
  <2>. QED
    BY <2>1, <2>2 DEF StopInv
<1>2. TypeOK /\ LimiterInv /\ StopInv /\ [Next]_vars => StopInv'
  <2> SUFFICES ASSUME TypeOK, LimiterInv, StopInv, [Next]_vars PROVE StopInv'
    OBVIOUS
  <2> USE ClientAssumption
  <2> USE DEF clientVars, startVars, limiterVars, networkVars, managerVars, stopVars,
          TypeOK, StopInv, HoldsStarted, StopProgress, RunCtxKept,
          CancelledBy
  <2>1. ASSUME NEW s \in Starts, CancelCaller(s) PROVE StopInv'
    BY <2>1 DEF CancelCaller
  <2>2. ASSUME NEW s \in Starts, StartStep(s) PROVE StopInv'
    <3>1. CASE StartReady(s)
      BY <3>1 DEF StartReady
    <3>2. CASE StartAbandoned(s)
      BY <3>2 DEF StartAbandoned
    <3>3. CASE StartRefused(s) \/ StartAdmitted(s) \/ StartConnect(s) \/
              StartConnectError(s)
      BY <3>3 DEF StartRefused, StartAdmitted, StartConnect, StartConnectError
    <3>. QED
      BY <2>2, <3>1, <3>2, <3>3 DEF StartStep
  <2>3. ASSUME NEW s \in Starts, NetworkStep(s) PROVE StopInv'
    <3>1. CASE OnConnectError(s)
      <4>1. \A r \in Starts : gaveUp[r] => gaveUp'[r]
        BY <3>1 DEF OnConnectError
      <4>2. \A r \in Starts : runCtx'[r] => runCtx[r] \/ gaveUp'[r]
        BY <3>1 DEF OnConnectError
      <4>3. \A r \in Starts : runCtx'[r] => runCtx[r] \/ startPc[r] \notin {"idle", "admitted"}
        BY <3>1, <4>2 DEF OnConnectError, LimiterInv, NotStarted
      <4>. QED
        BY <3>1, <4>1, <4>2, <4>3 DEF OnConnectError
    <3>2. CASE \/ DialOK(s) \/ DialHangs(s) \/ DialReturns(s)
               \/ LinkLost(s) \/ ConnectionDropped(s)
      BY <3>2 DEF DialOK, DialHangs, DialReturns, LinkLost, ConnectionDropped
    <3>. QED
      BY <2>3, <3>1, <3>2 DEF NetworkStep
  <2>4. ASSUME NEW s \in Starts, ManagerStep(s) PROVE StopInv'
    BY <2>4
    DEF ManagerStep, DialAborted, OnConnectionUp, LimiterConnected, SubscribeOK,
        SubscribeError, SetConnectedUp, GaugeUp, WirePublisher,
        CloseStartReady, GracefulDisconnect, SetConnectedDown, GaugeDown
  <2>5. ASSUME NEW t \in Stops, StopStep(t) PROVE StopInv'
    <3>1. CASE StopDisconnect(t)
      BY <3>1 DEF StopDisconnect
    <3>2. CASE StopDisconnected(t)
      BY <3>2 DEF StopDisconnected
    <3>3. CASE StopExpired(t)
      BY <3>3 DEF StopExpired
    <3>4. CASE StopRelease(t)
      BY <3>4 DEF StopRelease
    <3>5. CASE StopNothing(t) \/ StopClear(t)
      BY <3>5 DEF StopNothing, StopClear
    <3>. QED
      BY <2>5, <3>1, <3>2, <3>3, <3>4, <3>5 DEF StopStep
  <2>6. CASE UNCHANGED vars
    BY <2>6 DEF vars
  <2>. QED
    BY <2>1, <2>2, <2>3, <2>4, <2>5, <2>6 DEF Next
<1>. QED
  BY <1>1, <1>2, TypeCorrect, LimiterInvariant, PTL DEF Spec

(* Nobody cancels the run context while a Stop waits for its DISCONNECT to *)
(* be sent, but the limiter or another Stop whose own context ran out      *)
(* (client.go:224-229).                                                    *)
THEOREM DisconnectIsClean == Spec => []DisconnectNotUndercut
<1>1. TypeOK /\ StopInv => DisconnectNotUndercut
  BY DEF TypeOK, StopInv, HoldsStarted, StopProgress, RunCtxKept, CancelledBy,
         DisconnectNotUndercut
<1>. QED
  BY <1>1, TypeCorrect, StopInvariant, PTL

-----------------------------------------------------------------------------
(* connected, when the host calls Start once.                              *)

OneStart == \A r, s \in Starts : r = s

\* connected is set by OnConnectionUp and cleared before the loop dials again.
ConnectedUp ==
  connected => \A s \in Starts : mgrPc[s] \in {"gaugeUp", "wire", "online", "down", "done"}

\* Once Stop has cleared connected for a main loop that has ended it stays clear.
ClearedForGood ==
  \A t \in Stops :
    stopPc[t] \in {"releasing", "returned"} /\ stopResult[t] = "nil" /\ held[t] # None =>
      ~connected

ConnectedInv == ConnectedUp /\ ClearedForGood

(* With one call of Start, connected follows the callbacks of its manager, *)
(* and nothing sets it once a Stop has ended the main loop.                *)
LEMMA ConnectedInvariant == ASSUME OneStart PROVE Spec => [](LimiterInv /\ StopInv /\ ConnectedInv)
<1>1. Init => ConnectedInv
  BY DEF Init, ConnectedInv, ConnectedUp, ClearedForGood
<1>2. TypeOK /\ LimiterInv /\ StopInv /\ ConnectedInv /\ [Next]_vars => ConnectedInv'
  <2> SUFFICES ASSUME TypeOK, LimiterInv, StopInv, ConnectedInv, [Next]_vars
               PROVE  ConnectedInv'
    OBVIOUS
  <2> USE ClientAssumption
  <2> USE DEF clientVars, startVars, limiterVars, networkVars, managerVars, stopVars,
          TypeOK, LimiterInv, NotStarted, StopInv, StopProgress,
          OneStart, ConnectedInv, ConnectedUp, ClearedForGood
  <2>1. ASSUME NEW s \in Starts, CancelCaller(s) PROVE ConnectedInv'
    BY <2>1 DEF CancelCaller
  <2>2. ASSUME NEW s \in Starts, StartStep(s) PROVE ConnectedInv'
    <3>1. CASE StartConnect(s)
      BY <3>1 DEF StartConnect
    <3>2. CASE StartRefused(s) \/ StartAdmitted(s) \/ StartConnectError(s) \/
              StartReady(s) \/ StartAbandoned(s)
      BY <3>2
      DEF StartRefused, StartAdmitted, StartConnectError, StartReady,
          StartAbandoned
    <3>. QED
      BY <2>2, <3>1, <3>2 DEF StartStep
  <2>3. ASSUME NEW s \in Starts, NetworkStep(s) PROVE ConnectedInv'
    BY <2>3 DEF NetworkStep, DialOK, OnConnectError, DialHangs, DialReturns, LinkLost,
                ConnectionDropped
  <2>4. ASSUME NEW s \in Starts, ManagerStep(s) PROVE ConnectedInv'
    <3>1. CASE SetConnectedUp(s)
      BY <3>1 DEF SetConnectedUp
    <3>2. CASE DialAborted(s) \/ OnConnectionUp(s) \/ SubscribeOK(s) \/
              SubscribeError(s) \/ GaugeUp(s) \/ (\E p \in Publishers :
              WirePublisher(s, p)) \/ CloseStartReady(s) \/ GracefulDisconnect(s) \/
              SetConnectedDown(s) \/ GaugeDown(s)
      BY <3>2
      DEF DialAborted, OnConnectionUp, LimiterConnected, SubscribeOK, SubscribeError,
          GaugeUp, WirePublisher, CloseStartReady, GracefulDisconnect, SetConnectedDown, GaugeDown
    <3>. QED
      BY <2>4, <3>1, <3>2 DEF ManagerStep
  <2>5. ASSUME NEW t \in Stops, StopStep(t) PROVE ConnectedInv'
    <3>1. CASE StopDisconnected(t)
      BY <3>1 DEF StopDisconnected
    <3>2. CASE StopClear(t)
      BY <3>2 DEF StopClear
    <3>3. CASE StopNothing(t) \/ StopDisconnect(t) \/ StopExpired(t) \/
              StopRelease(t)
      BY <3>3 DEF StopNothing, StopDisconnect, StopExpired, StopRelease
    <3>. QED
      BY <2>5, <3>1, <3>2, <3>3 DEF StopStep
  <2>6. CASE UNCHANGED vars
    BY <2>6 DEF vars
  <2>. QED
    BY <2>1, <2>2, <2>3, <2>4, <2>5, <2>6 DEF Next
<1>. QED
  BY <1>1, <1>2, TypeCorrect, LimiterInvariant, StopInvariant, PTL DEF Spec

(* IsConnected answers false during an outage (client.go:144-147).         *)
THEOREM OutageIsReported == ASSUME OneStart PROVE Spec => []OutageReported
<1>1. ConnectedInv => OutageReported
  BY DEF ConnectedInv, ConnectedUp, OutageReported
<1>. QED
  BY <1>1, ConnectedInvariant, PTL

(* A Stop that returned nil has ended the main loop, and the client never  *)
(* reports itself connected again (client.go:235-241).                     *)
THEOREM StopFinal == ASSUME OneStart PROVE Spec => []StopIsFinal
<1>1. StopInv /\ ConnectedInv => StopIsFinal
  BY DEF StopInv, StopProgress, ConnectedInv, ClearedForGood, StopIsFinal
<1>. QED
  BY <1>1, ConnectedInvariant, PTL
-----------------------------------------------------------------------------
(* Shutting down *)

\* A main loop comes nearer when its next stage is a later one.
LEMMA LaterNears ==
  ASSUME NEW s \in Starts, TypeOK, TypeOK',
         StepsFrom[mgrPc'[s]] < StepsFrom[mgrPc[s]],
         Unwired(s)' \subseteq Unwired(s)
  PROVE  Nears(s)
<1>1. IsFiniteSet(Unwired(s)) /\ Unwired(s)' \subseteq Unwired(s)
  <2>1. Unwired(s) \subseteq Publishers
    BY DEF Unwired
  <2>. QED
    BY <2>1, ClientAssumption, FS_Subset
<1>2. /\ Cardinality(Unwired(s)) \in Nat /\ Cardinality(Unwired(s)') \in Nat
      /\ Cardinality(Unwired(s)') <= Cardinality(Unwired(s))
  BY <1>1, FS_Subset, FS_CardinalityType
<1>3. StepsFrom[mgrPc[s]] \in Nat /\ StepsFrom[mgrPc'[s]] \in Nat
  BY DEF TypeOK, MgrPcs, StepsFrom
<1>4. StepsLeft(s)' < StepsLeft(s)
  <2>. HIDE DEF Unwired, StepsFrom
  <2>1. PICK a, b, c, d : /\ a = StepsFrom[mgrPc[s]] /\ b = StepsFrom[mgrPc'[s]]
                          /\ c = Cardinality(Unwired(s)) /\ d = Cardinality(Unwired(s)')
    OBVIOUS
  <2>2. b + d < a + c
    BY <1>2, <1>3, <2>1
  <2>3. StepsLeft(s) = a + c /\ StepsLeft(s)' = b + d
    BY <2>1 DEF StepsLeft, StepsFrom
  <2>. QED
    BY <2>2, <2>3
<1>. QED
  BY <1>4 DEF Nears

\* It comes nearer with each publisher it wires.
LEMMA WireNears ==
  ASSUME NEW s \in Starts, NEW p \in Publishers, TypeOK, WirePublisher(s, p)
  PROVE  Nears(s)
<1>1. /\ mgrPc[s] = "wire" /\ mgrPc'[s] = "wire"
      /\ p \notin wired[s] /\ wired'[s] = wired[s] \cup {p}
  BY DEF WirePublisher, managerVars, TypeOK
<1>2. /\ Unwired(s) = Publishers \ wired[s] /\ p \in Unwired(s)
      /\ Unwired(s)' = Unwired(s) \ {p}
  BY <1>1 DEF Unwired
<1>3. IsFiniteSet(Unwired(s))
  BY <1>2, ClientAssumption, FS_Subset
<1>4. /\ Cardinality(Unwired(s)) \in Nat
      /\ Cardinality(Unwired(s)') = Cardinality(Unwired(s)) - 1
  BY <1>2, <1>3, FS_RemoveElement, FS_CardinalityType
<1>5. StepsLeft(s)' < StepsLeft(s)
  BY <1>1, <1>4 DEF StepsLeft, StepsFrom
<1>. QED
  BY <1>5 DEF Nears

(* Whatever runs beside it, a main loop that has been cancelled ends after *)
(* nine steps of its own and one for each publisher at most, and nothing   *)
(* revives it (client.go:174-180, 235-241).                                *)
THEOREM ShutdownAlwaysNears == Spec => ShutdownNears
<1>1. ASSUME TypeOK, TypeOK', LimiterInv, Next, NEW s \in Starts, Cancelled(s)
      PROVE  Cancelled(s)' /\ Nears(s)
  <2> USE DEF clientVars, startVars, limiterVars, networkVars, managerVars, stopVars
  <2>1. Cancelled(s)'
    <3>. USE <1>1 DEF Cancelled, RunCancelled, TypeOK
    <3>1. ASSUME NEW r \in Starts, CancelCaller(r) \/ StartStep(r) PROVE Cancelled(s)'
      BY <3>1 DEF CancelCaller, StartStep, StartRefused, StartAdmitted, StartConnect,
                  StartConnectError, StartReady, StartAbandoned
    <3>2. ASSUME NEW r \in Starts, ManagerStep(r) PROVE Cancelled(s)'
      BY <3>2 DEF ManagerStep, DialAborted, OnConnectionUp, SubscribeOK, SubscribeError,
                  SetConnectedUp, GaugeUp, WirePublisher, CloseStartReady, GracefulDisconnect,
                  SetConnectedDown, GaugeDown
    <3>3. ASSUME NEW r \in Starts, NetworkStep(r) PROVE Cancelled(s)'
      BY <3>3 DEF NetworkStep, DialOK, OnConnectError, DialHangs, DialReturns, LinkLost,
                  ConnectionDropped
    <3>4. ASSUME NEW t \in Stops, StopStep(t) PROVE Cancelled(s)'
      BY <3>4 DEF StopStep, StopNothing, StopDisconnect, StopDisconnected, StopExpired,
                  StopClear, StopRelease
    <3>. QED
      BY <3>1, <3>2, <3>3, <3>4 DEF Next
  <2>2. Nears(s)
    <3>. USE <1>1
    <3>1. ASSUME NEW r \in Starts,
                 \/ CancelCaller(r) \/ StartRefused(r) \/ StartAdmitted(r)
                 \/ StartConnectError(r) \/ StartReady(r) \/ StartAbandoned(r)
                 \/ OnConnectError(r) \/ LinkLost(r)
          PROVE  UNCHANGED <<mgrPc[s], wired[s]>>
      BY <3>1 DEF CancelCaller, StartRefused, StartAdmitted, StartConnectError, StartReady,
                  StartAbandoned, OnConnectError, LinkLost
    <3>2. ASSUME NEW t \in Stops, StopStep(t) PROVE UNCHANGED <<mgrPc[s], wired[s]>>
      BY <3>2 DEF StopStep, StopNothing, StopDisconnect, StopDisconnected, StopExpired,
                  StopClear, StopRelease
    <3>3. ASSUME NEW r \in Starts \ {s}, ManagerStep(r) \/ NetworkStep(r) \/ StartConnect(r)
          PROVE  UNCHANGED <<mgrPc[s], wired[s]>>
      BY <3>3 DEF TypeOK, StartConnect, ManagerStep, DialAborted, OnConnectionUp, SubscribeOK,
                  SubscribeError, SetConnectedUp, GaugeUp, WirePublisher, CloseStartReady,
                  GracefulDisconnect, SetConnectedDown, GaugeDown, NetworkStep, DialOK,
                  OnConnectError, DialHangs, DialReturns, LinkLost, ConnectionDropped
    <3>4. ~DialOK(s) /\ ~DialHangs(s)
      BY DEF DialOK, DialHangs
    <3>5. ASSUME NEW p \in Publishers, WirePublisher(s, p) PROVE Nears(s)
      BY <3>5, WireNears
    <3>6. CASE \/ StartConnect(s) \/ DialAborted(s) \/ DialReturns(s) \/ OnConnectionUp(s)
               \/ SubscribeOK(s) \/ SubscribeError(s) \/ SetConnectedUp(s) \/ GaugeUp(s)
               \/ CloseStartReady(s) \/ ConnectionDropped(s) \/ GracefulDisconnect(s)
               \/ SetConnectedDown(s) \/ GaugeDown(s)
      <4>1. StepsFrom[mgrPc'[s]] < StepsFrom[mgrPc[s]]
        BY <3>6 DEF StartConnect, DialAborted, DialReturns, OnConnectionUp, SubscribeOK,
             SubscribeError, SetConnectedUp, GaugeUp, CloseStartReady, ConnectionDropped,
             GracefulDisconnect, SetConnectedDown, GaugeDown, StepsFrom, TypeOK, MgrPcs,
             LimiterInv, NotStarted
      <4>2. Unwired(s)' \subseteq Unwired(s)
        BY <3>6 DEF StartConnect, DialAborted, DialReturns, OnConnectionUp, SubscribeOK,
             SubscribeError, SetConnectedUp, GaugeUp, CloseStartReady, ConnectionDropped,
             GracefulDisconnect, SetConnectedDown, GaugeDown, Unwired, TypeOK
      <4>. QED
        BY <4>1, <4>2, LaterNears
    <3>7. UNCHANGED <<mgrPc[s], wired[s]>> => Nears(s)
      BY DEF Nears
    <3>. QED
      BY <3>1, <3>2, <3>3, <3>4, <3>5, <3>6, <3>7 DEF Next, StartStep, ManagerStep, NetworkStep
  <2>. QED
    BY <2>1, <2>2
<1>2. /\ TypeOK /\ TypeOK' /\ LimiterInv /\ [Next]_vars
      => [\A s \in Starts : Cancelled(s) => Cancelled(s)' /\ Nears(s)]_vars
  BY <1>1
<1>. QED
  BY <1>2, TypeCorrect, LimiterInvariant, PTL DEF Spec, ShutdownNears
(* Once the limiter has given up, the main loop is one step from its end   *)
(* at most, and by ShutdownAlwaysNears it dials no more (config.go:68-70). *)
THEOREM GivingUpEnds ==
  Spec => [](\A s \in Starts : gaveUp[s] => Cancelled(s) /\ StepsLeft(s) <= 1)
<1>1. ASSUME LimiterInv, NEW s \in Starts, gaveUp[s]
      PROVE  Cancelled(s) /\ StepsLeft(s) <= 1
  <2>1. runCtx[s] /\ mgrPc[s] \in {"dialing", "done"}
    BY <1>1 DEF LimiterInv, BelowLimit
  <2>2. Cardinality(Unwired(s)) = 0
    BY <2>1, FS_EmptySet DEF Unwired
  <2>. QED
    BY <2>1, <2>2 DEF Cancelled, RunCancelled, StepsLeft, StepsFrom
<1>2. LimiterInv => \A s \in Starts : gaveUp[s] => Cancelled(s) /\ StepsLeft(s) <= 1
  BY <1>1
<1>. QED
  BY <1>2, LimiterInvariant, PTL
=============================================================================

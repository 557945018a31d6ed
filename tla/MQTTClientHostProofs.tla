------------------------- MODULE MQTTClientHostProofs -------------------------
(* What the host of a client that is started once is promised: publishers  *)
(* are wired when Start returns, and the client implements ClientStatus.   *)
EXTENDS MQTTClientProofs

UpPcs == {"up", "subscribe", "setUp", "gaugeUp", "wire", "online", "down", "gaugeDown"}

\* Where Start and the main loop can be relative to each other.
Paired(s) ==
  /\ mgrPc[s] = "none" => ~everUp[s]
  /\ mgrPc[s] \in UpPcs \/ startReady[s] => everUp[s]
  /\ startPc[s] = "started" => startReady[s]

\* The callback wires every publisher before it closes startReady, and no other
\* callback ever wires them.
WiredBy(s) ==
  /\ mgrPc[s] = "wire" => \A p \in wired[s] : publishFunc[p] = s
  /\ startReady[s] => \A p \in Publishers : publishFunc[p] = s

HostInv == \A s \in Starts : Paired(s) /\ WiredBy(s)

(* Start answers nil only after a connection that wired every publisher.   *)
LEMMA HostInvariant == ASSUME OneStart PROVE Spec => []HostInv
<1>1. Init => HostInv
  BY DEF Init, HostInv, Paired, WiredBy, UpPcs
<1>2. TypeOK /\ LimiterInv /\ HostInv /\ [Next]_vars => HostInv'
  <2> SUFFICES ASSUME TypeOK, LimiterInv, HostInv, [Next]_vars PROVE HostInv'
    OBVIOUS
  <2> USE ClientAssumption
  <2> USE DEF clientVars, startVars, limiterVars, networkVars, managerVars, stopVars,
          TypeOK, LimiterInv, NotStarted, HostInv, Paired, WiredBy, UpPcs, OneStart
  <2>1. ASSUME NEW s \in Starts, CancelCaller(s) PROVE HostInv'
    BY <2>1 DEF CancelCaller
  <2>2. ASSUME NEW s \in Starts, StartStep(s) PROVE HostInv'
    <3>1. CASE StartConnect(s)
      BY <3>1 DEF StartConnect
    <3>2. CASE StartReady(s)
      BY <3>2 DEF StartReady
    <3>3. CASE StartRefused(s) \/ StartAdmitted(s) \/ StartConnectError(s) \/ StartAbandoned(s)
      BY <3>3 DEF StartRefused, StartAdmitted, StartConnectError, StartAbandoned
    <3>. QED
      BY <2>2, <3>1, <3>2, <3>3 DEF StartStep
  <2>3. ASSUME NEW s \in Starts, NetworkStep(s) PROVE HostInv'
    BY <2>3 DEF NetworkStep, DialOK, OnConnectError, DialHangs, DialReturns, LinkLost,
                ConnectionDropped
  <2>4. ASSUME NEW s \in Starts, ManagerStep(s) PROVE HostInv'
    <3>1. ASSUME NEW p \in Publishers, WirePublisher(s, p) PROVE HostInv'
      BY <3>1 DEF WirePublisher
    <3>2. CASE GaugeUp(s)
      BY <3>2 DEF GaugeUp
    <3>3. CASE CloseStartReady(s)
      BY <3>3 DEF CloseStartReady
    <3>4. CASE \/ DialAborted(s) \/ OnConnectionUp(s) \/ SubscribeOK(s) \/ SubscribeError(s)
               \/ SetConnectedUp(s) \/ GracefulDisconnect(s) \/ SetConnectedDown(s)
               \/ GaugeDown(s)
      BY <3>4 DEF DialAborted, OnConnectionUp, LimiterConnected, SubscribeOK,
                  SubscribeError, SetConnectedUp, GracefulDisconnect, SetConnectedDown,
                  GaugeDown
    <3>. QED
      BY <2>4, <3>1, <3>2, <3>3, <3>4 DEF ManagerStep
  <2>5. ASSUME NEW t \in Stops, StopStep(t) PROVE HostInv'
    BY <2>5 DEF StopStep, StopNothing, StopDisconnect, StopDisconnected, StopExpired,
                StopClear, StopRelease
  <2>6. CASE UNCHANGED vars
    BY <2>6 DEF vars
  <2>. QED
    BY <2>1, <2>2, <2>3, <2>4, <2>5, <2>6 DEF Next
<1>. QED
  BY <1>1, <1>2, TypeCorrect, LimiterInvariant, PTL DEF Spec

(* When a client that is started once has started, every publisher         *)
(* publishes through its manager (doc.go:19), whatever happened to the     *)
(* connection meanwhile.                                                   *)
THEOREM WiredOnStart == ASSUME OneStart PROVE Spec => []StartedWired
<1>1. HostInv => StartedWired
  BY DEF HostInv, Paired, WiredBy, StartedWired
<1>. QED
  BY <1>1, HostInvariant, PTL

-----------------------------------------------------------------------------
(* The refinement.                                                         *)

StatusInv == TypeOK /\ LimiterInv /\ StopInv /\ ConnectedInv /\ HostInv

(* The call of Start a client with one has.                                *)
LEMMA TheOne == ASSUME OneStart, Starts # {}
                PROVE  TheStart \in Starts /\ \A s \in Starts : s = TheStart
BY DEF OneStart, TheStart

(* A client that was not started shows the host a session yet to come.     *)
LEMMA HostInit == ASSUME OneStart, Starts # {} PROVE Init => Host!Init
<1> SUFFICES ASSUME Init PROVE Host!Init
  OBVIOUS
<1>1. TheStart \in Starts
  BY TheOne
<1>2. SessionOf(TheStart) = "none" /\ AnswerOf(TheStart) = "pending" /\ ~everUp[TheStart]
  BY <1>1 DEF Init, SessionOf, AnswerOf
<1>3. StoppedBy = {}
  BY DEF Init, StoppedBy
<1>. QED
  BY <1>1, <1>2, <1>3 DEF Host!Init, Init

(* Every step of the client is a step of the session the host sees, or     *)
(* none.                                                                   *)
LEMMA HostStep ==
  ASSUME OneStart, Starts # {}, StatusInv, StatusInv', [Next]_vars
  PROVE  [Host!Next]_Host!vars
<1>0. TheStart \in Starts /\ \A s \in Starts : s = TheStart
  BY TheOne
<1> USE <1>0
<1> USE DEF clientVars, startVars, limiterVars, networkVars, managerVars, stopVars, StatusInv,
        TypeOK, SessionOf, AnswerOf, StoppedBy, Host!vars
<1>1. ASSUME NEW s \in Starts, CancelCaller(s) PROVE UNCHANGED Host!vars
  BY <1>1 DEF CancelCaller
<1>2. ASSUME NEW s \in Starts, StartRefused(s) PROVE FALSE
  BY <1>2 DEF StartRefused, StopInv, HoldsStarted
<1>3. ASSUME NEW s \in Starts, StartAdmitted(s) PROVE UNCHANGED Host!vars
  BY <1>3 DEF StartAdmitted
<1>4. ASSUME NEW s \in Starts, StartConnect(s) PROVE Host!Open
  BY <1>4 DEF StartConnect, Host!Open, LimiterInv, NotStarted
<1>5. ASSUME NEW s \in Starts, StartConnectError(s) PROVE Host!Failed
  BY <1>5 DEF StartConnectError, Host!Failed
<1>6. ASSUME NEW s \in Starts, StartAbandoned(s) PROVE Host!Failed
  BY <1>6 DEF StartAbandoned, Host!Failed
<1>7. ASSUME NEW s \in Starts, StartReady(s) PROVE Host!Started
  BY <1>7 DEF StartReady, Host!Started, HostInv, Paired
<1>8. ASSUME NEW s \in Starts, DialAborted(s) PROVE Host!End
  BY <1>8 DEF DialAborted, Host!End
<1>9. ASSUME NEW s \in Starts, OnConnectionUp(s) PROVE UNCHANGED Host!vars
  BY <1>9 DEF OnConnectionUp, LimiterConnected
<1>10. ASSUME NEW s \in Starts, SubscribeOK(s) PROVE UNCHANGED Host!vars
  BY <1>10 DEF SubscribeOK
<1>11. ASSUME NEW s \in Starts, SubscribeError(s) PROVE UNCHANGED Host!vars
  BY <1>11 DEF SubscribeError
<1>12. ASSUME NEW s \in Starts, SetConnectedUp(s) PROVE Host!Report
  BY <1>12 DEF SetConnectedUp, Host!Report
<1>13. ASSUME NEW s \in Starts, GaugeUp(s) PROVE UNCHANGED Host!vars
  BY <1>13 DEF GaugeUp
<1>14. ASSUME NEW s \in Starts, NEW p \in Publishers, WirePublisher(s, p) PROVE UNCHANGED Host!vars
  BY <1>14 DEF WirePublisher
<1>15. ASSUME NEW s \in Starts, CloseStartReady(s) PROVE UNCHANGED Host!vars
  BY <1>15 DEF CloseStartReady
<1>16. ASSUME NEW s \in Starts, GracefulDisconnect(s) PROVE Host!End
  BY <1>16 DEF GracefulDisconnect, Host!End
<1>17. ASSUME NEW s \in Starts, SetConnectedDown(s) PROVE Host!Retract
  BY <1>17 DEF SetConnectedDown, Host!Retract
<1>18. ASSUME NEW s \in Starts, GaugeDown(s) PROVE Host!Lose
  BY <1>18 DEF GaugeDown, Host!Lose, ConnectedInv, ConnectedUp, HostInv, Paired, UpPcs
<1>19. ASSUME NEW s \in Starts, DialOK(s) PROVE Host!Connect
  BY <1>19 DEF DialOK, Host!Connect
<1>20. ASSUME NEW s \in Starts, OnConnectError(s) PROVE UNCHANGED Host!vars
  BY <1>20 DEF OnConnectError
<1>21. ASSUME NEW s \in Starts, DialHangs(s) PROVE UNCHANGED Host!vars
  BY <1>21 DEF DialHangs
<1>22. ASSUME NEW s \in Starts, DialReturns(s) PROVE UNCHANGED Host!vars
  BY <1>22 DEF DialReturns
<1>23. ASSUME NEW s \in Starts, LinkLost(s) PROVE UNCHANGED Host!vars
  BY <1>23 DEF LinkLost
<1>24. ASSUME NEW s \in Starts, ConnectionDropped(s) PROVE UNCHANGED Host!vars
  BY <1>24 DEF ConnectionDropped
<1>25. ASSUME NEW t \in Stops, StopNothing(t) PROVE UNCHANGED Host!vars
  BY <1>25 DEF StopNothing, StopInv, StopProgress
<1>26. ASSUME NEW t \in Stops, StopDisconnect(t) PROVE UNCHANGED Host!vars
  BY <1>26 DEF StopDisconnect, StopInv, StopProgress
<1>27. ASSUME NEW t \in Stops, StopDisconnected(t) PROVE UNCHANGED Host!vars
  BY <1>27 DEF StopDisconnected
<1>28. ASSUME NEW t \in Stops, StopExpired(t) PROVE UNCHANGED Host!vars
  BY <1>28 DEF StopExpired
<1>29. ASSUME NEW t \in Stops, StopClear(t) PROVE Host!Retract
  BY <1>29 DEF StopClear, Host!Retract
<1>30. ASSUME NEW t \in Stops, StopRelease(t) PROVE UNCHANGED Host!vars \/ Host!Stopped(t)
  BY <1>30 DEF StopRelease, Host!Stopped, StopInv, StopProgress, HoldsStarted, ConnectedInv, ClearedForGood
<1>31. CASE UNCHANGED vars
  BY <1>31 DEF vars
<1>. QED
  BY <1>1, <1>2, <1>3, <1>4, <1>5, <1>6, <1>7, <1>8, <1>9, <1>10, <1>11, <1>12, <1>13,
     <1>14, <1>15, <1>16, <1>17, <1>18, <1>19, <1>20, <1>21, <1>22, <1>23, <1>24, <1>25,
     <1>26, <1>27, <1>28, <1>29, <1>30, <1>31
  DEF Next, StartStep, ManagerStep, NetworkStep, StopStep, Host!Next

(* Start, IsConnected and Stop answer as the one session with the broker   *)
(* goes, whatever runs between them (doc.go:18-28, client.go:136-147).     *)
THEOREM ImplementsStatus == ASSUME OneStart, Starts # {} PROVE Spec => HostView
<1>1. Init => Host!Init
  BY HostInit
<1>2. StatusInv /\ StatusInv' /\ [Next]_vars => [Host!Next]_Host!vars
  BY HostStep
<1>. QED
  BY <1>1, <1>2, TypeCorrect, LimiterInvariant, StopInvariant, ConnectedInvariant,
     HostInvariant, PTL DEF Spec, HostView, Host!Spec, StatusInv
=============================================================================

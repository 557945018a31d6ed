-------------------------- MODULE ClientRouterProofs --------------------------
(* The composition behaves as each of its parts: its steps are steps of    *)
(* the client, and it drives the router as SubscriberRouter relies on.     *)
EXTENDS ClientRouter, MQTTClientHostProofs

(* The router takes nothing away from the client's own rules: every        *)
(* safety theorem about MQTTClient holds of the composition.               *)
THEOREM CompositionIsClient == CompositionSpec => Spec
<1>1. CompositionInit => Init
  BY DEF CompositionInit
<1>2. [CompositionNext]_allVars => [Next]_vars
  <2> SUFFICES ASSUME [CompositionNext]_allVars PROVE Next \/ UNCHANGED vars
    OBVIOUS
  <2> USE DEF Next, StartStep, ManagerStep, NetworkStep
  <2>1. ASSUME NEW s \in Starts,
               \/ CallStep(s) \/ Connecting(s) \/ LoopStep(s) \/ DialStep(s) \/ Dropped(s)
               \/ \E x \in Recipients : BuildRouter(s, x)
               \/ \E pb \in R!Packets : RoutePacket(s, pb)
        PROVE  Next \/ UNCHANGED vars
    <3>1. CASE CallStep(s)
      BY <3>1 DEF CallStep
    <3>2. CASE Connecting(s)
      BY <3>2 DEF Connecting
    <3>3. CASE LoopStep(s)
      BY <3>3 DEF LoopStep, ConnectionUp, ConnectionDown
    <3>4. CASE DialStep(s)
      BY <3>4 DEF DialStep, Connected
    <3>5. CASE Dropped(s)
      BY <3>5 DEF Dropped
    <3>6. CASE \E x \in Recipients : BuildRouter(s, x)
      BY <3>6 DEF BuildRouter
    <3>7. CASE \E pb \in R!Packets : RoutePacket(s, pb)
      BY <3>7 DEF RoutePacket
    <3>. QED
      BY <2>1, <3>1, <3>2, <3>3, <3>4, <3>5, <3>6, <3>7
  <2>2. CASE RouteStep
    BY <2>2 DEF RouteStep
  <2>3. CASE \E t \in Stops : StopStep(t)
    BY <2>3
  <2>4. CASE UNCHANGED allVars
    BY <2>4 DEF allVars
  <2>. QED
    BY <2>1, <2>2, <2>3, <2>4 DEF CompositionNext
<1>. QED
  BY <1>1, <1>2, PTL DEF CompositionSpec, Spec

-----------------------------------------------------------------------------
\* The gauge is up from OnConnectionUp to OnConnectionDown, and no Route is in
\* progress when OnConnectionDown begins.
Driven(s) ==
  /\ gauge => mgrPc[s] \in {"wire", "online", "down", "gaugeDown", "done"}
  /\ mgrPc[s] \in {"wire", "online", "down", "gaugeDown"} => gauge
  /\ mgrPc[s] = "down" => routePc = "idle"

(* OnConnectionDown waits for the workers, and the gauge for OnConnectionUp.   *)
LEMMA DrivenInvariant == CompositionSpec => [](TypeOK /\ LimiterInv /\ Driven(TheStart))
<1>0. TheStart \in Starts /\ \A s \in Starts : s = TheStart
  BY CompositionAssumption DEF TheStart
<1> USE <1>0
<1>1. CompositionInit => Driven(TheStart)
  BY DEF CompositionInit, Init, Driven
<1>2. TypeOK /\ LimiterInv /\ Driven(TheStart) /\ [CompositionNext]_allVars => Driven(TheStart)'
  <2> SUFFICES ASSUME TypeOK, LimiterInv, Driven(TheStart), [CompositionNext]_allVars
               PROVE  Driven(TheStart)'
    OBVIOUS
  <2> USE DEF clientVars, startVars, limiterVars, networkVars, managerVars, stopVars, routerVars,
          TypeOK, LimiterInv, NotStarted, Driven
  <2>1. ASSUME NEW s \in Starts, CallStep(s) PROVE Driven(TheStart)'
    BY <2>1 DEF CallStep, CancelCaller, StartRefused, StartAdmitted, StartReady, StartAbandoned,
                LinkLost
  <2>2. ASSUME NEW s \in Starts, Connecting(s) PROVE Driven(TheStart)'
    BY <2>2 DEF Connecting, StartConnect, StartConnectError
  <2>3. ASSUME NEW s \in Starts, LoopStep(s) PROVE Driven(TheStart)'
    BY <2>3 DEF LoopStep, ConnectionUp, ConnectionDown, DialAborted, OnConnectionUp,
                LimiterConnected, SubscribeOK, SubscribeError, SetConnectedUp, GaugeUp,
                WirePublisher, CloseStartReady, GracefulDisconnect, SetConnectedDown, GaugeDown
  <2>4. ASSUME NEW s \in Starts, DialStep(s) PROVE Driven(TheStart)'
    BY <2>4 DEF DialStep, Connected, DialOK, OnConnectError, DialHangs, DialReturns
  <2>5. ASSUME NEW s \in Starts, Dropped(s) PROVE Driven(TheStart)'
    BY <2>5 DEF Dropped, ConnectionDropped
  <2>6. ASSUME NEW s \in Starts, NEW x \in Recipients, BuildRouter(s, x) PROVE Driven(TheStart)'
    BY <2>6 DEF BuildRouter, vars, R!AddRecipient, R!routing
  <2>7. ASSUME NEW s \in Starts, NEW pb \in R!Packets, RoutePacket(s, pb)
        PROVE  Driven(TheStart)'
    BY <2>7 DEF RoutePacket, ServingPcs, vars
  <2>8. ASSUME RouteStep PROVE Driven(TheStart)'
    BY <2>8 DEF RouteStep, vars, R!RouteResolve, R!RouteDispatch, R!RouteReturn
  <2>9. ASSUME NEW t \in Stops, StopStep(t), UNCHANGED routerVars PROVE Driven(TheStart)'
    BY <2>9 DEF StopStep, StopNothing, StopDisconnect, StopDisconnected, StopExpired, StopClear,
                StopRelease
  <2>10. CASE UNCHANGED allVars
    BY <2>10 DEF allVars, vars
  <2>. QED
    BY <2>1, <2>2, <2>3, <2>4, <2>5, <2>6, <2>7, <2>8, <2>9, <2>10 DEF CompositionNext
<1>. QED
  BY <1>1, <1>2, CompositionIsClient, TypeCorrect, LimiterInvariant, PTL DEF CompositionSpec

(* The aliases are forgotten between any two connections, and never under  *)
(* a Route in progress but at the head of OnConnectionUp (client.go:304,   *)
(* 344): the router is driven as it relies on.                             *)
THEOREM DrivesRouter == CompositionSpec => RouterSpec
<1>0. TheStart \in Starts /\ \A s \in Starts : s = TheStart
  BY CompositionAssumption DEF TheStart
<1> USE <1>0
<1>1. CompositionInit => R!Init
  BY DEF CompositionInit
<1>2. /\ TypeOK /\ LimiterInv /\ Driven(TheStart)
      /\ [CompositionNext]_allVars
      => [R!Next]_R!vars
  <2> SUFFICES ASSUME TypeOK, LimiterInv, Driven(TheStart), [CompositionNext]_allVars
               PROVE  R!Next \/ UNCHANGED R!vars
    OBVIOUS
  <2> USE DEF clientVars, startVars, limiterVars, networkVars, managerVars, stopVars, routerVars,
          TypeOK, LimiterInv, NotStarted, Driven, PhaseOf, ServingPcs, R!vars, R!registry,
          R!routing
  <2>1. ASSUME NEW s \in Starts, CallStep(s) PROVE UNCHANGED R!vars
    BY <2>1 DEF CallStep, CancelCaller, StartRefused, StartAdmitted, StartReady, StartAbandoned,
                LinkLost
  <2>2. ASSUME NEW s \in Starts, Connecting(s) PROVE UNCHANGED R!vars
    BY <2>2 DEF Connecting, StartConnect, StartConnectError
  <2>3. ASSUME NEW s \in Starts, ConnectionUp(s) PROVE R!ResetAliasesUp
    BY <2>3 DEF ConnectionUp, OnConnectionUp, R!ResetAliasesUp, R!resetAliases
  <2>4. ASSUME NEW s \in Starts, ConnectionDown(s) PROVE R!ResetAliasesDown
    BY <2>4 DEF ConnectionDown, SetConnectedDown, R!ResetAliasesDown, R!resetAliases
  <2>5. ASSUME NEW s \in Starts, LoopStep(s), ~ConnectionUp(s), ~ConnectionDown(s)
        PROVE  UNCHANGED R!vars
    <3>1. CASE DialAborted(s)
      BY <2>5, <3>1 DEF LoopStep, DialAborted
    <3>2. CASE GaugeUp(s)
      BY <2>5, <3>2 DEF LoopStep, GaugeUp
    <3>3. CASE GracefulDisconnect(s)
      BY <2>5, <3>3 DEF LoopStep, GracefulDisconnect
    <3>4. CASE SubscribeOK(s) \/ SubscribeError(s) \/ SetConnectedUp(s) \/ CloseStartReady(s)
      BY <2>5, <3>4 DEF LoopStep, SubscribeOK, SubscribeError, SetConnectedUp, CloseStartReady
    <3>5. CASE \E p \in Publishers : WirePublisher(s, p)
      BY <2>5, <3>5 DEF LoopStep, WirePublisher
    <3>6. CASE GaugeDown(s)
      BY <2>5, <3>6 DEF LoopStep, GaugeDown
    <3>. QED
      BY <2>5, <3>1, <3>2, <3>3, <3>4, <3>5, <3>6 DEF LoopStep
  <2>6. ASSUME NEW s \in Starts, Connected(s) PROVE R!Connack
    BY <2>6 DEF Connected, DialOK, R!Connack
  <2>7. ASSUME NEW s \in Starts, DialStep(s), ~Connected(s) PROVE UNCHANGED R!vars
    BY <2>7 DEF DialStep, OnConnectError, DialHangs, DialReturns
  <2>8. ASSUME NEW s \in Starts, Dropped(s) PROVE UNCHANGED R!vars
    BY <2>8 DEF Dropped, ConnectionDropped
  <2>9. ASSUME NEW s \in Starts, NEW x \in Recipients, BuildRouter(s, x)
        PROVE  R!AddRecipient(x)
    BY <2>9 DEF BuildRouter
  <2>10. ASSUME NEW s \in Starts, NEW pb \in R!Packets, RoutePacket(s, pb)
         PROVE  R!RouteSnapshot(pb)
    <3>1. PhaseOf(TheStart)' = PhaseOf(TheStart) /\ PhaseOf(TheStart) # "down"
      BY <2>10 DEF RoutePacket, vars
    <3>2. R!RouteCalled(pb)
      BY <2>10 DEF RoutePacket
    <3>. QED
      BY <3>1, <3>2 DEF R!RouteSnapshot
  <2>11. ASSUME RouteStep PROVE R!RouteResolve \/ R!RouteDispatch \/ R!RouteReturn
    BY <2>11 DEF RouteStep
  <2>12. ASSUME NEW t \in Stops, StopStep(t), UNCHANGED routerVars PROVE UNCHANGED R!vars
    BY <2>12 DEF StopStep, StopNothing, StopDisconnect, StopDisconnected, StopExpired, StopClear,
                 StopRelease
  <2>13. CASE UNCHANGED allVars
    BY <2>13 DEF allVars, vars
  <2>. QED
    BY <2>1, <2>2, <2>3, <2>4, <2>5, <2>6, <2>7, <2>8, <2>9, <2>10, <2>11, <2>12, <2>13
    DEF CompositionNext, R!Next
<1>. QED
  BY <1>1, <1>2, DrivenInvariant, PTL DEF CompositionSpec, RouterSpec, R!Spec
-----------------------------------------------------------------------------
RP == INSTANCE SubscriberRouterProofs WITH phase <- PhaseOf(TheStart)

\* The same router, by another name.
LEMMA SameRouter == R!Spec => RP!Spec
<1>1. R!Init => RP!Init
  BY DEF R!Init, RP!Init, R!Unassigned, RP!Unassigned, R!NotCalled, RP!NotCalled
<1>2. R!Next => RP!Next
  <2> USE DEF R!registry, RP!registry, R!routing, RP!routing, R!Elements, RP!Elements,
          R!Allocate, RP!Allocate, R!Packets, RP!Packets
  <2>1. ASSUME NEW r \in Recipients, R!AddRecipient(r) PROVE RP!AddRecipient(r)
    BY <2>1 DEF R!AddRecipient, RP!AddRecipient
  <2>2. ASSUME NEW p \in Patterns, R!UnregisterHandler(p) PROVE RP!UnregisterHandler(p)
    BY <2>2 DEF R!UnregisterHandler, RP!UnregisterHandler, R!Kept, RP!Kept, R!Nth, RP!Nth,
                R!Cardinality, RP!Cardinality
  <2>3. ASSUME NEW pb \in R!Packets, R!RouteSnapshot(pb) PROVE RP!RouteSnapshot(pb)
    BY <2>3 DEF R!RouteSnapshot, RP!RouteSnapshot, R!RouteCalled, RP!RouteCalled,
                R!NotCalled, RP!NotCalled
  <2>4. ASSUME R!RouteResolve PROVE RP!RouteResolve
    BY <2>4 DEF R!RouteResolve, RP!RouteResolve, R!Resolution, RP!Resolution,
                R!Registers, RP!Registers
  <2>5. ASSUME R!RouteDispatch PROVE RP!RouteDispatch
    BY <2>5 DEF R!RouteDispatch, RP!RouteDispatch, R!Matches, RP!Matches
  <2>6. ASSUME R!RouteReturn PROVE RP!RouteReturn
    BY <2>6 DEF R!RouteReturn, RP!RouteReturn
  <2>7. ASSUME R!Connack PROVE RP!Connack
    BY <2>7 DEF R!Connack, RP!Connack, R!Unassigned, RP!Unassigned
  <2>8. ASSUME R!ResetAliasesUp PROVE RP!ResetAliasesUp
    BY <2>8 DEF R!ResetAliasesUp, RP!ResetAliasesUp, R!resetAliases, RP!resetAliases,
                R!Unassigned, RP!Unassigned
  <2>9. ASSUME R!ResetAliasesDown PROVE RP!ResetAliasesDown
    BY <2>9 DEF R!ResetAliasesDown, RP!ResetAliasesDown, R!resetAliases, RP!resetAliases,
                R!Unassigned, RP!Unassigned
  <2>. QED
    BY <2>1, <2>2, <2>3, <2>4, <2>5, <2>6, <2>7, <2>8, <2>9 DEF R!Next, RP!Next
<1>3. [R!Next]_R!vars => [RP!Next]_RP!vars
  BY <1>2 DEF R!vars, RP!vars, R!registry, RP!registry, R!routing, RP!routing
<1>. QED
  BY <1>1, <1>2, <1>3, PTL DEF R!Spec, RP!Spec

LEMMA RouterAssumed == RP!RouterAssumption
BY CompositionAssumption DEF R!RouterAssumption, RP!RouterAssumption

(* In the client, too, the router comes to a set of recipients that each   *)
(* get a message once and to the broker's own aliases (client.go:302-346,  *)
(* router.go:151-190).                                                     *)
THEOREM ClientRoutes == CompositionSpec => RP!RoutingSpec
<1>1. RP!Spec => RP!RoutingSpec
  BY RouterAssumed, RP!ImplementsRouting
<1>. QED
  BY <1>1, SameRouter, DrivesRouter, PTL DEF RouterSpec

(* Whatever the main loop and the callbacks do meanwhile, a Route calls    *)
(* every matching recipient of its snapshot once, under the topic the      *)
(* broker meant, and forgets no alias but those OnConnectionUp clears.     *)
THEOREM ClientDelivers ==
  CompositionSpec => [](RP!DeliveredOnce /\ RP!NoStaleAlias /\ RP!AliasKept)
<1>1. RP!Spec => []RP!DeliveredOnce
  BY RouterAssumed, RP!DeliveredExactlyOnce
<1>2. RP!Spec => []RP!NoStaleAlias
  BY RouterAssumed, RP!AliasNeverStale
<1>3. RP!Spec => []RP!AliasKept
  BY RouterAssumed, RP!AliasRemembered
<1>. QED
  BY <1>1, <1>2, <1>3, SameRouter, DrivesRouter, PTL DEF RouterSpec

(* With the router at work the client still reports its connection as      *)
(* ClientStatus says, wires before Start returns, stays stopped, gives up  *)
(* when it should and, once cancelled, comes nearer its end.               *)
THEOREM ClientStaysRight ==
  CompositionSpec =>
    /\ HostView
    /\ ShutdownNears
    /\ [](/\ OutageReported /\ StopIsFinal /\ StartedWired
          /\ GivesUpExactlyAtLimit /\ NoDoubleClose /\ DisconnectNotUndercut)
<1>1. OneStart /\ Starts # {}
  BY CompositionAssumption DEF OneStart
<1>2. Spec => HostView
  BY <1>1, ImplementsStatus
<1>3. Spec => []OutageReported
  BY <1>1, OutageIsReported
<1>4. Spec => []StopIsFinal
  BY <1>1, StopFinal
<1>5. Spec => []StartedWired
  BY <1>1, WiredOnStart
<1>. QED
  BY <1>2, <1>3, <1>4, <1>5, CompositionIsClient, ShutdownAlwaysNears, LimiterCorrect,
     ReadyClosedOnce, DisconnectIsClean, PTL
=============================================================================

------------------------- MODULE MQTTClientRetryProofs -------------------------
(* A host that calls Start again only after the last call has returned     *)
(* never runs two main loops, and leaves none behind.                      *)
EXTENDS MQTTClientProofs

(* Such a host's steps are steps of the client.                            *)
LEMMA SequentialIsSpec == SequentialSpec => Spec
<1>1. SequentialNext => Next
  BY DEF SequentialNext, StartsAlone, Next, StartStep
<1>. QED
  BY <1>1, PTL DEF SequentialSpec, Spec

\* No two Starts are in progress, and none once one has returned nil.
StartsApart ==
  /\ \A r, s \in Starts : InStart(r) /\ InStart(s) => r = s
  /\ \A s \in Starts : InStart(s) => cm = None
  /\ \A s \in Starts : startPc[s] = "started" => cm = s

\* A Start that gave up has cancelled its main loop; one that was refused has none.
NothingLeft(s) ==
  /\ startPc[s] = "failed" => runCtx[s]
  /\ startPc[s] = "refused" => mgrPc[s] = "none"

RetryInv == StartsApart /\ \A s \in Starts : NothingLeft(s)

(* Between two calls of Start at most the started main loop is left.       *)
LEMMA RetryInvariant == SequentialSpec => []RetryInv
<1>1. Init => RetryInv
  BY DEF Init, RetryInv, StartsApart, NothingLeft, InStart
<1>2. TypeOK /\ LimiterInv /\ RetryInv /\ [SequentialNext]_vars => RetryInv'
  <2> SUFFICES ASSUME TypeOK, LimiterInv, RetryInv, [SequentialNext]_vars
               PROVE  RetryInv'
    OBVIOUS
  <2> USE ClientAssumption
  <2> USE DEF clientVars, startVars, limiterVars, networkVars, managerVars, stopVars,
          TypeOK, LimiterInv, NotStarted, RetryInv, StartsApart, NothingLeft, InStart
  <2>1. ASSUME NEW s \in Starts, CancelCaller(s) PROVE RetryInv'
    BY <2>1 DEF CancelCaller
  <2>2. ASSUME NEW s \in Starts, StartsAlone(s) PROVE RetryInv'
    BY <2>2 DEF StartsAlone, StartAdmitted
  <2>3. ASSUME NEW s \in Starts, StartRefused(s) PROVE RetryInv'
    BY <2>3 DEF StartRefused
  <2>4. ASSUME NEW s \in Starts, StartConnect(s) PROVE RetryInv'
    BY <2>4 DEF StartConnect
  <2>5. ASSUME NEW s \in Starts, StartConnectError(s) PROVE RetryInv'
    BY <2>5 DEF StartConnectError
  <2>6. ASSUME NEW s \in Starts, StartReady(s) PROVE RetryInv'
    BY <2>6 DEF StartReady
  <2>7. ASSUME NEW s \in Starts, StartAbandoned(s) PROVE RetryInv'
    BY <2>7 DEF StartAbandoned
  <2>8. ASSUME NEW s \in Starts, ManagerStep(s) PROVE RetryInv'
    BY <2>8 DEF ManagerStep, DialAborted, OnConnectionUp, LimiterConnected, SubscribeOK,
                SubscribeError, SetConnectedUp, GaugeUp, WirePublisher, CloseStartReady,
                GracefulDisconnect, SetConnectedDown, GaugeDown
  <2>9. ASSUME NEW s \in Starts, NetworkStep(s) PROVE RetryInv'
    BY <2>9 DEF NetworkStep, DialOK, OnConnectError, DialHangs, DialReturns, LinkLost,
                ConnectionDropped
  <2>10. ASSUME NEW t \in Stops, StopStep(t) PROVE RetryInv'
    BY <2>10 DEF StopStep, StopNothing, StopDisconnect, StopDisconnected, StopExpired,
                 StopClear, StopRelease
  <2>11. CASE UNCHANGED vars
    BY <2>11 DEF vars
  <2>. QED
    BY <2>1, <2>2, <2>3, <2>4, <2>5, <2>6, <2>7, <2>8, <2>9, <2>10, <2>11
    DEF SequentialNext
<1>. QED
  BY <1>1, <1>2, SequentialIsSpec, TypeCorrect, LimiterInvariant, PTL DEF SequentialSpec

(* A main loop that goes on is the one Stop finds, or its Start has yet to *)
(* return: a Start that fails leaves nothing running (client.go:190-211).  *)
THEOREM NothingLeaks == SequentialSpec => []NoLeakedManager
<1>1. TypeOK /\ LimiterInv /\ RetryInv => NoLeakedManager
  BY DEF TypeOK, StartPcs, LimiterInv, NotStarted, RetryInv, StartsApart, NothingLeft,
         NoLeakedManager, Live, Cancelled, RunCancelled
<1>. QED
  BY <1>1, SequentialIsSpec, TypeCorrect, LimiterInvariant, RetryInvariant, PTL

(* However often Start failed before, one main loop goes on at most        *)
(* (client.go:17).                                                         *)
THEOREM OneManager == SequentialSpec => []SingleManager
<1>1. NoLeakedManager /\ RetryInv => SingleManager
  BY ClientAssumption DEF NoLeakedManager, RetryInv, StartsApart, InStart, SingleManager
<1>. QED
  BY <1>1, NothingLeaks, RetryInvariant, PTL
=============================================================================

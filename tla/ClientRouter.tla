----------------------------- MODULE ClientRouter -----------------------------
(***************************************************************************)
(* An MQTTClient together with the subscriberRouter its Start builds.  The *)
(* callbacks of the main loop drive the router, paho's workers call Route  *)
(* while they run, and OnConnectionDown waits for a Route in progress.     *)
(* There is one call of Start: each call builds a router of its own.       *)
(***************************************************************************)
EXTENDS MQTTClient, Sequences

CONSTANTS Recipients, Patterns, Topics, Aliases, PatternsOf, TopicsOf  \* of SubscriberRouter

VARIABLES arrays, entries, added, removed, aliases, routePc, packet, snapshot, topic, next,
          calls, seen, meaning, forgotten                              \* of SubscriberRouter

routerVars == <<arrays, entries, added, removed, aliases, routePc, packet, snapshot, topic,
                next, calls, seen, meaning, forgotten>>
allVars == <<vars, routerVars>>

\* From the head of OnConnectionUp to that of OnConnectionDown.
ServingPcs == {"subscribe", "setUp", "gaugeUp", "wire", "online"}

\* The connection as the router sees it.  A main loop that ends while it is
\* connected calls no OnConnectionDown: the gauge remembers that.
PhaseOf(s) ==
  IF mgrPc[s] = "up" THEN "fresh"
  ELSE IF mgrPc[s] \in ServingPcs \cup {"down"} \/ (mgrPc[s] = "done" /\ gauge) THEN "up"
  ELSE "down"

R == INSTANCE SubscriberRouter WITH phase <- PhaseOf(TheStart)

ASSUME CompositionAssumption ==
  /\ Starts # {}
  /\ \A r, s \in Starts : r = s
  /\ R!RouterAssumption

CompositionInit == Init /\ R!Init

-----------------------------------------------------------------------------
(* Start and the router                                                    *)

\* buildRouter: one turn of its loop over the subscribers.
BuildRouter(s, r) ==
  /\ startPc[s] = "admitted"
  /\ UNCHANGED vars
  /\ R!AddRecipient(r)

\* NewConnection is given the finished router.
Connecting(s) ==
  /\ added = Recipients
  /\ StartConnect(s) \/ StartConnectError(s)
  /\ UNCHANGED routerVars

-----------------------------------------------------------------------------
(* paho's workers                                                          *)

\* A packet of the connection, from CONNACK until the workers end.
RoutePacket(s, pb) ==
  /\ mgrPc[s] \in ServingPcs \cup {"up"}
  /\ UNCHANGED vars
  /\ R!RouteCalled(pb)

\* Route in progress, whatever the client is doing.
RouteStep == UNCHANGED vars /\ (R!RouteResolve \/ R!RouteDispatch \/ R!RouteReturn)

\* Mutant: OnConnectionDown may overtake a Route in progress.
DroppedOvertaking(s) == ConnectionDropped(s) /\ UNCHANGED routerVars

\* The client reported an error, and its workers have ended.
Dropped(s) ==
  /\ ConnectionDropped(s)
  /\ routePc = "idle"
  /\ UNCHANGED routerVars

-----------------------------------------------------------------------------
(* The callbacks                                                           *)

\* The broker assigns aliases anew on every connection.
Connected(s) ==
  /\ DialOK(s)
  /\ meaning' = R!Unassigned /\ forgotten' = {}
  /\ UNCHANGED <<arrays, entries, added, removed, aliases, routePc, packet, snapshot, topic,
                 next, calls, seen>>

\* limiter.connected() and router.resetAliases().
ConnectionUp(s) ==
  /\ OnConnectionUp(s)
  /\ R!resetAliases
  /\ forgotten' = forgotten \cup {a \in Aliases : aliases[a] # None}

\* Mutant: OnConnectionDown leaves the aliases to the next OnConnectionUp.
ConnectionDownKeeping(s) == SetConnectedDown(s) /\ UNCHANGED routerVars

\* router.resetAliases() and setConnected(false).
ConnectionDown(s) == SetConnectedDown(s) /\ R!resetAliases /\ UNCHANGED forgotten

\* The rest of the main loop has nothing to do with the router.
LoopStep(s) ==
  \/ ConnectionUp(s) \/ ConnectionDown(s)
  \/ /\ \/ DialAborted(s) \/ SubscribeOK(s) \/ SubscribeError(s) \/ SetConnectedUp(s)
        \/ GaugeUp(s) \/ (\E p \in Publishers : WirePublisher(s, p)) \/ CloseStartReady(s)
        \/ GracefulDisconnect(s) \/ GaugeDown(s)
     /\ UNCHANGED routerVars

DialStep(s) ==
  Connected(s) \/ ((OnConnectError(s) \/ DialHangs(s) \/ DialReturns(s)) /\ UNCHANGED routerVars)

CallStep(s) ==
  /\ \/ CancelCaller(s) \/ StartRefused(s) \/ StartAdmitted(s) \/ StartReady(s)
     \/ StartAbandoned(s) \/ LinkLost(s)
  /\ UNCHANGED routerVars

CompositionNext ==
  \/ \E s \in Starts :
       \/ CallStep(s) \/ Connecting(s) \/ LoopStep(s) \/ DialStep(s) \/ Dropped(s)
       \/ \E r \in Recipients : BuildRouter(s, r)
       \/ \E pb \in R!Packets : RoutePacket(s, pb)
  \/ RouteStep
  \/ \E t \in Stops : StopStep(t) /\ UNCHANGED routerVars

CompositionSpec == CompositionInit /\ [][CompositionNext]_allVars

(* As for the client alone; a handler returns; and the packets that were       *)
(* received before a connection was lost come to an end, so that the workers   *)
(* are done again and again until the loss is taken note of.                   *)
CompositionFairness ==
  /\ \A s \in Starts :
       /\ WF_allVars(LoopStep(s) \/ Connected(s) \/ (OnConnectError(s) /\ UNCHANGED routerVars))
       /\ SF_allVars(KeepAliveSecs > 0 /\ Dropped(s))
       /\ WF_allVars((StartReady(s) \/ StartAbandoned(s)) /\ UNCHANGED routerVars)
  /\ \A t \in Stops :
       /\ WF_allVars(StopDisconnected(t) /\ UNCHANGED routerVars)
       /\ WF_allVars((StopClear(t) \/ StopRelease(t)) /\ UNCHANGED routerVars)
  /\ WF_allVars(RouteStep)

FairComposition == CompositionSpec /\ CompositionFairness

\* The router is driven as it relies on: the aliases are forgotten between two
\* connections, and no Route runs while OnConnectionDown forgets them
\* (client.go:305-313, 344-346).
RouterSpec == R!Spec
=============================================================================

------------------------------ MODULE MQTTClient ------------------------------
(***************************************************************************)
(* The lifecycle of client.MQTTClient: concurrent calls of Start and Stop, *)
(* the autopaho main loop each Start creates, the callbacks that loop runs *)
(* and the reconnect limiter.                                              *)
(*                                                                         *)
(* A call of Start owns everything Start allocates: a run context, a       *)
(* connection manager, a limiter, startReady and firstConn.  All of it is  *)
(* therefore indexed by the call, and "the manager s" is the one created   *)
(* by the call s.  The fields of MQTTClient itself are the plain variables *)
(* cm, connected and gauge.  Every critical section of mu is one action.   *)
(*                                                                         *)
(* A callback is a program of its own: mgrPc says which statement of       *)
(* OnConnectionUp or OnConnectionDown the main loop runs next, because     *)
(* Start, Stop, a cancellation or a lost link may come between any two.    *)
(***************************************************************************)
EXTENDS Integers, FiniteSets

CONSTANTS
  Starts,                \* the calls of Start
  Stops,                 \* the calls of Stop
  Publishers,            \* the publishers added before Start
  HasSubscriptions,      \* whether buildSubscribeOptions returns anything
  MaxReconnectAttempts,  \* ClientConfig.MaxReconnectAttempts; 0 or less is unlimited
  KeepAlive,             \* ClientConfig.KeepAlive, in milliseconds
  Scheme,                \* of the broker's URL in ClientConfig.ServerURLs, in lower case
  HasTLSConfig,          \* whether ClientConfig.TLSConfig is set
  OutageCap,             \* bound: where the history variable outage saturates
  CountCap,              \* bound: reconnections are counted modulo this
  None                   \* a nil manager or publish function

ASSUME ClientAssumption ==
  /\ HasSubscriptions \in BOOLEAN
  /\ MaxReconnectAttempts \in Int
  /\ KeepAlive \in Int
  /\ HasTLSConfig \in BOOLEAN
  /\ IsFiniteSet(Publishers)
  /\ OutageCap \in Nat
  /\ OutageCap > MaxReconnectAttempts
  /\ CountCap \in Nat \ {0}
  /\ None \notin Starts

VARIABLES
  cm,             \* MQTTClient.cm, and with it stopRun: set in one critical section
  connected,      \* MQTTClient.connected, what IsConnected returns
  gauge,          \* the mqtt.client.connected gauge
  reconnects,     \* the mqtt.client.reconnections counter, modulo CountCap
  publishFunc,    \* MQTTPublisher.publishFunc: whose Publish it is, or None
  startPc,        \* progress of each call of Start
  callerCtx,      \* whether the context given to Start is cancelled
  runCtx,         \* whether stopRun was called
  startReady,     \* whether startReady is closed
  firstConn,      \* Start's local firstConn
  connectedOnce,  \* reconnectLimiter.connectedOnce
  failures,       \* reconnectLimiter.failures
  gaveUp,         \* whether the limiter has called stop
  wired,          \* the publishers the current callback has wired
  mgrPc,          \* where the manager's main loop is
  innerCtx,       \* whether ConnectionManager.Disconnect was called
  link,           \* whether the manager's network connection is alive
  subscribed,     \* whether the broker acknowledged SUBSCRIBE on this connection
  everUp,         \* history: the manager has had a connection
  outage,         \* history: dials failed in a row since then, up to OutageCap
  stopPc,         \* progress of each call of Stop
  held,           \* the manager each call of Stop took from cm
  stopResult      \* "nil", or "expired" when Stop's own context ran out

clientVars  == <<cm, connected, gauge, reconnects, publishFunc>>
startVars   == <<startPc, callerCtx, startReady, firstConn>>
limiterVars == <<connectedOnce, failures, gaveUp>>
networkVars == <<link, subscribed, everUp, outage>>
managerVars == <<limiterVars, wired, mgrPc, innerCtx, networkVars>>
stopVars    == <<stopPc, held, stopResult>>
vars == <<clientVars, startVars, runCtx, managerVars, stopVars>>

StartPcs == {"idle", "admitted", "waiting", "started", "refused", "failed"}
MgrPcs   == {"none", "dialing", "hung", "up", "subscribe", "setUp", "gaugeUp", "wire",
             "online", "down", "gaugeDown", "done"}
StopPcs  == {"idle", "disconnecting", "clearing", "releasing", "returned"}

TypeOK ==
  /\ cm \in Starts \cup {None}
  /\ connected \in BOOLEAN
  /\ gauge \in BOOLEAN
  /\ reconnects \in 0..(CountCap - 1)
  /\ publishFunc \in [Publishers -> Starts \cup {None}]
  /\ startPc \in [Starts -> StartPcs]
  /\ callerCtx \in [Starts -> BOOLEAN]
  /\ runCtx \in [Starts -> BOOLEAN]
  /\ startReady \in [Starts -> BOOLEAN]
  /\ firstConn \in [Starts -> BOOLEAN]
  /\ connectedOnce \in [Starts -> BOOLEAN]
  /\ failures \in [Starts -> Nat]
  /\ gaveUp \in [Starts -> BOOLEAN]
  /\ wired \in [Starts -> SUBSET Publishers]
  /\ mgrPc \in [Starts -> MgrPcs]
  /\ innerCtx \in [Starts -> BOOLEAN]
  /\ link \in [Starts -> BOOLEAN]
  /\ subscribed \in [Starts -> BOOLEAN]
  /\ everUp \in [Starts -> BOOLEAN]
  /\ outage \in [Starts -> 0..OutageCap]
  /\ stopPc \in [Stops -> StopPcs]
  /\ held \in [Stops -> Starts \cup {None}]
  /\ stopResult \in [Stops -> {"none", "nil", "expired"}]

Init ==
  /\ cm = None
  /\ connected = FALSE
  /\ gauge = FALSE
  /\ reconnects = 0
  /\ publishFunc = [p \in Publishers |-> None]
  /\ startPc = [s \in Starts |-> "idle"]
  /\ callerCtx = [s \in Starts |-> FALSE]
  /\ runCtx = [s \in Starts |-> FALSE]
  /\ startReady = [s \in Starts |-> FALSE]
  /\ firstConn = [s \in Starts |-> TRUE]
  /\ connectedOnce = [s \in Starts |-> FALSE]
  /\ failures = [s \in Starts |-> 0]
  /\ gaveUp = [s \in Starts |-> FALSE]
  /\ wired = [s \in Starts |-> {}]
  /\ mgrPc = [s \in Starts |-> "none"]
  /\ innerCtx = [s \in Starts |-> FALSE]
  /\ link = [s \in Starts |-> FALSE]
  /\ subscribed = [s \in Starts |-> FALSE]
  /\ everUp = [s \in Starts |-> FALSE]
  /\ outage = [s \in Starts |-> 0]
  /\ stopPc = [t \in Stops |-> "idle"]
  /\ held = [t \in Stops |-> None]
  /\ stopResult = [t \in Stops |-> "none"]

-----------------------------------------------------------------------------
(* Contexts.  runCtx derives from the caller's context and the manager's   *)
(* own context from runCtx; a cancellation reaches the derived ones at     *)
(* once.                                                                   *)

\* Mutant: runCtx derived from context.Background.
RunCancelledDetached(s) == runCtx[s]

RunCancelled(s) == runCtx[s] \/ callerCtx[s]

Cancelled(s) == RunCancelled(s) \/ innerCtx[s]

CancelCaller(s) ==
  /\ ~callerCtx[s]
  /\ callerCtx' = [callerCtx EXCEPT ![s] = TRUE]
  /\ UNCHANGED <<clientVars, startPc, startReady, firstConn, runCtx, managerVars,
                 stopVars>>

-----------------------------------------------------------------------------
(* Start                                                                   *)

\* The first critical section: another Start has already finished.
StartRefused(s) ==
  /\ startPc[s] = "idle"
  /\ cm # None
  /\ startPc' = [startPc EXCEPT ![s] = "refused"]
  /\ UNCHANGED <<clientVars, callerCtx, startReady, firstConn, runCtx, managerVars,
                 stopVars>>

\* Mutant: no test of cm.
StartAdmittedUnchecked(s) ==
  /\ startPc[s] = "idle"
  /\ startPc' = [startPc EXCEPT ![s] = "admitted"]
  /\ UNCHANGED <<clientVars, callerCtx, startReady, firstConn, runCtx, managerVars,
                 stopVars>>

\* The same section when no Start has finished: nothing is reserved.
StartAdmitted(s) ==
  /\ startPc[s] = "idle"
  /\ cm = None
  /\ startPc' = [startPc EXCEPT ![s] = "admitted"]
  /\ UNCHANGED <<clientVars, callerCtx, startReady, firstConn, runCtx, managerVars,
                 stopVars>>

\* The locals are made and autopaho.NewConnection starts the main loop.
StartConnect(s) ==
  /\ startPc[s] = "admitted"
  /\ startPc' = [startPc EXCEPT ![s] = "waiting"]
  /\ mgrPc' = [mgrPc EXCEPT ![s] = "dialing"]
  /\ UNCHANGED <<clientVars, callerCtx, startReady, firstConn, runCtx, limiterVars,
                 wired, innerCtx, networkVars, stopVars>>

\* NewConnection returns an error.
StartConnectError(s) ==
  /\ startPc[s] = "admitted"
  /\ startPc' = [startPc EXCEPT ![s] = "failed"]
  /\ runCtx' = [runCtx EXCEPT ![s] = TRUE]
  /\ UNCHANGED <<clientVars, callerCtx, startReady, firstConn, managerVars, stopVars>>

\* Mutant: cm is not stored.
StartReadyUnstored(s) ==
  /\ startPc[s] = "waiting"
  /\ startReady[s]
  /\ startPc' = [startPc EXCEPT ![s] = "started"]
  /\ UNCHANGED <<clientVars, callerCtx, startReady, firstConn, runCtx, managerVars,
                 stopVars>>

\* The select takes startReady; cm and stopRun are set in one critical section.
StartReady(s) ==
  /\ startPc[s] = "waiting"
  /\ startReady[s]
  /\ startPc' = [startPc EXCEPT ![s] = "started"]
  /\ cm' = s
  /\ UNCHANGED <<connected, gauge, reconnects, publishFunc, callerCtx, startReady, firstConn,
                 runCtx, managerVars, stopVars>>

\* The select takes ctx.Done or cm.Done, which it may even when startReady is
\* closed as well.
StartAbandoned(s) ==
  /\ startPc[s] = "waiting"
  /\ callerCtx[s] \/ mgrPc[s] = "done"
  /\ startPc' = [startPc EXCEPT ![s] = "failed"]
  /\ runCtx' = [runCtx EXCEPT ![s] = TRUE]
  /\ UNCHANGED <<clientVars, callerCtx, startReady, firstConn, managerVars, stopVars>>

StartStep(s) ==
  \/ StartRefused(s) \/ StartAdmitted(s) \/ StartConnect(s) \/ StartConnectError(s)
  \/ StartReady(s) \/ StartAbandoned(s)

-----------------------------------------------------------------------------
(* The network and autopaho's connection attempts                          *)

\* A connection attempt succeeds.
DialOK(s) ==
  /\ mgrPc[s] = "dialing"
  /\ ~Cancelled(s)
  /\ mgrPc' = [mgrPc EXCEPT ![s] = "up"]
  /\ link' = [link EXCEPT ![s] = TRUE]
  /\ subscribed' = [subscribed EXCEPT ![s] = FALSE]
  /\ everUp' = [everUp EXCEPT ![s] = TRUE]
  /\ outage' = [outage EXCEPT ![s] = 0]
  /\ UNCHANGED <<clientVars, startVars, runCtx, limiterVars, wired, innerCtx,
                 stopVars>>

\* Mutant: the attempts before the first connection count as well.
CountsAlways(s) == MaxReconnectAttempts > 0

\* reconnectLimiter.failed: whether a failure is counted, and whether the
\* count it leads to makes the limiter call stop.
Counts(s) == MaxReconnectAttempts > 0 /\ connectedOnce[s]

Reached(s) == Counts(s) /\ failures[s] + 1 >= MaxReconnectAttempts

\* Mutant: the limiter calls Stop, which waits for the loop it was called on.
OnConnectErrorStopping(s) ==
  /\ mgrPc[s] = "dialing"
  /\ ~Cancelled(s)
  /\ failures' = [failures EXCEPT ![s] = IF Counts(s) THEN @ + 1 ELSE @]
  /\ gaveUp' = [gaveUp EXCEPT ![s] = @ \/ Reached(s)]
  /\ innerCtx' = [innerCtx EXCEPT ![s] = @ \/ Reached(s)]
  /\ mgrPc' = [mgrPc EXCEPT ![s] = IF Reached(s) THEN "hung" ELSE @]
  /\ outage' = [outage EXCEPT ![s] = IF @ < OutageCap THEN @ + 1 ELSE @]
  /\ UNCHANGED <<clientVars, startVars, runCtx, connectedOnce, wired, link, subscribed,
                 everUp, stopVars>>

\* A connection attempt fails, and autopaho calls OnConnectError.
OnConnectError(s) ==
  /\ mgrPc[s] = "dialing"
  /\ ~Cancelled(s)
  /\ failures' = [failures EXCEPT ![s] = IF Counts(s) THEN @ + 1 ELSE @]
  /\ gaveUp' = [gaveUp EXCEPT ![s] = @ \/ Reached(s)]
  /\ runCtx' = [runCtx EXCEPT ![s] = @ \/ Reached(s)]
  /\ outage' = [outage EXCEPT ![s] = IF @ < OutageCap THEN @ + 1 ELSE @]
  /\ UNCHANGED <<clientVars, startVars, connectedOnce, wired, mgrPc, innerCtx, link,
                 subscribed, everUp, stopVars>>

\* The loop notices that its context is cancelled and ends: Done is closed.
DialAborted(s) ==
  /\ mgrPc[s] = "dialing"
  /\ Cancelled(s)
  /\ mgrPc' = [mgrPc EXCEPT ![s] = "done"]
  /\ UNCHANGED <<clientVars, startVars, runCtx, limiterVars, wired, innerCtx,
                 networkVars, stopVars>>

\* makeAttemptConnection: what dials the broker.
Dialer ==
  IF Scheme \in {"ws", "wss"} THEN "websocket.Dialer"
  ELSE IF Scheme \notin {"ssl", "tls", "mqtts", "mqtt+ssl", "tcps"} THEN "net.Dialer"
  ELSE IF HasTLSConfig THEN "tls.Dialer" ELSE "tls.Dial"

\* tls.Dial is given no context: the attempt lasts as long as the server keeps
\* silent.
DialHangs(s) ==
  /\ mgrPc[s] = "dialing"
  /\ Dialer = "tls.Dial"
  /\ ~Cancelled(s)
  /\ mgrPc' = [mgrPc EXCEPT ![s] = "hung"]
  /\ UNCHANGED <<clientVars, startVars, runCtx, limiterVars, wired, innerCtx,
                 networkVars, stopVars>>

\* The server answers after all, or closes the connection.
DialReturns(s) ==
  /\ mgrPc[s] = "hung"
  /\ mgrPc' = [mgrPc EXCEPT ![s] = "dialing"]
  /\ UNCHANGED <<clientVars, startVars, runCtx, limiterVars, wired, innerCtx,
                 networkVars, stopVars>>

\* The connection is lost, whatever the main loop is doing.
LinkLost(s) ==
  /\ link[s]
  /\ link' = [link EXCEPT ![s] = FALSE]
  /\ UNCHANGED <<clientVars, startVars, runCtx, limiterVars, wired, mgrPc, innerCtx,
                 subscribed, everUp, outage, stopVars>>

-----------------------------------------------------------------------------
(* OnConnectionUp, statement by statement                                  *)

\* Mutant: the counter is reset to one less than zero.
LimiterConnectedOffByOne(s) ==
  /\ connectedOnce' = [connectedOnce EXCEPT ![s] = TRUE]
  /\ failures' = [failures EXCEPT ![s] = -1]

\* reconnectLimiter.connected
LimiterConnected(s) ==
  /\ connectedOnce' = [connectedOnce EXCEPT ![s] = TRUE]
  /\ failures' = [failures EXCEPT ![s] = 0]

\* limiter.connected(), and the test whether there is anything to subscribe.
OnConnectionUp(s) ==
  /\ mgrPc[s] = "up"
  /\ LimiterConnected(s)
  /\ mgrPc' = [mgrPc EXCEPT ![s] = IF HasSubscriptions THEN "subscribe" ELSE "setUp"]
  /\ UNCHANGED <<clientVars, startVars, runCtx, gaveUp, wired, innerCtx, networkVars,
                 stopVars>>

\* cm.Subscribe returns with every subscription acknowledged.
SubscribeOK(s) ==
  /\ mgrPc[s] = "subscribe"
  /\ link[s]
  /\ ~RunCancelled(s)
  /\ subscribed' = [subscribed EXCEPT ![s] = TRUE]
  /\ mgrPc' = [mgrPc EXCEPT ![s] = "setUp"]
  /\ UNCHANGED <<clientVars, startVars, runCtx, limiterVars, wired, innerCtx, link,
                 everUp, outage, stopVars>>

\* Mutant: the callback starts over until SUBSCRIBE succeeds.
SubscribeErrorRetried(s) ==
  /\ mgrPc[s] = "subscribe"
  /\ mgrPc' = [mgrPc EXCEPT ![s] = "up"]
  /\ UNCHANGED <<clientVars, startVars, runCtx, limiterVars, wired, innerCtx,
                 networkVars, stopVars>>

\* cm.Subscribe returns an error (a refusal, a timeout, a lost connection, a
\* cancelled context): it is logged and the callback goes on.
SubscribeError(s) ==
  /\ mgrPc[s] = "subscribe"
  /\ mgrPc' = [mgrPc EXCEPT ![s] = "setUp"]
  /\ UNCHANGED <<clientVars, startVars, runCtx, limiterVars, wired, innerCtx,
                 networkVars, stopVars>>

\* Mutant: connected is set with the first connection alone.
SetConnectedUpOnce(s) ==
  /\ mgrPc[s] = "setUp"
  /\ connected' = (connected \/ firstConn[s])
  /\ mgrPc' = [mgrPc EXCEPT ![s] = "gaugeUp"]
  /\ UNCHANGED <<cm, gauge, reconnects, publishFunc, startVars, runCtx, limiterVars, wired,
                 innerCtx, networkVars, stopVars>>

SetConnectedUp(s) ==
  /\ mgrPc[s] = "setUp"
  /\ connected' = TRUE
  /\ mgrPc' = [mgrPc EXCEPT ![s] = "gaugeUp"]
  /\ UNCHANGED <<cm, gauge, reconnects, publishFunc, startVars, runCtx, limiterVars, wired,
                 innerCtx, networkVars, stopVars>>

\* Mutant: publishers are wired, and startReady closed, on every connection.
GaugeUpEveryTime(s) ==
  /\ mgrPc[s] = "gaugeUp"
  /\ gauge' = TRUE
  /\ reconnects' = IF firstConn[s] THEN reconnects ELSE (reconnects + 1) % CountCap
  /\ firstConn' = [firstConn EXCEPT ![s] = FALSE]
  /\ wired' = [wired EXCEPT ![s] = {}]
  /\ mgrPc' = [mgrPc EXCEPT ![s] = "wire"]
  /\ UNCHANGED <<cm, connected, publishFunc, startPc, callerCtx, startReady, runCtx,
                 limiterVars, innerCtx, networkVars, stopVars>>

\* The gauge, IncrReconnects, the OnConnect hook, and the test of firstConn.
GaugeUp(s) ==
  /\ mgrPc[s] = "gaugeUp"
  /\ gauge' = TRUE
  /\ reconnects' = IF firstConn[s] THEN reconnects ELSE (reconnects + 1) % CountCap
  /\ firstConn' = [firstConn EXCEPT ![s] = FALSE]
  /\ wired' = [wired EXCEPT ![s] = {}]
  /\ mgrPc' = [mgrPc EXCEPT ![s] = IF firstConn[s] THEN "wire" ELSE "online"]
  /\ UNCHANGED <<cm, connected, publishFunc, startPc, callerCtx, startReady, runCtx,
                 limiterVars, innerCtx, networkVars, stopVars>>

\* One turn of the loop over the publishers: SetPublishFunc(cm.Publish).
WirePublisher(s, p) ==
  /\ mgrPc[s] = "wire"
  /\ p \notin wired[s]
  /\ wired' = [wired EXCEPT ![s] = @ \cup {p}]
  /\ publishFunc' = [publishFunc EXCEPT ![p] = s]
  /\ UNCHANGED <<cm, connected, gauge, reconnects, startVars, runCtx, limiterVars, mgrPc, innerCtx,
                 networkVars, stopVars>>

\* Mutant: startReady is closed before the publishers are wired.
CloseStartReadyEarly(s) ==
  /\ mgrPc[s] = "wire"
  /\ startReady' = [startReady EXCEPT ![s] = TRUE]
  /\ mgrPc' = [mgrPc EXCEPT ![s] = "online"]
  /\ UNCHANGED <<clientVars, startPc, callerCtx, firstConn, runCtx, limiterVars,
                 wired, innerCtx, networkVars, stopVars>>

\* close(startReady), and OnConnectionUp returns.
CloseStartReady(s) ==
  /\ mgrPc[s] = "wire"
  /\ wired[s] = Publishers
  /\ startReady' = [startReady EXCEPT ![s] = TRUE]
  /\ mgrPc' = [mgrPc EXCEPT ![s] = "online"]
  /\ UNCHANGED <<clientVars, startPc, callerCtx, firstConn, runCtx, limiterVars, wired,
                 innerCtx, networkVars, stopVars>>

-----------------------------------------------------------------------------
(* The main loop between two callbacks, and OnConnectionDown               *)

\* The client reported an error: the loop takes it and calls OnConnectionDown.
ConnectionDropped(s) ==
  /\ mgrPc[s] = "online"
  /\ ~link[s]
  /\ mgrPc' = [mgrPc EXCEPT ![s] = "down"]
  /\ UNCHANGED <<clientVars, startVars, runCtx, limiterVars, wired, innerCtx,
                 networkVars, stopVars>>

\* The context is cancelled: autopaho sends DISCONNECT and ends its loop
\* without calling OnConnectionDown.
GracefulDisconnect(s) ==
  /\ mgrPc[s] = "online"
  /\ Cancelled(s)
  /\ mgrPc' = [mgrPc EXCEPT ![s] = "done"]
  /\ link' = [link EXCEPT ![s] = FALSE]
  /\ UNCHANGED <<clientVars, startVars, runCtx, limiterVars, wired, innerCtx,
                 subscribed, everUp, outage, stopVars>>

\* Mutant: OnConnectionDown does not clear connected.
SetConnectedDownForgotten(s) ==
  /\ mgrPc[s] = "down"
  /\ mgrPc' = [mgrPc EXCEPT ![s] = "gaugeDown"]
  /\ UNCHANGED <<clientVars, startVars, runCtx, limiterVars, wired, innerCtx,
                 networkVars, stopVars>>

SetConnectedDown(s) ==
  /\ mgrPc[s] = "down"
  /\ connected' = FALSE
  /\ mgrPc' = [mgrPc EXCEPT ![s] = "gaugeDown"]
  /\ UNCHANGED <<cm, gauge, reconnects, publishFunc, startVars, runCtx, limiterVars, wired,
                 innerCtx, networkVars, stopVars>>

\* The gauge and the OnDisconnect hook; "return true" goes back to dialling.
GaugeDown(s) ==
  /\ mgrPc[s] = "gaugeDown"
  /\ gauge' = FALSE
  /\ mgrPc' = [mgrPc EXCEPT ![s] = "dialing"]
  /\ UNCHANGED <<cm, connected, reconnects, publishFunc, startVars, runCtx, limiterVars, wired,
                 innerCtx, networkVars, stopVars>>

\* What the main loop does by itself, without the network's consent.
ManagerStep(s) ==
  \/ DialAborted(s) \/ OnConnectionUp(s) \/ SubscribeOK(s) \/ SubscribeError(s)
  \/ SetConnectedUp(s) \/ GaugeUp(s) \/ (\E p \in Publishers : WirePublisher(s, p))
  \/ CloseStartReady(s) \/ GracefulDisconnect(s) \/ SetConnectedDown(s) \/ GaugeDown(s)

NetworkStep(s) ==
  \/ DialOK(s) \/ OnConnectError(s) \/ DialHangs(s) \/ DialReturns(s)
  \/ LinkLost(s) \/ ConnectionDropped(s)

-----------------------------------------------------------------------------
(* Stop                                                                    *)

\* cm is nil: nothing to stop.
StopNothing(t) ==
  /\ stopPc[t] = "idle"
  /\ cm = None
  /\ stopPc' = [stopPc EXCEPT ![t] = "returned"]
  /\ stopResult' = [stopResult EXCEPT ![t] = "nil"]
  /\ UNCHANGED <<clientVars, startVars, runCtx, managerVars, held>>

\* Mutant: stopRun is called at once and not deferred.
StopDisconnectCancelling(t) ==
  /\ stopPc[t] = "idle"
  /\ cm # None
  /\ held' = [held EXCEPT ![t] = cm]
  /\ runCtx' = [runCtx EXCEPT ![cm] = TRUE]
  /\ innerCtx' = [innerCtx EXCEPT ![cm] = TRUE]
  /\ stopPc' = [stopPc EXCEPT ![t] = "disconnecting"]
  /\ UNCHANGED <<clientVars, startVars, limiterVars, wired, mgrPc, networkVars,
                 stopResult>>

\* Mutant: Stop waits for cm.Done without calling cm.Disconnect.
StopDisconnectWaiting(t) ==
  /\ stopPc[t] = "idle"
  /\ cm # None
  /\ held' = [held EXCEPT ![t] = cm]
  /\ stopPc' = [stopPc EXCEPT ![t] = "disconnecting"]
  /\ UNCHANGED <<clientVars, startVars, runCtx, managerVars, stopResult>>

\* cm and stopRun are read, and cm.Disconnect cancels the manager's own context.
StopDisconnect(t) ==
  /\ stopPc[t] = "idle"
  /\ cm # None
  /\ held' = [held EXCEPT ![t] = cm]
  /\ innerCtx' = [innerCtx EXCEPT ![cm] = TRUE]
  /\ stopPc' = [stopPc EXCEPT ![t] = "disconnecting"]
  /\ UNCHANGED <<clientVars, startVars, runCtx, limiterVars, wired, mgrPc, networkVars,
                 stopResult>>

\* cm.Disconnect returns nil: the main loop has ended.
StopDisconnected(t) ==
  /\ stopPc[t] = "disconnecting"
  /\ mgrPc[held[t]] = "done"
  /\ stopPc' = [stopPc EXCEPT ![t] = "clearing"]
  /\ stopResult' = [stopResult EXCEPT ![t] = "nil"]
  /\ UNCHANGED <<clientVars, startVars, runCtx, managerVars, held>>

\* cm.Disconnect returns an error: Stop's context ran out first.
StopExpired(t) ==
  /\ stopPc[t] = "disconnecting"
  /\ stopPc' = [stopPc EXCEPT ![t] = "clearing"]
  /\ stopResult' = [stopResult EXCEPT ![t] = "expired"]
  /\ UNCHANGED <<clientVars, startVars, runCtx, managerVars, held>>

\* Mutant: connected is left to OnConnectionDown.
StopClearForgotten(t) ==
  /\ stopPc[t] = "clearing"
  /\ stopPc' = [stopPc EXCEPT ![t] = "releasing"]
  /\ UNCHANGED <<clientVars, startVars, runCtx, managerVars, held, stopResult>>

\* The deferred setConnected(false) runs first ...
StopClear(t) ==
  /\ stopPc[t] = "clearing"
  /\ connected' = FALSE
  /\ stopPc' = [stopPc EXCEPT ![t] = "releasing"]
  /\ UNCHANGED <<cm, gauge, reconnects, publishFunc, startVars, runCtx, managerVars, held,
                 stopResult>>

\* ... and the deferred stopRun after it.
StopRelease(t) ==
  /\ stopPc[t] = "releasing"
  /\ runCtx' = [runCtx EXCEPT ![held[t]] = TRUE]
  /\ stopPc' = [stopPc EXCEPT ![t] = "returned"]
  /\ UNCHANGED <<clientVars, startVars, managerVars, held, stopResult>>

StopStep(t) ==
  \/ StopNothing(t) \/ StopDisconnect(t) \/ StopDisconnected(t) \/ StopExpired(t)
  \/ StopClear(t) \/ StopRelease(t)

-----------------------------------------------------------------------------

Next ==
  \/ \E s \in Starts : CancelCaller(s) \/ StartStep(s) \/ ManagerStep(s) \/ NetworkStep(s)
  \/ \E t \in Stops : StopStep(t)

Spec == Init /\ [][Next]_vars

(* A host that does not call Start while another call of it is in progress: it *)
(* may still start again what failed to start.                                 *)
InStart(s) == startPc[s] \in {"admitted", "waiting"}

StartsAlone(s) == StartAdmitted(s) /\ \A r \in Starts \ {s} : ~InStart(r)

SequentialNext ==
  \/ \E s \in Starts :
       \/ CancelCaller(s) \/ ManagerStep(s) \/ NetworkStep(s)
       \/ StartsAlone(s) \/ StartRefused(s) \/ StartConnect(s) \/ StartConnectError(s)
       \/ StartReady(s) \/ StartAbandoned(s)
  \/ \E t \in Stops : StopStep(t)

SequentialSpec == Init /\ [][SequentialNext]_vars

\* Mutant: the seconds in eight bits.
KeepAliveSecsByte == IF KeepAlive > 0 THEN (KeepAlive \div 1000) % 2^8 ELSE 0

\* keepAliveSecs, a uint16 of whole seconds; 0 sends no PINGREQ.
KeepAliveSecs == IF KeepAlive > 0 THEN (KeepAlive \div 1000) % 2^16 ELSE 0

\* A PINGREQ that fails or is not answered tells that the connection is lost;
\* with no keep-alive, and nothing to send, nothing need ever tell.
PingFails(s) == KeepAliveSecs > 0 /\ ConnectionDropped(s)

(* Goroutines that can move do move; an attempt to connect that is not hung    *)
(* has an outcome, though nothing says that one ever succeeds.  Whether the    *)
(* caller cancels, a link is lost, or Stop's context expires is left open.     *)
Fairness ==
  /\ \A s \in Starts :
       WF_vars(ManagerStep(s) \/ DialOK(s) \/ OnConnectError(s) \/ PingFails(s))
  /\ \A s \in Starts : WF_vars(StartReady(s) \/ StartAbandoned(s))
  /\ \A t \in Stops : WF_vars(StopDisconnected(t)) /\ WF_vars(StopClear(t) \/ StopRelease(t))

FairSpec == Spec /\ Fairness

-----------------------------------------------------------------------------
(* Safety                                                                  *)

\* The main loop of s runs and nothing tells it to end.
Live(s) == mgrPc[s] \notin {"none", "done"} /\ ~Cancelled(s)

\* The limiter (client.go:40-100) gives up in an outage of exactly
\* MaxReconnectAttempts failures in a row, no sooner and no later, and never
\* before the first connection.
GivesUpExactlyAtLimit ==
  \A s \in Starts :
    /\ gaveUp[s] => everUp[s] /\ outage[s] = MaxReconnectAttempts
    /\ everUp[s] /\ MaxReconnectAttempts > 0 => outage[s] <= MaxReconnectAttempts

\* IsConnected is false "during an outage autopaho's reconnect loop has not yet
\* repaired" (client.go:144-147), with the loop of any started manager dialling.
OutageReported == \A s \in Starts : mgrPc[s] \in {"dialing", "hung"} => ~connected

\* A Stop that returned nil really stopped the client: its main loop has ended,
\* and no callback that was running meanwhile has set connected again
\* (client.go:235-241).
StopIsFinal ==
  \A t \in Stops :
    stopPc[t] = "returned" /\ stopResult[t] = "nil" /\ held[t] # None =>
      mgrPc[held[t]] = "done" /\ ~connected

\* When Start returns nil every publisher publishes through its manager
\* (doc.go:19, "Publishers receive their publish function during Start").
StartedWired ==
  \A s \in Starts : startPc[s] = "started" => \A p \in Publishers : publishFunc[p] = s

\* startReady is closed once: a second close, on a reconnect, would panic
\* (client.go:335-340).
NoDoubleClose == \A s \in Starts : mgrPc[s] = "wire" => ~startReady[s]

\* While cm.Disconnect sends its DISCONNECT nobody cancels runCtx under it, but
\* the limiter or another Stop that ran out of time (client.go:224-229).
DisconnectNotUndercut ==
  \A t \in Stops :
    stopPc[t] = "disconnecting" /\ mgrPc[held[t]] # "done" /\ runCtx[held[t]] =>
      \/ gaveUp[held[t]]
      \/ \E u \in Stops : held[u] = held[t] /\ stopResult[u] = "expired"

\* A main loop that goes on is within reach: Stop finds it in cm, or its Start
\* has yet to return (client.go:190-211).
NoLeakedManager == \A s \in Starts : Live(s) => cm = s \/ startPc[s] = "waiting"

\* At most one main loop goes on (client.go:17, "manages a single
\* autopaho.ConnectionManager").
SingleManager == \A r, s \in Starts : Live(r) /\ Live(s) => r = s

\* The most steps a main loop that has been told to end can still take.
StepsFrom ==
  [done |-> 0, dialing |-> 1, hung |-> 2, none |-> 2, gaugeDown |-> 2, down |-> 3,
   online |-> 4, wire |-> 5, gaugeUp |-> 6, setUp |-> 7, subscribe |-> 8, up |-> 9]

Unwired(s) ==
  IF mgrPc[s] = "wire" THEN Publishers \ wired[s]
  ELSE IF mgrPc[s] \in {"up", "subscribe", "setUp", "gaugeUp"} THEN Publishers ELSE {}

StepsLeft(s) == StepsFrom[mgrPc[s]] + Cardinality(Unwired(s))

\* The main loop stays where it is, or comes nearer to its end.
Nears(s) == UNCHANGED <<mgrPc[s], wired[s]>> \/ StepsLeft(s)' < StepsLeft(s)

\* A cancellation is never taken back, and from then on every step of the main loop
\* brings it nearer to its end, while nothing that Start, Stop, the caller or the
\* network does takes it further away (client.go:174-180, 235-241).
ShutdownNears == [][\A s \in Starts : Cancelled(s) => Cancelled(s)' /\ Nears(s)]_vars

-----------------------------------------------------------------------------
(* The host's view, for one call of Start                                  *)

TheStart == CHOOSE s \in Starts : TRUE

\* The session Start opened, as the place of its main loop tells it.
SessionOf(s) ==
  CASE mgrPc[s] = "none" -> "none"
    [] mgrPc[s] \in {"dialing", "hung"} -> IF everUp[s] THEN "outage" ELSE "connecting"
    [] mgrPc[s] = "done" -> "ended"
    [] OTHER -> "up"

AnswerOf(s) ==
  CASE startPc[s] = "started" -> "nil"
    [] startPc[s] \in {"failed", "refused"} -> "error"
    [] OTHER -> "pending"

StoppedBy == {t \in Stops : stopPc[t] = "returned" /\ stopResult[t] = "nil" /\ held[t] # None}

Host == INSTANCE ClientStatus
          WITH session <- SessionOf(TheStart), established <- everUp[TheStart],
               isConnected <- connected, started <- AnswerOf(TheStart),
               stopped <- StoppedBy

\* Whatever the main loop, Start and the Stops do between each other's steps,
\* Start, IsConnected and Stop answer as the one session with the broker goes
\* (doc.go:18-28, client.go:136-147).
HostView == Host!Spec

-----------------------------------------------------------------------------
(* What the comments promise and the code does not keep                    *)

\* "IsConnected reports whether the client currently holds a live connection"
\* (client.go:136): a main loop that has ended holds none.
IsConnectedMeansLive == \A s \in Starts : mgrPc[s] = "done" /\ cm = s => ~connected

\* "connected mirrors the connection gauge" (client.go:35), at least once every
\* main loop has ended and every Stop has returned.
GaugeMirrorsConnected ==
  (/\ \A s \in Starts : mgrPc[s] \in {"none", "done"}
   /\ \A t \in Stops : stopPc[t] \in {"idle", "returned"}) => connected = gauge

\* "Start blocks until the first connection is established and all
\* subscriptions are registered" (client.go:20-21), and they are registered
\* again on each reconnection (doc.go:24).
StartedSubscribed ==
  \A s \in Starts :
    startPc[s] = "started" /\ mgrPc[s] = "online" /\ HasSubscriptions => subscribed[s]

-----------------------------------------------------------------------------
(* Liveness                                                                *)

\* Stop returns even when its context never expires: the main loop always comes
\* to the point where it sees the cancellation (client.go:241).
StopReturns == \A t \in Stops : stopPc[t] = "disconnecting" ~> stopPc[t] = "returned"

\* "Cancelling the caller's ctx still works" (client.go:178): it ends the main loop.
CallerCancelShutsDown ==
  \A s \in Starts : callerCtx[s] /\ mgrPc[s] # "none" ~> mgrPc[s] = "done"

\* An outage of a started client ends: IsConnected "recovers on its own"
\* (client.go:144-147), or the limiter or somebody else has ended the client.
OutageEnds ==
  \A s \in Starts : startPc[s] = "started" /\ ~connected ~> connected \/ Cancelled(s)

\* "Giving up is terminal": the connection manager shuts down (config.go:68-70),
\* and never dials again.
GivingUpIsTerminal == \A s \in Starts : gaveUp[s] ~> [](mgrPc[s] = "done")

\* A connection that is lost while the client is idle does not stay "connected":
\* KeepAlive, "converted to seconds" (config.go:25-26), leaves a PINGREQ to find out.
LossReported ==
  \A s \in Starts : mgrPc[s] = "online" /\ ~link[s] ~> ~connected \/ Cancelled(s)
=============================================================================

# A TLA+ model of vinculum-mqtt

vinculum-mqtt connects the vinculum event bus to an MQTT 5 broker. This directory models the
code of the repository in TLA+, checks the models with TLC on small instances, and proves the
properties that matter most with TLAPS for every value of the constants. `PROJECT.json` lists
the components, runs, mutants, findings, hazards and theorems, and maps every definition to the
lines it models.

## The system

| component | state | operations | used by / uses |
|---|---|---|---|
| `client.MQTTClient` (`client.go`) | `cm`, `stopRun`, `connected`, the publishers and subscribers added; per Start: run context, `startReady`, `firstConn`, a limiter | `Start`, `Stop`, `IsConnected`, callbacks `OnConnectionUp`, `OnConnectionDown`, `OnConnectError` | creates an autopaho `ConnectionManager`, whose main loop runs the callbacks; gives publishers their publish function; feeds the router |
| `reconnectLimiter` (`client.go`) | `connectedOnce`, `failures` | `connected`, `failed` | run from the callbacks; cancels the run context |
| `client.subscriberRouter` (`router.go`) | a slice of entries, the map of topic aliases | `AddRecipient`, `RegisterHandler`, `UnregisterHandler`, `Route`, `resetAliases` | paho calls `Route` for each packet; calls `HandleMessage` of each recipient |
| `client.wsConn` (`ws.go`) | `wmu`, `locked`, `buf`, the frame reader `r` | `Lock`, `Write`, `Unlock`, `Read`, `Close`, deadlines | paho writes packets through it from many goroutines |
| `publisher.MQTTPublisher` | configuration, `publishFunc`, counters | `OnEvent`, `SetPublishFunc` | the bus calls `OnEvent` |
| `subscriber.MQTTSubscriber` | configuration, counters | `HandleMessage`, `MQTTPatterns`, `BrokerSubscriptions` | calls the bus's `OnEvent` |
| `carrier.Carrier` | a list of user properties | `Get`, `Set`, `Keys` | the trace propagator of publisher and subscriber |
| builders, configuration, metrics | plain data, counters | | constants of the models |

The client's callbacks run on autopaho's main loop, `Start` and `Stop` on the host's goroutines,
`Route` on paho's, `OnEvent` on the bus's. What is hard about the code is there:

- **Interleaving.** A callback runs statement by statement between the critical sections of
  `Start` and `Stop`; `Start` tests `cm` in one critical section and stores it in another;
  `Route` matches on a snapshot while recipients come and go; recipients of a packet share it,
  and receivers of an event share its map of fields.
- **Failure.** Dials and SUBSCRIBE fail or hang, the link is lost under a callback, contexts are
  cancelled at any point, `Stop` runs out of time; a WebSocket breaks in the middle of a frame;
  any of the four stages of an event may fail.
- **Ordering.** The deferred calls of `Stop`, wiring before `startReady`, aliases reset while
  packets are already routed, the writes into one map of fields.
- **Something must happen.** `Stop` returns, a cancelled client shuts down, a lost connection is
  noticed, an outage ends, giving up is final.

What makes each component correct:

- client: at most one main loop, always within reach of `Stop`; `IsConnected` is false during
  an outage and after `Stop`; publishers are wired when `Start` returns; `Stop` returns.
- limiter: it gives up after exactly the configured failures in a row, and not before the first
  connection.
- router: each registered and matching recipient once; an alias never outlives its connection.
- wsConn: one WebSocket message per MQTT packet; no byte lost between frames; an error of the
  connection reaches paho.
- publisher and subscriber: topic, fields and trace context arrive as sent, the first matching
  mapping or subscription decides, results and counters tell what happened.

## The modules

| module | what it is |
|---|---|
| `ClientStatus` | abstract: what a host that starts a client once is promised |
| `MQTTClient` | `MQTTClient`, `reconnectLimiter` and the client's metrics, with autopaho's main loop; implements `ClientStatus` |
| `MessageRouting` | abstract: a set of recipients, each message once to each that matches, aliases as the broker means them |
| `SubscriberRouter` | `subscriberRouter`; implements `MessageRouting` |
| `ClientRouter` | composes the two: the callbacks drive the router that `Start` has built |
| `PacketChannel` | abstract: packets sent whole, each at most once |
| `WsConn` | `wsConn`; implements `PacketChannel` |
| `UserProperties` | pure: the carrier, the propagator's inject and extract, fields to user properties and back |
| `MQTTPublisher`, `MQTTSubscriber` | `OnEvent` and `HandleMessage`, with what their builders set up |
| `EventPath` | composes the two through a broker |
| `MC...` | finite values of the constants for TLC |
| `...Proofs` | theorems |

A definition written for a mutant has the comment `Mutant:` and stands before the definition it
could replace; no specification uses it.

### MQTTClient and ClientStatus

Everything a call of `Start` allocates is indexed by that call: `startPc`, `runCtx` (whether
`stopRun` was called), `startReady`, `firstConn`, the limiter, and the manager with its main
loop `mgrPc`. The fields of `MQTTClient` are `cm`, `connected` and, in the metrics, `gauge` and
`reconnects`; `publishFunc` is the field of each publisher. Each critical section of `mu` is one
action, and each statement of a callback that touches shared state is one action:

- `Start`: `StartRefused` / `StartAdmitted` (the first section), `StartConnect` /
  `StartConnectError` (`autopaho.NewConnection`), then the select: `StartReady` or
  `StartAbandoned`. The select and the critical section after it are one action, because
  until `cm` is stored nobody else can see that the select was decided.
- `OnConnectionUp`: limiter, SUBSCRIBE, `connected`, gauge and counter, the loop over the
  publishers one at a time, `close(startReady)`. `OnConnectionDown`: `connected`, gauge.
- `OnConnectError` counts and, at the limit, cancels in one action: nothing but this loop reads
  the counter.
- `Stop`: `StopNothing`, `StopDisconnect`, `StopDisconnected` / `StopExpired`, then the two
  deferred calls in the order they run, `StopClear` and `StopRelease`.

Of autopaho the model takes what the client depends on: callbacks run on the main loop; a lost
connection is followed by `OnConnectionDown` and another dial; a cancelled context ends the
loop with a DISCONNECT and without `OnConnectionDown`; `Disconnect` cancels the manager's own
context and waits for the loop or for its caller's context; `Subscribe` is bound to the run
context. A dial that succeeds just as the context is cancelled counts as one that failed or one
that came earlier.

What dials is `Dialer`, the choice `makeAttemptConnection` makes by scheme and `TLSConfig`. All
of its dialers take a context but one: `tls.Dial`, which serves the TLS schemes where no
`TLSConfig` is given, takes none, and such an attempt may hang (`DialHangs`, `DialReturns`) for
as long as the server is silent, whatever is cancelled. `KeepAliveSecs` is the conversion of
`KeepAlive` to whole seconds in sixteen bits. The value that comes out decides whether paho
sends a PINGREQ, and so whether a loss on an idle connection need ever be noticed: less than a
second, or a multiple of 65536 s, becomes 0, and then nothing need.

`everUp` and `outage` are history variables; `outage` counts failed dials as the network sees
them, and is what the limiter's own counter is compared with. `reconnects` is the reconnection
counter as the code has it: one more for every connection that is regained (`client.go:325`).
Its description speaks of "reconnection attempts" (`metrics.go:30`), and attempts that fail are
not counted; its unit, `{reconnection}`, fits what the code does. Since the texts do not agree
on what the counter means, no property is stated of it.

A manager has a single broker URL. With several, a round of attempts goes through them, and
`OnConnectError` is called, and counted, for each one that fails.

`ClientStatus` has the session with the broker (none, connecting, up, outage, ended) and the
answers of `Start`, `IsConnected` and `Stop`; `HostView` is the refinement, for one call of
`Start`. Its content is what `IsConnected` may say when: it turns true only while a connection
is up, no outage begins before it has turned false, and a Stop that answers nil leaves a
session that has ended and `IsConnected` false for good.

### SubscriberRouter

Entries are a slice header (an array and a length) into arrays that are never reclaimed, so an
in-place change would show in the snapshot of a `Route` under way. `Route` is `RouteSnapshot`,
`RouteResolve`, one `RouteDispatch` per entry, `RouteReturn`. paho routes the packets of a
connection one after the other, starting at CONNACK, hence before `OnConnectionUp` resets the
aliases; its workers have ended when `OnConnectionDown` runs. Topic matching comes from another
repository and is the relation `TopicsOf`. `meaning` (what the broker means by an alias),
`forgotten` and `seen` are history. An alias the broker assigns between CONNACK and the reset
is forgotten, and messages that use it are dropped: `AliasKept` is stated for the others, and
the variable `forgotten` names these.

`MessageRouting` is the router without slices, snapshots, positions and tables: recipients come
and go in a set, a message is taken, addressed under what the broker means by its alias or lost
if it names no topic, and given to each recipient that was there and matches, in any order.
`RoutingSpec` is the refinement: the set is read off the array the header shows, and `Due`,
those still to be called, off the rest of the snapshot. Clearing the aliases is a stutter, for
the broker's meaning does not change with it, and so is passing an entry that does not match.

### ClientRouter

`SubscriberRouter` by itself has a connection that comes up and goes down (`phase`) and assumes
when the aliases are reset and when packets come. In `ClientRouter` these are the steps of the
client: `Start` builds the router from its subscribers before it connects (`BuildRouter`),
`OnConnectionUp` and `OnConnectionDown` reset the aliases in the statement in which they also
do what `MQTTClient` says, packets are routed from CONNACK (`RoutePacket`), and the main loop
takes the loss of a connection only when the worker that routes has returned (`Dropped`).
`phase` is what `PhaseOf` reads off the main loop. `RouterSpec` says that this drives the router
exactly as `SubscriberRouter` assumes; since each `Start` builds a router of its own, there is
one call of `Start`.

### WsConn and PacketChannel

Each packet is written by a goroutine of its own in `Chunks[p]` buffers between `Lock` and
`Unlock`, as paho's `packets.WriteTo` does. `Unlock` is two steps: it calls `WriteMessage`,
which is a write to the network under `wmu`, and returns with it. `stalled` is whether the
network takes bytes at present, and `Stall` changes it at any time, for good perhaps. While it
takes none, whoever is inside `WriteMessage` stays there, and every other writer waits for
`wmu`: no write deadline is set, for `SetDeadline` sets that of reads alone (`ws.go:123`) and
nobody in the repository calls `SetWriteDeadline`. `Break` is the moment `WriteMessage` starts
to fail, which frees a writer that waits in it; `Unlock` drops its error. `Read` gives any part of a frame, and its last part with or
before `io.EOF`; `ReadBreak` is the moment the connection can no longer be read, in the middle
of a frame too, `Close` stops both directions whatever is under way, and `ReadError` is the
`Read` that returns the error. `PacketChannel` is what paho expects. The refinement maps `sent`
to the frames and `written` to the packets whose `Unlock` has returned.

### UserProperties, MQTTPublisher, MQTTSubscriber, EventPath

User properties are a sequence in which keys may repeat, fields a function. Ranging over a map
gives any order: `FieldsToUserProperties` is the set of them; assignment to the keys of a map
is `Assign`. A trace context is a span, the `tracestate` of its span context, and a baggage,
each of which may be missing. The propagator sets a header only where it has something to set
(`SetHeader`), so that a field of the event that is called like a header it has nothing for
stays among the user properties, and is extracted on arrival: a `tracestate` of an earlier hop
comes through beside the new `traceparent` where the new span context has no trace state.

A publisher is built from `NewPublisher`'s defaults and the `Options` a builder was given
(`Build`). A call of `OnEvent` is `resolveMapping` (one action per outcome), serialization with
the trace context, and sending, each of which may fail; the bus gives every call a context of
its own (`Ctx`). When the publish function returns nil the broker has the message if its QoS is
1 or 2; with QoS 0 nil follows a write, which over `wsConn` may even have failed, and the broker
may never have it (`Send`). Reading `publishFunc` is one action with
`resolveMapping`, since a publish function is never taken away again. Several calls are under
way at a time and share the map of an event's fields.

`HandleMessage` is one action per outcome: packets are routed one at a time, and it keeps no
state but counters. `Delivery` is the call of the bus it makes: fields, remote context, and the
topic, which a subscription's function may name (`Named`). Wire formats, topic functions, the
publish function and the bus are the host's and may fail at any call.

`EventPath` instantiates both, and adds a broker that may lose, delay, reorder, duplicate and
replay (as retained) what it has; its `Foreign` messages come from other clients and repeat
keys. The publishers' and the subscribers' variables are disjoint and meet in `published`.

## The runs

| run | shows | bounds |
|---|---|---|
| `client_core` | limiter, `connected`, wiring, closing of `startReady`, shutdown and its progress, and the refinement of `ClientStatus`, at every interleaving | 1 Start, 2 Stops, 2 publishers, limit 2, dials that hang |
| `client_retry` | a host that starts again what failed to start has one main loop at most, within reach | 2 Starts one after the other, 1 Stop, limit 1 |
| `client_router` | client and router together: the router is driven as it assumes; `Stop` returns, cancelling shuts down, a loss is reported, an outage ends, giving up is terminal | 1 Start, 1 Stop, 1 recipient, 1 topic, 1 alias, limit 2 |
| `router` | snapshot delivery, aliases, and the refinement of `MessageRouting` | 3 recipients with overlapping patterns, 2 topics, 1 alias |
| `ws` | framing (refinement), the read stream, every writer gets through once the network takes bytes or the connection is gone, every loss reaches the reader | 3 packets of 1, 2 and 3 buffers; 2 frames of up to 2 bytes; the network may stall and go on at any time |
| `event_path` | topic, fields, trace context, mappings, results, counters | 1 event, 2 publishers, 2 calls in 2 contexts, QoS 0 and above, 2 subscribers, 1 foreign message, 2 packets |

and the runs that find a violation, each of one sentence of the code's comments or documents:

| run | the sentence | what TLC finds |
|---|---|---|
| `client_hung` | "Cancelling the caller's ctx still works" (`client.go:178`) | with an mqtts broker and no `TLSConfig` the dial has no context, and a cancelled client waits for a server that keeps silent |
| `client_cancelled` | IsConnected reports "a live connection" (`client.go:136`) | cancelling the context given to `Start` ends the loop without `OnConnectionDown`, and `connected` stays true |
| `client_gauge` | "connected mirrors the connection gauge" (`client.go:35`) | after a graceful `Stop` the gauge stays 1 |
| `client_unsubscribed` | Start blocks until "all subscriptions are registered" (`client.go:20`) | a failed SUBSCRIBE is logged and `Start` returns nil |
| `client_rewired` | publishers receive their publish function during Start (`doc.go:19`) | the callback of a Start that was abandoned overwrites the wiring of the next |
| `event_producer` | consumer spans are "linked to the producer span" (`subscriber.go:163`) | the context is injected before the send span is started |

`client_hung` checks the same `CallerCancelShutsDown` that `client_router` finds to hold where
the dialer takes a context.

Two calls of `Start` at the same time pass the test of `cm` both, and then there are two main
loops: under `Spec` with two Starts `SingleManager` fails. No text of the repository says what
should happen, so this is not a run: `client_retry` has the host of `SequentialSpec`, which
waits for one `Start` before it tries another.

Why the bounds are enough. A manager's callbacks meet at most one `Start` and any number of
`Stop`s; two Stops suffice for one to run out of time under another. Two Starts are the fewest
that can follow each other. Limit 2 has a failure that does not reach it and one that does, and
resets in between; `OutageCap` is above the limit, so that counting too far would show.
`reconnects` counts modulo `CountCap`. The keep-alive of `client_router` is 256 s, the first
value that would be lost in a byte; the values that the conversion does lose, less than a second
and multiples of 65536 s, are in no run, for with them `LossReported` fails, and no text of the
repository is against that. Three recipients have both patterns, one, and the other; one alias
can be assigned, reassigned, forgotten and carried over a connection. In `client_router` one
topic and one recipient do, since what is checked there is how the router is driven; what it
does with several is the matter of `router`. One event suffices for `event_path` because both
publishers share it: one has overlapping mappings, the other none and options on top of its
builder's defaults. Two packets let the
broker duplicate one, replay it, or mix one's with a foreign one, and the instance has a field
named like a trace header, one named like a pattern's field, and a foreign `$retained`. Of the
two contexts one has a span without trace state, so that the event's own `tracestate` field
survives beside it, and a baggage, the other a span with trace state and no baggage. The
builders' options are all three transforms, and a QoS and a retain flag other than the
defaults. `MaxPackets`, `MaxFrames`, `MaxFrame`, `OutageCap` and `CountCap` are the only bounds;
the number of operations is that of the elements of `Starts`, `Stops`, `Calls`, `Packets`,
`Recipients` and `Patterns`.

Deadlock checking is off where the system comes to rest: a stopped client, packets all written,
events all handled. The router never rests, and its run checks for deadlock.

Fairness is weak and per goroutine: the main loop, the select of `Start`, the stages of `Stop`,
a writer, paho's reader, a `Route` under way. The code justifies each: a goroutine that can
move is scheduled, and what a step may have to wait for, another goroutine or the network, is in
its guard. Beyond that:

- An attempt to connect that is not hung has an outcome (autopaho gives each a timeout), but
  need never succeed. Nothing makes a caller cancel, a link break, a broker answer SUBSCRIBE, a
  hung dial return or a Stop time out.
- The handlers and the hooks return. A handler that does not return holds up
  `OnConnectionDown`, and with it everything that waits for the main loop; a hook that calls
  `Stop` waits for itself.
- In `client_router`, `Dropped` is strongly fair: what was received before the connection was
  lost is finite, so that the workers do come to an end, while the model lets the broker go on.
  It is fair only where `KeepAliveSecs` is not 0.
- A writer is one fair action `Lock \/ Write \/ Unlock \/ WriteMessage`, which is enough because
  each writes one packet, so that the lock is free for good once the others are done.
  `WriteMessage` has the network in its guard, and nothing makes the network fair:
  `EveryWriteReturns` has for its premise that the connection breaks or is closed, or that from
  some point on the network takes what is written. Without the premise it fails, as it should:
  one packet waits in `WriteMessage`, and the others for `wmu`.

## The proofs

All theorems hold for every value of the constants under the `ASSUME`s named in the modules.
The safety properties of the passing runs are all proved; their liveness properties are not.

`MQTTClientProofs`:
- `TypeCorrect`.
- `LimiterCorrect` (`GivesUpExactlyAtLimit`). The property alone is not inductive: it speaks of
  the history of the network and not of the counter. `LimiterInv` adds that the counter equals
  the length of the outage except between a connection and the first statement of
  `OnConnectionUp`, that nothing counts before the first connection, and that the counter is
  below the limit until the limiter has cancelled the run context, after which the loop only
  dials or ends.
- `ReadyClosedOnce` (`NoDoubleClose`): `startReady` open as long as `firstConn` is set or the
  callback of the first connection runs.
- `ShutdownAlwaysNears` (`ShutdownNears`), for any number of calls of `Start` and `Stop`: once a
  main loop is cancelled it stays so, and `StepsLeft`, the place of the loop and the publishers
  it has still to wire, falls with each of its steps and rises with nobody else's. With the
  fairness of the loop this is why `StopReturns` and `CallerCancelShutsDown` hold: what is left
  to TLC is that a step which has been enabled long enough is taken, and that it is enabled.
- `GivingUpEnds`: from `LimiterInv`, a main loop that has given up is cancelled and dialling for
  the last time, or done. It is the safety half of `GivingUpIsTerminal`.
- `DisconnectIsClean` (`DisconnectNotUndercut`). `StopInv` follows each Stop through its
  sections: it holds a manager that was started, "nil" means the loop has ended, and a run
  context cancelled under a running loop names who did it.
- `OutageIsReported` and `StopFinal`, from `ASSUME OneStart`, one call of `Start`. With two
  concurrent Starts two loops set the same `connected`, and the properties fail.
  `ConnectedInv`: `connected` implies the loop is past the statement that sets it and before
  the one that clears it, and stays clear once Stop has cleared it for a loop that has ended.

`MQTTClientHostProofs`, under `OneStart`:
- `WiredOnStart` (`StartedWired`) from `HostInv`: the callback wires every publisher before it
  closes `startReady`, and no later callback wires.
- `ImplementsStatus` (`HostView`): each step of the client is one of `ClientStatus` or a
  stutter, given the invariants above.

`MQTTClientRetryProofs`: `NothingLeaks` and `OneManager` for `SequentialSpec`. `RetryInv`: two
calls of `Start` are never in progress together, and whatever a failed `Start` leaves running
has its run context cancelled.

`SubscriberRouterProofs`:
- `AliasNeverStale` and `AliasRemembered`. Between connections the aliases are empty and nothing
  is routed; during one the router knows of an alias what the broker means, or nothing because
  `OnConnectionUp` cleared it, or is about to register it (`AliasInv`).
- `TypeCorrect` and `DeliveredExactlyOnce` (`DeliveredOnce`). `RouterInv`: a recipient is in
  the list, and in a snapshot, at most once; the snapshot a `Route` holds stays what it was when
  the list changes; and the calls made are those of the matching entries passed.
- `ImplementsRouting` (`RoutingSpec`), the refinement of `MessageRouting`, from both invariants
  and `Images`, which says element by element what the two mapped sets stand for. The step that
  needs the most is `UnregisterHandler`: that what it keeps is exactly the others follows from
  `NthExists` and `NthReaches`, that the numbers up to the cardinality of a set of positions
  and its elements correspond. Dispatch needs that nobody is in a snapshot twice.

`ClientRouterProofs`: `CompositionIsClient` (each behaviour of the composition is one of
`MQTTClient`, so its theorems hold there) and `DrivesRouter` (`RouterSpec`: it is one of
`SubscriberRouter` under `PhaseOf`, so those hold too), from `DrivenInvariant`, which relates
what the router has in hand to where the main loop is. `ClientStaysRight` carries the client's
theorems over, `HostView` and `ShutdownNears` among them, and `ClientDelivers` and
`ClientRoutes` those of the router: delivery, aliases, and the refinement of `MessageRouting`.

`WsConnProofs`: `ImplementsChannel`, the refinement. `WriterInv`: the holder of `wmu` is the one
goroutine between `Lock` and `Unlock`, and `buf` is exactly what it has written.
`StreamAlwaysIntact` for frames of any number and size, from `StreamInv`: what Read has
returned, what the reader has left and the frames not yet taken are, one after the other, the
bytes that arrived. `TypeCorrect`. `HolderGoesOn`: whoever holds `wmu` has a buffer to write,
`Unlock` to call or `WriteMessage` to return from, and so waits for the network alone. `LossNears`: once the connection is lost, `Unread`,
the bytes left and twice the frames left, falls with each `Read` that returns no error, and
nothing is returned after the error.

`EventPathProofs`: `MappingAlwaysHonoured`, `TraceAlwaysCarried`, `NoneUnmatched`.
`PublisherInv` follows a call from the mapping it has chosen to the message it has built and to
what the broker has, `SubscriberInv` from the packet to the delivery. They rest on theorems about
the pure operators, for user properties of any length: `SetThenGet` (the carrier answers what was
set and leaves other keys alone), `InjectThenExtract` (what a context has survives whatever
properties it is put among, and what it lacks is read from those properties) and `FieldsReturn` (what is converted to user properties and back
is what it was, but for the trace headers), and on the lemmas `PropertiesCarry` (whatever the
order in which the map was ranged over), `LastValueWins`, `MappingFirst` and `RecipientMatches`.
`FirstPosition`, that a set of positions has a least element, comes from the well-foundedness of
strict inclusion among finite sets.

`EventPathCallProofs`:
- `AlwaysTruthful` (`ResultTruthful`) and `CountersAlwaysAgree` (`CountersAgree`). `CallInv`:
  the broker has nothing of a call that has not returned, one message at most of one that has,
  and what a call sends has the QoS its mapping or the default asks for;
  `CountInv`: each counter is the number of the calls that returned its way, which `OneMore`
  (the cardinality of a set that gains one element) carries over a step.
- `AllCallsCounted` (`EveryCallCounted`), from `HandledInv`.
- `TopicAlwaysFaithful` (`TopicFaithful`), from `TopicInv`: the target of a call has its event's
  topic unless a function took part, and so has its message.
- `FieldsAlwaysFaithful` (`FieldsFaithful`), from `FieldsInv`: no call changes the map of an
  event's fields nor a packet's properties, so that each message, and each packet of it, holds
  what the sender meant. That foreign messages are told apart by their origin is an assumption of
  `EventPath`.
- `TypeCorrect`, from `TypeInv` and the invariants above.

Only model-checked: liveness (`StopReturns`, `CallerCancelShutsDown`, `OutageEnds`,
`GivingUpIsTerminal`, `LossReported`, `EveryWriteReturns`, `LossReachesReader`), which needs
fairness and ENABLED and is out of the prover's reach. Its safety half is proved, as said above,
of all but `OutageEnds` and `LossReported`: a measure that falls with every step of whoever must
get through, or, of `EveryWriteReturns`, that the holder of the lock waits for no other writer.

## Hazards without a property

`PROJECT.json` names each with the reason. `Stop` during `Start` finds nothing to stop, and the
`OnConnect` hook of the first connection runs before the publishers are wired: the code does so,
and no text promises otherwise. A hook that calls `Stop` waits for itself: hooks are assumed to
return. The writes of two packets over a plain TLS connection, which is no `sync.Locker`, may
mix, depending on what `tls.Conn` does between two buffers, which is outside the repository.
Two concurrent `Start`s, the values of `KeepAlive` that become 0, and the reconnection counter are
discussed above. An alias that the broker assigns before `OnConnectionUp` clears the table is
forgotten: `AliasKept` excepts it, and the messages that use it are dropped. The error that
`Unlock` drops is allowed by `ChannelSpec`, which only bounds what may be lost to what is written
after the connection broke. A call of `OnEvent` uses the publish function it has read after
releasing the lock, and may so publish through a manager that was stopped, whose error it returns:
the function a call holds is in no model.

## Not modelled

- The will, the credentials, the session and the other fields of `ClientConfig` that go to
  autopaho unchanged; parsing and upgrading of URLs, headers of the WebSocket handshake.
- Logging, histograms, attribute names, `SetDebugLogger`.
- The shared group, which changes who else the broker serves and not what one client sees.
- `Write` of `wsConn` outside `Lock` and `Unlock`, which no caller makes; `SetWriteDeadline` and
  the addresses, which go to the connection as they are.
- MQTT sessions and QoS acknowledgements (paho's), the inside of `topicmatch` and of wire
  formats, the hooks' own behaviour.

## Where it could go on

1. `EventPath` over a client that loses its connection: publishing while `cm` is being replaced.
2. What a host must do for the liveness of `client_router` when its handlers may block.

------------------------------- MODULE EventPath -------------------------------
(***************************************************************************)
(* The way of an event from the bus to a broker and back: the publishers   *)
(* and the subscribers of one client, and a broker between them.           *)
(*                                                                         *)
(* The broker and the network may lose, delay, reorder and duplicate what  *)
(* was published: the broker may send any message it has, any number of    *)
(* times up to MaxPackets, as a live message or, if it is to be retained,  *)
(* as a retained one.  Foreign messages come from other clients, which may *)
(* repeat a key among the user properties.                                 *)
(***************************************************************************)
EXTENDS UserProperties

CONSTANTS
  Publishers, Events, Calls, Event, Ctx, Topics, TopicsOf, Mappings, Renames,
  Options,                                                             \* publisher
  NumSubscribers, Subscriptions, HandleRetained, VinculumTopics, Extracted,
  Stripped,                                                            \* subscriber
  Foreign,     \* what other clients publish: messages whose publisher is None
  MaxPackets   \* bound: packets the broker sends

ASSUME PathAssumption ==
  /\ Calls \subseteq Publishers \X Events
  /\ IsFiniteSet(Calls)
  /\ None \notin {"nil", "error", "unconnected"}
  /\ Mappings \in
       [Publishers -> Seq([pattern : DOMAIN TopicsOf, func : BOOLEAN, qos : 0..2,
                           retain : BOOLEAN])]
  /\ NumSubscribers \in Nat
  /\ Subscriptions \in
       [1..NumSubscribers -> Seq([pattern : DOMAIN TopicsOf, func : BOOLEAN,
                                  broker : DOMAIN TopicsOf \cup {None}]) \ {<<>>}]
  /\ \A e \in Events :
       /\ Event[e].topic \in Topics
       /\ IsFiniteSet(DOMAIN Event[e].fields)
  /\ Ctx \in [Calls -> [span    : Spans \cup {None},
                         state   : TraceStates \cup {None},
                         baggage : Baggages \cup {None}]]
  /\ Renames \subseteq Topics
  /\ \A p \in Publishers : \A o \in Options[p] :
       /\ DOMAIN o \subseteq {"xform", "qos", "retain"}
       /\ "xform" \in DOMAIN o => o["xform"] \in {"verbatim", "error", "ignore"}
       /\ "qos" \in DOMAIN o => o["qos"] \in 0..2
       /\ "retain" \in DOMAIN o => o["retain"] \in BOOLEAN
  /\ \A pattern \in DOMAIN Stripped : TopicsOf[Stripped[pattern]] = TopicsOf[pattern]
  /\ None \notin Publishers
  /\ \A m \in Foreign :
       m.publisher = None /\ m.props \in Seq({m.props[i] : i \in DOMAIN m.props})
  /\ \A m, n \in Foreign : m.origin = n.origin => m = n
  /\ MaxPackets \in Nat

VARIABLES
  built, publishFunc, fields, pc, target, message, result,
  sentMessages, errorCount, published,                          \* MQTTPublisher
  packet, turn, delivered, received, errors, dropped, handled,  \* MQTTSubscriber
  packets                                  \* how many packets the broker has sent

P == INSTANCE MQTTPublisher
S == INSTANCE MQTTSubscriber

publisherVars == <<built, publishFunc, fields, pc, target, message, result,
                   sentMessages, errorCount, published>>
subscriberVars == <<packet, turn, delivered, received, errors, dropped, handled>>
vars == <<publisherVars, subscriberVars, packets>>

TypeOK == P!TypeOK /\ S!TypeOK /\ packets \in 0..MaxPackets

Init == P!Init /\ S!Init /\ packets = 0

Publish == P!Next /\ UNCHANGED <<subscriberVars, packets>>

\* The broker sends a message one of the client's filters matches.
Receive ==
  /\ packets < MaxPackets
  /\ packets' = packets + 1
  /\ \E m \in published \cup Foreign, replay \in BOOLEAN :
       /\ replay => m.retain
       /\ \E filter \in S!SubscribeOptions : m.topic \in TopicsOf[filter]
       /\ S!Route([origin |-> m.origin, publisher |-> m.publisher, topic |-> m.topic,
                   retain |-> replay, props |-> m.props])
  /\ UNCHANGED publisherVars

Handle == S!Step /\ UNCHANGED <<publisherVars, packets>>

Next == Publish \/ Receive \/ Handle

Spec == Init /\ [][Next]_vars

-----------------------------------------------------------------------------

\* What the sender of a delivered message meant its fields to be: the event's, or
\* of a foreign message, the last property with each key.
Meant(d, key, val) ==
  IF d.publisher # None
  THEN key \in DOMAIN Event[d.origin].fields /\ val = Event[d.origin].fields[key]
  ELSE \E m \in Foreign : \E i \in DOMAIN m.props :
         /\ m.origin = d.origin
         /\ m.props[i].key = key /\ m.props[i].value = val
         /\ \A j \in i + 1 .. Len(m.props) : m.props[j].key # key

\* Subscription i is the first that matches what was delivered.
Decides(d, i) ==
  LET Matching(j) == d.topic \in TopicsOf[Subscriptions[d.subscriber][j].pattern]
  IN  Matching(i) /\ \A j \in 1..(i - 1) : ~Matching(j)

\* A subscriber gives the bus exactly the fields the sender gave, but for trace
\* headers; a field of the deciding pattern takes precedence over one of them, and
\* $retained over both, whoever else handles the same event or the same packet
\* (publisher.go:178-190, subscriber.go:131-147, 266-269).
FieldsFaithful ==
  \A d \in delivered : \E i \in DOMAIN Subscriptions[d.subscriber] :
    LET own == Extracted[Subscriptions[d.subscriber][i].pattern, d.topic]
        Expected(key, val) ==
          IF d.replay /\ key = "$retained" THEN val = "true"
          ELSE IF key \in DOMAIN own THEN val = own[key]
          ELSE key \notin TraceHeaders /\ Meant(d, key, val)
        Sender == IF d.publisher # None THEN DOMAIN Event[d.origin].fields
                  ELSE UNION {{m.props[j].key : j \in DOMAIN m.props} :
                                m \in {f \in Foreign : f.origin = d.origin}}
    IN  /\ Decides(d, i)
        /\ \A key \in DOMAIN d.fields : Expected(key, d.fields[key])
        /\ (Sender \ TraceHeaders) \cup DOMAIN own \subseteq DOMAIN d.fields
        /\ d.replay => "$retained" \in DOMAIN d.fields

\* A mapping with a function takes part in where the publisher sends the event.
Renamed(p, e) ==
  \E i \in DOMAIN Mappings[p] :
    Mappings[p][i].func /\ Event[e].topic \in TopicsOf[Mappings[p][i].pattern]

\* The bus hears of a message under the topic it arrived on, or the one that the
\* function of the deciding subscription names; what is published arrives under its
\* event's topic, through any broker, unless a function of the host's names another
\* (publisher.go:41-43, 213, subscriber.go:25, 44-46, 149-159).
TopicFaithful ==
  \A d \in delivered : \E i \in DOMAIN Subscriptions[d.subscriber] :
    LET func == Subscriptions[d.subscriber][i].func
    IN  /\ Decides(d, i)
        /\ d.name # d.topic => func /\ d.name \in VinculumTopics
        /\ d.publisher # None =>
             \/ d.topic = Event[d.origin].topic
             \/ Renamed(d.publisher, d.origin)

\* Part of a remote context is the caller's, or, where the caller had none, what the
\* event e has in a field with the name of the header, or nothing.
CallersOr(part, callers, e, key) ==
  IF callers # None THEN part = callers
  ELSE part = None \/ (key \in DOMAIN Event[e].fields /\ part = Event[e].fields[key])

\* A consumer is linked to the span of the call of OnEvent that published the message,
\* with its tracestate, and is given its baggage, whatever the event's own fields are
\* called.  Of a part that the call's context lacks nothing is written, and a field of
\* the event with the name of its header comes through: a tracestate of an earlier hop
\* beside the new span (publisher.go:127-131, subscriber.go:113-127).
TraceCarried ==
  \A d \in delivered :
    d.publisher # None =>
      LET ctx == Ctx[<<d.publisher, d.origin>>]
      IN  /\ CallersOr(d.remote.span, ctx.span, d.origin, "traceparent")
          /\ CallersOr(d.remote.state, Vendored(ctx), d.origin, "tracestate")
          /\ CallersOr(d.remote.baggage, ctx.baggage, d.origin, "baggage")

MappingHonoured == P!MappingHonoured

ResultTruthful == P!ResultTruthful

CountersAgree == P!CountersAgree

NeverUnmatched == S!NeverUnmatched

EveryCallCounted == S!EveryCallCounted

-----------------------------------------------------------------------------

\* The span that covers the call of the publish function (publisher.go:136-151).
SendSpan(p, e) == <<"send", p, e>>

\* "Consumer spans should be new trace roots linked to the producer span"
\* (subscriber.go:163-164), and a publisher's send span is a producer span
\* (publisher.go:142-143).
LinkedToProducer ==
  \A d \in delivered :
    d.publisher # None /\ d.remote.span # None =>
      d.remote.span = SendSpan(d.publisher, d.origin)
=============================================================================

---------------------------- MODULE MQTTSubscriber ----------------------------
(***************************************************************************)
(* subscriber.MQTTSubscriber, and the part of the client that feeds it:    *)
(* the broker subscriptions, and the turn each subscriber has at a packet. *)
(*                                                                         *)
(* Packets are routed one after the other (module SubscriberRouter).  All  *)
(* the recipients of a packet are given the same *paho.Publish, the        *)
(* variable packet.  Decoding, the topic functions and the bus are the     *)
(* host's, and may fail at any call.                                       *)
(***************************************************************************)
EXTENDS UserProperties

CONSTANTS
  NumSubscribers,   \* the subscribers, in the order they were added
  Subscriptions,    \* of each: sequences of [pattern, broker, func]
  HandleRetained,   \* handleRetained of each
  TopicsOf,         \* the topics that topicmatch.Matches accepts for each pattern
  VinculumTopics,   \* the topics a subscription's function may name
  Extracted,        \* the fields topicmatch.Extract finds, by pattern and topic
  Stripped          \* each pattern without the names of its fields

Subscribers == 1..NumSubscribers

VARIABLES
  packet,      \* the paho.Publish being routed, or None
  turn,        \* the subscriber whose turn it is
  delivered,   \* the calls of the bus's OnEvent
  received,    \* the counter messaging.client.consumed.messages
  errors,      \* the counter mqtt.subscriber.errors, by error.type
  dropped,     \* history: the retained messages each has dropped
  handled      \* history: the calls of HandleMessage of each

vars == <<packet, turn, delivered, received, errors, dropped, handled>>

Kinds == {"subscription", "deserialize", "vinculum_topic", "subscriber"}

TypeOK ==
  /\ packet = None \/ packet.retain \in BOOLEAN
  /\ turn \in 1..(NumSubscribers + 1)
  /\ \A d \in delivered : d.subscriber \in Subscribers
  /\ received \in [Subscribers -> Nat]
  /\ errors \in [Subscribers -> [Kinds -> Nat]]
  /\ dropped \in [Subscribers -> Nat]
  /\ handled \in [Subscribers -> Nat]

Init ==
  /\ packet = None
  /\ turn = 1
  /\ delivered = {}
  /\ received = [s \in Subscribers |-> 0]
  /\ errors = [s \in Subscribers |-> [k \in Kinds |-> 0]]
  /\ dropped = [s \in Subscribers |-> 0]
  /\ handled = [s \in Subscribers |-> 0]

-----------------------------------------------------------------------------
(* Configuration                                                           *)

\* WithSubscription computes the broker's filter where none is given.
BrokerTopic(sub) == IF sub.broker = None THEN Stripped[sub.pattern] ELSE sub.broker

\* BrokerSubscriptions; a shared group changes who else the broker serves.
BrokerSubscriptions(s) ==
  {BrokerTopic(Subscriptions[s][i]) : i \in DOMAIN Subscriptions[s]}

\* buildSubscribeOptions: the filters of all subscribers.
SubscribeOptions == UNION {BrokerSubscriptions(s) : s \in Subscribers}

\* Mutant: the broker's filters, which agree with the patterns but for those
\* that were given explicitly.
MQTTPatternsBroker(s) == BrokerSubscriptions(s)

MQTTPatterns(s) ==
  {Subscriptions[s][i].pattern : i \in DOMAIN Subscriptions[s]}

\* The router calls HandleMessage of a recipient one of whose patterns matches.
IsRecipient(s) == \E p \in MQTTPatterns(s) : packet.topic \in TopicsOf[p]

\* findSubscription: the place of the first that matches, 0 if none does.
FindSubscription(s) ==
  SelectInSeq(Subscriptions[s], LAMBDA sub : packet.topic \in TopicsOf[sub.pattern])

-----------------------------------------------------------------------------
(* Routing                                                                 *)

Route(pb) ==
  /\ packet = None
  /\ packet' = pb
  /\ turn' = 1
  /\ UNCHANGED <<delivered, received, errors, dropped, handled>>

RouteReturn ==
  /\ packet # None
  /\ turn > NumSubscribers
  /\ packet' = None
  /\ turn' = 1
  /\ UNCHANGED <<delivered, received, errors, dropped, handled>>

\* The packet is not for the subscriber whose turn it is.
Skip ==
  /\ packet # None
  /\ turn <= NumSubscribers
  /\ ~IsRecipient(turn)
  /\ turn' = turn + 1
  /\ UNCHANGED <<packet, delivered, received, errors, dropped, handled>>

-----------------------------------------------------------------------------
(* HandleMessage                                                           *)

Handling ==
  /\ packet # None
  /\ turn <= NumSubscribers
  /\ IsRecipient(turn)
  /\ turn' = turn + 1
  /\ handled' = [handled EXCEPT ![turn] = @ + 1]

\* A retained message, where they are not handled.
HandleRetainedDropped ==
  /\ Handling
  /\ packet.retain /\ ~HandleRetained[turn]
  /\ dropped' = [dropped EXCEPT ![turn] = @ + 1]
  /\ UNCHANGED <<packet, delivered, received, errors>>

Wanted == packet.retain => HandleRetained[turn]

Retained == IF packet.retain THEN [k \in {"$retained"} |-> "true"] ELSE <<>>

\* The fields map under subscription i: the fields of the pattern are assigned to
\* the map of the user properties, and $retained to that.
Fields(s, i) ==
  LET extracted == Extracted[Subscriptions[s][i].pattern, packet.topic]
  IN  Assign(Assign(UserPropertiesToFields(packet.props), extracted), Retained)

\* What the topic function of subscription i may return; None stands for "", and
\* for the absence of a function.
Named(s, i) == IF Subscriptions[s][i].func THEN VinculumTopics \cup {None} ELSE {None}

\* Mutant: "" returned by the function is not replaced by the packet's topic.
DeliveryUnnamed(s, i, out) ==
  [subscriber |-> s, origin |-> packet.origin, publisher |-> packet.publisher,
   topic |-> packet.topic, replay |-> packet.retain, fields |-> Fields(s, i),
   name |-> IF Subscriptions[s][i].func THEN out ELSE packet.topic,
   remote |-> Extract(packet.props)]

\* The call of the bus's OnEvent, where the function has named the topic out.  Its
\* span is linked to the remote span, with the remote tracestate, and the context has
\* the remote baggage.
Delivery(s, i, out) ==
  [subscriber |-> s, origin |-> packet.origin, publisher |-> packet.publisher,
   topic |-> packet.topic, replay |-> packet.retain, fields |-> Fields(s, i),
   name |-> IF out = None THEN packet.topic ELSE out,
   remote |-> Extract(packet.props)]

\* The bus is called with what the first subscription that matches makes of it.
Deliver(s) ==
  LET i == FindSubscription(s)
  IN  /\ i # 0
      /\ \E out \in Named(s, i) : delivered' = delivered \cup {Delivery(s, i, out)}

\* Mutant: the pattern's fields are put among the packet's user properties.
HandleMessageInPlace ==
  LET pattern == Subscriptions[turn][FindSubscription(turn)].pattern
  IN  /\ Handling
      /\ Wanted
      /\ Deliver(turn)
      /\ received' = [received EXCEPT ![turn] = @ + 1]
      /\ \E extra \in FieldsToUserProperties(Extracted[pattern, packet.topic]) :
           packet' = [packet EXCEPT !.props = @ \o extra]
      /\ UNCHANGED <<errors, dropped>>

\* Everything goes well.
HandleMessage ==
  /\ Handling
  /\ Wanted
  /\ Deliver(turn)
  /\ received' = [received EXCEPT ![turn] = @ + 1]
  /\ UNCHANGED <<packet, errors, dropped>>

\* It fails before the bus is called: no subscription matches, or decoding or
\* the topic function fails.
HandleMessageFailed ==
  LET i == FindSubscription(turn)
  IN  /\ Handling
      /\ Wanted
      /\ \E kind \in Kinds \ {"subscriber"} :
           /\ kind = "subscription" <=> i = 0
           /\ kind = "vinculum_topic" => Subscriptions[turn][i].func
           /\ errors' = [errors EXCEPT ![turn][kind] = @ + 1]
      /\ UNCHANGED <<packet, delivered, received, dropped>>

\* Mutant: the refused message is counted as received, too.
HandleMessageRefusedCountedTwice ==
  /\ Handling
  /\ Wanted
  /\ Deliver(turn)
  /\ errors' = [errors EXCEPT ![turn]["subscriber"] = @ + 1]
  /\ received' = [received EXCEPT ![turn] = @ + 1]
  /\ UNCHANGED <<packet, dropped>>

\* The bus's OnEvent returns an error.
HandleMessageRefused ==
  /\ Handling
  /\ Wanted
  /\ Deliver(turn)
  /\ errors' = [errors EXCEPT ![turn]["subscriber"] = @ + 1]
  /\ UNCHANGED <<packet, received, dropped>>

Step ==
  \/ Skip \/ RouteReturn
  \/ HandleRetainedDropped \/ HandleMessage \/ HandleMessageFailed \/ HandleMessageRefused

-----------------------------------------------------------------------------

\* HandleMessage is never called for a packet in which no subscription will be found,
\* though the router decides by MQTTPatterns and HandleMessage by findSubscription
\* (subscriber.go:218-224).
NeverUnmatched == \A s \in Subscribers : errors[s]["subscription"] = 0

\* Every call of HandleMessage is counted once, as received or as an error, or it
\* has dropped a retained message (subscriber.go:69-71, 75, 92, 153, 193, 196).
EveryCallCounted ==
  \A s \in Subscribers :
    handled[s] = received[s] + dropped[s] + errors[s]["subscription"]
      + errors[s]["deserialize"] + errors[s]["vinculum_topic"] + errors[s]["subscriber"]
=============================================================================

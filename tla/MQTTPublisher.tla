----------------------------- MODULE MQTTPublisher -----------------------------
(***************************************************************************)
(* publisher.MQTTPublisher: the bus calls OnEvent of each publisher for    *)
(* each event, on goroutines of its own, while the client may wire the     *)
(* publishers.  The map of an event's fields is one map, which the bus     *)
(* hands to every publisher.                                               *)
(*                                                                         *)
(* A publish function is abstracted to whether there is one: MQTTClient    *)
(* says whose it is.  The publishers' topic functions, the wire format and *)
(* the publish function are the host's, and may fail at any call.          *)
(***************************************************************************)
EXTENDS UserProperties

CONSTANTS
  Publishers,   \* the publishers
  Events,       \* the events of the bus
  Calls,        \* which publisher the bus hands which event
  Event,        \* what each event is: [topic, fields]
  Ctx,          \* the context each call is given: [span, state, baggage]
  Topics,       \* the topics
  TopicsOf,     \* the topics that topicmatch.Matches accepts for each pattern
  Mappings,     \* topicMappings of each: sequences of [pattern, func, qos, retain]
  Renames,      \* the topics a mapping's function may name
  Options       \* what each builder may be told: functions on some of NewPublisher's fields

VARIABLES
  built,          \* the defaults each publisher was built with: [xform, qos, retain]
  publishFunc,    \* whether each publisher has its publish function
  fields,         \* the map of each event's fields
  pc,             \* progress of each call of OnEvent
  target,         \* what resolveMapping has returned: [topic, qos, retain]
  message,        \* the paho.Publish it has built
  result,         \* what it has returned: "nil", "error" or "unconnected"
  sentMessages,   \* the counter messaging.client.sent.messages
  errorCount,     \* the counter mqtt.publisher.errors
  published       \* the messages the broker has

vars == <<built, publishFunc, fields, pc, target, message, result,
          sentMessages, errorCount, published>>

NewPublisher == [xform |-> "verbatim", qos |-> 1, retain |-> FALSE]

\* WithDefaultTransform, WithDefaultQoS and WithDefaultRetain replace what
\* NewPublisher has set, and Build takes it over.
Build(options) == options @@ NewPublisher

\* Where the event goes when no mapping matches and the default is verbatim.
Verbatim(p, topic) == [topic |-> topic, qos |-> built[p].qos, retain |-> built[p].retain]

TypeOK ==
  /\ \A p \in Publishers : built[p] \in {Build(o) : o \in Options[p]}
  /\ publishFunc \in [Publishers -> BOOLEAN]
  /\ DOMAIN fields = Events
  /\ pc \in [Calls -> {"idle", "serialize", "send", "returned"}]
  /\ \A c \in Calls : target[c] = None \/ target[c].topic \in Topics
  /\ \A c \in Calls : pc[c] = "send" => message[c].topic \in Topics
  /\ result \in [Calls -> {None, "nil", "error", "unconnected"}]
  /\ sentMessages \in [Publishers -> Nat]
  /\ errorCount \in [Publishers -> Nat]

Init ==
  /\ built \in {b \in [Publishers -> {Build(o) : o \in UNION {Options[p] : p \in Publishers}}] :
                  \A p \in Publishers : b[p] \in {Build(o) : o \in Options[p]}}
  /\ publishFunc = [p \in Publishers |-> FALSE]
  /\ fields = [e \in Events |-> Event[e].fields]
  /\ pc = [c \in Calls |-> "idle"]
  /\ target = [c \in Calls |-> None]
  /\ message = [c \in Calls |-> None]
  /\ result = [c \in Calls |-> None]
  /\ sentMessages = [p \in Publishers |-> 0]
  /\ errorCount = [p \in Publishers |-> 0]
  /\ published = {}

-----------------------------------------------------------------------------

SetPublishFunc(p) ==
  /\ ~publishFunc[p]
  /\ publishFunc' = [publishFunc EXCEPT ![p] = TRUE]
  /\ UNCHANGED <<built, fields, pc, target, message, result, sentMessages,
                 errorCount, published>>

\* A call returns, and its local variables are gone.
Return(c, res) ==
  /\ pc' = [pc EXCEPT ![c] = "returned"]
  /\ target' = [target EXCEPT ![c] = None]
  /\ message' = [message EXCEPT ![c] = None]
  /\ result' = [result EXCEPT ![c] = res]

\* Mutant: the error is not counted.
FailUncounted(p, e) ==
  /\ Return(<<p, e>>, "error")
  /\ UNCHANGED <<built, publishFunc, fields, sentMessages, errorCount>>

\* A call returns an error and counts it.
Fail(p, e) ==
  /\ Return(<<p, e>>, "error")
  /\ errorCount' = [errorCount EXCEPT ![p] = @ + 1]
  /\ UNCHANGED <<built, publishFunc, fields, sentMessages>>

\* OnEvent reads publishFunc under the lock and finds none.
OnEventUnconnected(p, e) ==
  /\ pc[<<p, e>>] = "idle"
  /\ ~publishFunc[p]
  /\ Return(<<p, e>>, "unconnected")
  /\ UNCHANGED <<built, publishFunc, fields, sentMessages, errorCount, published>>

\* OnEvent reads publishFunc under the lock and goes on, at once, to resolveMapping:
\* nothing takes a publish function away again.
OnEvent(p, e) == pc[<<p, e>>] = "idle" /\ publishFunc[p]

-----------------------------------------------------------------------------
(* OnEvent as far as resolveMapping                                        *)

\* Mutant: the last mapping that matches.
LastMapping(p, topic) ==
  SelectLastInSeq(Mappings[p], LAMBDA m : topic \in TopicsOf[m.pattern])

\* The place of the first mapping that matches, 0 if none does.
Mapping(p, topic) ==
  SelectInSeq(Mappings[p], LAMBDA m : topic \in TopicsOf[m.pattern])

\* Mutant: "" returned by the function is not replaced by the event's topic.
ResolveMappingEmpty(p, e) ==
  LET i == Mapping(p, Event[e].topic)
  IN  /\ OnEvent(p, e)
      /\ i # 0
      /\ \E out \in Renames \cup {None} :
           target' = [target EXCEPT ![<<p, e>>] =
             [topic |-> out, qos |-> Mappings[p][i].qos, retain |-> Mappings[p][i].retain]]
      /\ pc' = [pc EXCEPT ![<<p, e>>] = "serialize"]
      /\ UNCHANGED <<built, publishFunc, fields, message, result,
                     sentMessages, errorCount, published>>

\* A mapping matches.  Its function names a topic, or returns "" (None), which
\* stands for the event's topic like the absence of a function.
ResolveMapping(p, e) ==
  LET i == Mapping(p, Event[e].topic)
  IN  /\ OnEvent(p, e)
      /\ i # 0
      /\ \E out \in Renames \cup {None} :
           /\ Mappings[p][i].func \/ out = None
           /\ target' = [target EXCEPT ![<<p, e>>] =
                [topic  |-> IF out = None THEN Event[e].topic ELSE out,
                 qos    |-> Mappings[p][i].qos,
                 retain |-> Mappings[p][i].retain]]
      /\ pc' = [pc EXCEPT ![<<p, e>>] = "serialize"]
      /\ UNCHANGED <<built, publishFunc, fields, message, result,
                     sentMessages, errorCount, published>>

\* The mapping's function fails, or there is no mapping and the default is error.
ResolveFailed(p, e) ==
  LET i == Mapping(p, Event[e].topic)
  IN  /\ OnEvent(p, e)
      /\ IF i = 0 THEN built[p].xform = "error" ELSE Mappings[p][i].func
      /\ Fail(p, e)
      /\ UNCHANGED published

ResolveVerbatim(p, e) ==
  /\ OnEvent(p, e)
  /\ Mapping(p, Event[e].topic) = 0
  /\ built[p].xform = "verbatim"
  /\ target' = [target EXCEPT ![<<p, e>>] = Verbatim(p, Event[e].topic)]
  /\ pc' = [pc EXCEPT ![<<p, e>>] = "serialize"]
  /\ UNCHANGED <<built, publishFunc, fields, message, result, sentMessages,
                 errorCount, published>>

ResolveIgnored(p, e) ==
  /\ OnEvent(p, e)
  /\ Mapping(p, Event[e].topic) = 0
  /\ built[p].xform = "ignore"
  /\ Return(<<p, e>>, "nil")
  /\ UNCHANGED <<built, publishFunc, fields, sentMessages, errorCount, published>>

-----------------------------------------------------------------------------

SerializeFailed(p, e) ==
  /\ pc[<<p, e>>] = "serialize"
  /\ Fail(p, e)
  /\ UNCHANGED published

\* The payload is serialized; the fields and the trace context of the caller,
\* ahead of the send span, become the user properties.
Serialize(p, e) ==
  /\ pc[<<p, e>>] = "serialize"
  /\ \E props \in FieldsToUserProperties(fields[e]) :
       message' = [message EXCEPT ![<<p, e>>] =
         [origin |-> e, publisher |-> p,
          topic |-> target[<<p, e>>].topic, qos |-> target[<<p, e>>].qos,
          retain |-> target[<<p, e>>].retain,
          props |-> Inject(Ctx[<<p, e>>], props)]]
  /\ pc' = [pc EXCEPT ![<<p, e>>] = "send"]
  /\ UNCHANGED <<built, publishFunc, fields, target, result, sentMessages,
                 errorCount, published>>

\* The publish function returns no error.  With QoS 0 that says no more than that the
\* message was written, and wsConn says as much of one that was not: the broker may
\* never have it.  With QoS 1 and 2 the broker has acknowledged it.
Send(p, e) ==
  /\ pc[<<p, e>>] = "send"
  /\ \/ published' = published \cup {message[<<p, e>>]}
     \/ message[<<p, e>>].qos = 0 /\ UNCHANGED published
  /\ sentMessages' = [sentMessages EXCEPT ![p] = @ + 1]
  /\ Return(<<p, e>>, "nil")
  /\ UNCHANGED <<built, publishFunc, fields, errorCount>>

\* Mutant: the error is counted and not returned.
SendFailedQuietly(p, e) ==
  /\ pc[<<p, e>>] = "send"
  /\ Return(<<p, e>>, "nil")
  /\ errorCount' = [errorCount EXCEPT ![p] = @ + 1]
  /\ UNCHANGED <<built, publishFunc, fields, sentMessages, published>>

\* It returns an error; the broker may have the message all the same.
SendFailed(p, e) ==
  /\ pc[<<p, e>>] = "send"
  /\ published' \in {published, published \cup {message[<<p, e>>]}}
  /\ Fail(p, e)

Step(p, e) ==
  \/ OnEventUnconnected(p, e)
  \/ ResolveMapping(p, e) \/ ResolveFailed(p, e)
  \/ ResolveVerbatim(p, e) \/ ResolveIgnored(p, e)
  \/ SerializeFailed(p, e) \/ Serialize(p, e)
  \/ Send(p, e) \/ SendFailed(p, e)

Next ==
  \/ \E p \in Publishers : SetPublishFunc(p)
  \/ \E c \in Calls : Step(c[1], c[2])

Spec == Init /\ [][Next]_vars

-----------------------------------------------------------------------------

\* What the broker has was published as the first matching mapping says, or as
\* the default where none matches (doc.go:27-31, "the first match wins").
MappingHonoured ==
  \A m \in published :
    LET maps == Mappings[m.publisher]
        Matching(i) == Event[m.origin].topic \in TopicsOf[maps[i].pattern]
    IN  \/ \E i \in DOMAIN maps :
             /\ Matching(i)
             /\ \A j \in 1..(i - 1) : ~Matching(j)
             /\ m.qos = maps[i].qos /\ m.retain = maps[i].retain
             /\ maps[i].func \/ m.topic = Event[m.origin].topic
        \/ /\ \A i \in DOMAIN maps : ~Matching(i)
           /\ built[m.publisher].xform = "verbatim"
           /\ m.qos = built[m.publisher].qos /\ m.retain = built[m.publisher].retain
           /\ m.topic = Event[m.origin].topic

\* The messages of a call that the broker has.
PublishedBy(p, e) == {m \in published : m.publisher = p /\ m.origin = e}

Ignored(p, e) == Mapping(p, Event[e].topic) = 0 /\ built[p].xform = "ignore"

\* The QoS of what a call sends.
QoSOf(p, e) ==
  LET i == Mapping(p, Event[e].topic)
  IN  IF i = 0 THEN built[p].qos ELSE Mappings[p][i].qos

\* After nil the broker has the message, if its QoS asks for an acknowledgement and it
\* was not to be ignored; with QoS 0 nil is no promise.  A call sends at most one
\* message, and none if it was refused or the event ignored
\* (publisher.go:92-112, 154-166).
ResultTruthful ==
  \A c \in Calls :
    LET has == PublishedBy(c[1], c[2])
        ignored == Ignored(c[1], c[2])
    IN  /\ \A m, n \in has : m = n
        /\ result[c] = "nil" /\ QoSOf(c[1], c[2]) # 0 => ignored \/ has # {}
        /\ result[c] = "unconnected" \/ ignored => has = {}

\* The counters agree with what the calls have returned, whichever way each of
\* them ended (publisher.go:107, 116, 160, 164).
CountersAgree ==
  \A p \in Publishers :
    LET calls == {c \in Calls : c[1] = p}
    IN  /\ errorCount[p] = Cardinality({c \in calls : result[c] = "error"})
        /\ sentMessages[p] =
             Cardinality({c \in calls : result[c] = "nil" /\ ~Ignored(p, c[2])})
=============================================================================

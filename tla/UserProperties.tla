---------------------------- MODULE UserProperties ----------------------------
(***************************************************************************)
(* MQTT 5 user properties, the carrier the propagator reads and writes     *)
(* them through, and their conversion from and to the fields of an event.  *)
(*                                                                         *)
(* User properties are a sequence of keys and values in which a key may    *)
(* occur more than once; the fields of an event are a function.  A nil map *)
(* and an empty one are the same function.                                 *)
(***************************************************************************)
EXTENDS Integers, SequencesExt

CONSTANTS
  Spans,         \* the spans a traceparent header may stand for
  TraceStates,   \* the vendor entries a tracestate header may stand for
  Baggages,      \* the baggage a baggage header may stand for
  None           \* no span, no entries, no baggage, no value

TraceHeaders == {"traceparent", "tracestate", "baggage"}

Property(key, val) == [key |-> key, value |-> val]

-----------------------------------------------------------------------------
(* carrier.Carrier                                                         *)

\* The place of the first property with the key, 0 if there is none.
Place(props, key) == SelectInSeq(props, LAMBDA p : p.key = key)

Get(props, key) ==
  IF Place(props, key) = 0 THEN None ELSE props[Place(props, key)].value

\* Mutant: a property that exists is not replaced.
SetAppending(props, key, val) == Append(props, Property(key, val))

Set(props, key, val) ==
  IF Place(props, key) = 0
  THEN Append(props, Property(key, val))
  ELSE [props EXCEPT ![Place(props, key)] = Property(key, val)]

-----------------------------------------------------------------------------
(* The propagator.  A context is [span, state, baggage], where state is    *)
(* what the span context has of tracestate.                                *)

\* A header is written where there is something to write.
SetHeader(props, key, val) == IF val = None THEN props ELSE Set(props, key, val)

\* What Inject writes of tracestate: nothing without a span.
Vendored(ctx) == IF ctx.span = None THEN None ELSE ctx.state

\* A header with nothing to write leaves a property of its name where it is.
Inject(ctx, props) ==
  LET stated == SetHeader(props, "tracestate", Vendored(ctx))
      traced == SetHeader(stated, "traceparent", ctx.span)
  IN  SetHeader(traced, "baggage", ctx.baggage)

\* What does not parse as a header is nothing.
Parsed(props, key, Values) ==
  IF Get(props, key) \in Values THEN Get(props, key) ELSE None

\* tracestate is read beside any traceparent that parses.
Extract(props) ==
  LET parent == Parsed(props, "traceparent", Spans)
  IN  [span    |-> parent,
       state   |-> IF parent = None THEN None ELSE Parsed(props, "tracestate", TraceStates),
       baggage |-> Parsed(props, "baggage", Baggages)]

-----------------------------------------------------------------------------
(* Fields                                                                  *)

\* fieldsToUserProperties ranges over a map: the order is any.
FieldsToUserProperties(fields) ==
  {[i \in DOMAIN keys |-> Property(keys[i], fields[keys[i]])] :
     keys \in SetToSeqs(DOMAIN fields)}

\* The map in which the values of more have been assigned to their keys.
Assign(fields, more) ==
  [k \in DOMAIN fields \cup DOMAIN more |->
     IF k \in DOMAIN more THEN more[k] ELSE fields[k]]

\* userPropertiesToFields: the last of equal keys wins, trace headers are left out.
UserPropertiesToFields(props) ==
  [k \in {props[i].key : i \in DOMAIN props} \ TraceHeaders |->
     props[SelectLastInSeq(props, LAMBDA p : p.key = k)].value]
=============================================================================

---------------------------- MODULE EventPathProofs ----------------------------
(* Theorems about EventPath, for every configuration of publishers and     *)
(* subscribers, every way topics match and any number of packets.          *)
EXTENDS EventPath, FiniteSetTheorems, TLAPS

(* What Extract makes of the properties is the context of the call c, or   *)
(* where that has nothing, what its event has under the header's name.     *)
Carries(c, props) ==
  /\ CallersOr(Extract(props).span, Ctx[c].span, c[2], "traceparent")
  /\ CallersOr(Extract(props).state, Vendored(Ctx[c]), c[2], "tracestate")
  /\ CallersOr(Extract(props).baggage, Ctx[c].baggage, c[2], "baggage")

(* A set of positions that is not empty has a first.                       *)
LEMMA FirstPosition ==
  ASSUME NEW T \in SUBSET Nat, T # {}
  PROVE  Min(T) \in T /\ \A y \in T : Min(T) <= y
<1> DEFINE Below == {0..x : x \in T}
<1>1. Below # {} /\ Below \subseteq FiniteSubsetsOf(Nat)
  <2>1. ASSUME NEW x \in T PROVE 0..x \in SUBSET Nat /\ IsFiniteSet(0..x)
    BY FS_Interval
  <2>. QED
    BY <2>1 DEF FiniteSubsetsOf
<1>2. PICK m \in Below :
        \A b \in Below : <<b, m>> \notin StrictSubsetOrdering(Nat)
  <2>. HIDE DEF Below
  <2>. QED
    BY <1>1, FS_StrictSubsetOrderingWellFounded, WFMin
<1>3. PICK x \in T : m = 0..x
  OBVIOUS
<1>4. ASSUME NEW y \in T, y < x PROVE FALSE
  <2>1. 0..y \in Below /\ 0..y \subseteq 0..x /\ 0..y # 0..x
    BY <1>4
  <2>2. <<0..y, 0..x>> \in StrictSubsetOrdering(Nat)
    BY <2>1 DEF StrictSubsetOrdering
  <2>. QED
    BY <1>2, <1>3, <2>1, <2>2
<1>5. \E z \in T : \A y \in T : z <= y
  BY <1>4
<1>. QED
  BY <1>5 DEF Min

(* Place finds the first property with the key.                            *)
LEMMA PlaceOf ==
  ASSUME NEW Props, NEW props \in Seq(Props), NEW key
  PROVE  LET i == Place(props, key)
         IN  \/ i = 0 /\ \A j \in 1..Len(props) : props[j].key # key
             \/ /\ i \in 1..Len(props)
                /\ props[i].key = key
                /\ \A j \in 1..(i - 1) : props[j].key # key
<1> DEFINE I == {i \in 1..Len(props) : props[i].key = key}
<1>1. Place(props, key) = IF I # {} THEN Min(I) ELSE 0
  BY DEF Place, SelectInSeq
<1>2. I \in SUBSET Nat
  OBVIOUS
<1>3. CASE I = {}
  BY <1>1, <1>3
<1>4. CASE I # {}
  <2>1. Min(I) \in I /\ \A y \in I : Min(I) <= y
    <3>. HIDE DEF I
    <3>. QED
      BY <1>2, <1>4, FirstPosition
  <2>2. \A j \in 1..(Min(I) - 1) : props[j].key # key
    BY <2>1
  <2>. QED
    BY <1>1, <1>4, <2>1, <2>2
<1>. QED
  BY <1>3, <1>4

(* carrier.Set replaces or adds one property: Get then answers the value   *)
(* under its key, and what it answered before under any other.             *)
THEOREM SetThenGet ==
  ASSUME NEW Props, NEW props \in Seq(Props),
         NEW key, NEW val, [key |-> key, value |-> val] \in Props
  PROVE  /\ Set(props, key, val) \in Seq(Props)
         /\ Get(Set(props, key, val), key) = val
         /\ \A other : other # key =>
              Get(Set(props, key, val), other) = Get(props, other)
<1> DEFINE i == Place(props, key)
           new == Set(props, key, val)
           n == IF i = 0 THEN Len(props) + 1 ELSE i
<1>1. /\ i = 0 => \A j \in 1..Len(props) : props[j].key # key
      /\ i # 0 =>
           /\ i \in 1..Len(props)
           /\ props[i].key = key
           /\ \A j \in 1..(i - 1) : props[j].key # key
  <2>. HIDE DEF i
  <2>1. \/ i = 0 /\ \A j \in 1..Len(props) : props[j].key # key
        \/ /\ i \in 1..Len(props) /\ props[i].key = key
           /\ \A j \in 1..(i - 1) : props[j].key # key
    BY PlaceOf DEF i
  <2>. QED
    BY <2>1
<1>2. /\ new \in Seq(Props)
      /\ n \in 1..Len(new)
      /\ new[n] = [key |-> key, value |-> val]
      /\ \A j \in 1..(n - 1) : new[j].key # key
      /\ Len(new) = IF i = 0 THEN n ELSE Len(props)
      /\ \A j \in 1..Len(new) : j # n => j \in 1..Len(props) /\ new[j] = props[j]
      /\ i # 0 => n = i
      /\ i = 0 => n = Len(props) + 1
  <2>1. CASE i = 0
    <3>1. new = Append(props, [key |-> key, value |-> val])
      BY <2>1 DEF Set, Property
    <3>. HIDE DEF i, new
    <3>. QED
      BY <1>1, <2>1, <3>1
  <2>2. CASE i # 0
    <3>1. new = [props EXCEPT ![i] = [key |-> key, value |-> val]]
      BY <2>2 DEF Set, Property
    <3>. HIDE DEF i, new
    <3>. QED
      BY <1>1, <2>2, <3>1
  <2>. QED
    BY <2>1, <2>2
<1>3. Get(new, key) = val
  <2> DEFINE m == Place(new, key)
  <2>. HIDE DEF new, n, i
  <2>1. \/ m = 0 /\ \A j \in 1..Len(new) : new[j].key # key
        \/ m \in 1..Len(new) /\ new[m].key = key /\ \A j \in 1..(m - 1) : new[j].key # key
    BY <1>2, PlaceOf
  <2>2. new[n].key = key /\ new[n].value = val
    BY <1>2
  <2>3. m = n
    <3>. HIDE DEF m
    <3>1. n \in Nat /\ Len(new) \in Nat
      BY <1>2
    <3>2. m # 0
      BY <1>2, <2>1, <2>2
    <3>3. m \in 1..Len(new)
      BY <2>1, <3>2
    <3>4. ~(n < m)
      BY <1>2, <2>1, <2>2, <3>1, <3>2
    <3>5. ~(m < n)
      BY <1>2, <2>1, <3>1, <3>2, <3>3
    <3>. QED
      BY <3>1, <3>3, <3>4, <3>5
  <2>. QED
    BY <1>2, <2>2, <2>3 DEF Get
<1>4. ASSUME NEW other, other # key PROVE Get(new, other) = Get(props, other)
  <2> DEFINE m == Place(new, other)
             k == Place(props, other)
  <2>. HIDE DEF new, n, i
  <2>1. \/ m = 0 /\ \A j \in 1..Len(new) : new[j].key # other
        \/ /\ m \in 1..Len(new) /\ new[m].key = other
           /\ \A j \in 1..(m - 1) : new[j].key # other
    BY <1>2, PlaceOf
  <2>2. \/ k = 0 /\ \A j \in 1..Len(props) : props[j].key # other
        \/ /\ k \in 1..Len(props) /\ props[k].key = other
           /\ \A j \in 1..(k - 1) : props[j].key # other
    BY PlaceOf
  <2>3. /\ new[n].key # other
        /\ n \in Nat /\ Len(new) \in Nat /\ Len(props) \in Nat
        /\ Len(props) <= Len(new)
        /\ i # 0 => props[n].key # other
    BY <1>1, <1>2, <1>4
  <2>4. \A j \in 1..Len(new) :
          new[j].key = other <=> j \in 1..Len(props) /\ props[j].key = other
    <3>. TAKE j \in 1..Len(new)
    <3>1. CASE j = n
      BY <1>2, <2>3, <3>1
    <3>2. CASE j # n
      BY <1>2, <3>2
    <3>. QED
      BY <3>1, <3>2
  <2>5. m = k
    <3>. HIDE DEF m, k
    <3>1. CASE k = 0
      BY <2>1, <2>2, <2>4, <3>1
    <3>2. CASE k # 0
      <4>1. k \in 1..Len(new) /\ new[k].key = other
        BY <2>2, <2>3, <2>4, <3>2
      <4>2. m \in 1..Len(new) /\ ~(k < m)
        BY <2>1, <2>3, <4>1
      <4>3. m \in 1..Len(props) /\ props[m].key = other
        BY <2>1, <2>4, <4>2
      <4>4. ~(m < k)
        BY <2>2, <2>3, <3>2, <4>2, <4>3
      <4>. QED
        BY <2>3, <4>1, <4>2, <4>4
    <3>. QED
      BY <3>1, <3>2
  <2>6. k # 0 => new[k] = props[k]
    BY <1>1, <1>2, <2>2, <2>3
  <2>. QED
    BY <2>5, <2>6 DEF Get
<1>. QED
  BY <1>2, <1>3, <1>4

(* A header with something to write is what Get answers; one with nothing  *)
(* leaves the answer what it was.                                          *)
LEMMA SetHeaderThenGet ==
  ASSUME NEW Props, NEW props \in Seq(Props), NEW key, NEW val,
         val # None => [key |-> key, value |-> val] \in Props
  PROVE  /\ SetHeader(props, key, val) \in Seq(Props)
         /\ Get(SetHeader(props, key, val), key) = IF val = None THEN Get(props, key) ELSE val
         /\ \A other : other # key =>
              Get(SetHeader(props, key, val), other) = Get(props, other)
<1>1. CASE val = None
  BY <1>1 DEF SetHeader
<1>2. CASE val # None
  <2>1. SetHeader(props, key, val) = Set(props, key, val)
    BY <1>2 DEF SetHeader
  <2>2. /\ Set(props, key, val) \in Seq(Props)
        /\ Get(Set(props, key, val), key) = val
        /\ \A other : other # key => Get(Set(props, key, val), other) = Get(props, other)
    BY <1>2, SetThenGet
  <2>. QED
    BY <1>2, <2>1, <2>2, Zenon
<1>. QED
  BY <1>1, <1>2

(* What Get answers after Inject, under the three names of trace headers.  *)
LEMMA InjectThenGet ==
  ASSUME NEW Props, NEW props \in Seq(Props), NEW ctx,
         [key : TraceHeaders, value : Spans \cup TraceStates \cup Baggages] \subseteq Props,
         ctx.span \in Spans \cup {None}, ctx.state \in TraceStates \cup {None},
         ctx.baggage \in Baggages \cup {None}
  PROVE  LET new == Inject(ctx, props)
             Header(key, val) == Get(new, key) = IF val = None THEN Get(props, key) ELSE val
         IN  /\ Header("traceparent", ctx.span)
             /\ Header("tracestate", Vendored(ctx))
             /\ Header("baggage", ctx.baggage)
<1> DEFINE stated == SetHeader(props, "tracestate", Vendored(ctx))
           traced == SetHeader(stated, "traceparent", ctx.span)
           all == SetHeader(traced, "baggage", ctx.baggage)
<1>0. PICK w : w = Vendored(ctx)
  OBVIOUS
<1>1. w \in TraceStates \cup {None}
  BY <1>0 DEF Vendored
<1>2. /\ stated \in Seq(Props)
      /\ Get(stated, "tracestate") = IF w = None THEN Get(props, "tracestate") ELSE w
      /\ \A other : other # "tracestate" => Get(stated, other) = Get(props, other)
  <2>1. w # None => [key |-> "tracestate", value |-> w] \in Props
    BY <1>1 DEF TraceHeaders
  <2>2. stated = SetHeader(props, "tracestate", w)
    BY <1>0
  <2>. HIDE DEF stated
  <2>3. /\ SetHeader(props, "tracestate", w) \in Seq(Props)
        /\ Get(SetHeader(props, "tracestate", w), "tracestate")
             = IF w = None THEN Get(props, "tracestate") ELSE w
        /\ \A other : other # "tracestate" =>
             Get(SetHeader(props, "tracestate", w), other) = Get(props, other)
    BY <2>1, SetHeaderThenGet
  <2>. QED
    BY <2>2, <2>3, Zenon
<1>. HIDE DEF stated
<1>3. /\ traced \in Seq(Props)
      /\ Get(traced, "traceparent")
           = IF ctx.span = None THEN Get(stated, "traceparent") ELSE ctx.span
      /\ \A other : other # "traceparent" => Get(traced, other) = Get(stated, other)
  <2>1. ctx.span # None => [key |-> "traceparent", value |-> ctx.span] \in Props
    BY DEF TraceHeaders
  <2>. QED
    BY <1>2, <2>1, SetHeaderThenGet
<1>. HIDE DEF traced
<1>4. /\ Get(all, "baggage") = IF ctx.baggage = None THEN Get(traced, "baggage") ELSE ctx.baggage
      /\ \A other : other # "baggage" => Get(all, other) = Get(traced, other)
  <2>1. ctx.baggage # None => [key |-> "baggage", value |-> ctx.baggage] \in Props
    BY DEF TraceHeaders
  <2>. QED
    BY <1>3, <2>1, SetHeaderThenGet
<1>5. Inject(ctx, props) = all
  BY DEF Inject, stated, traced
<1>. HIDE DEF all
<1>6. /\ Get(all, "traceparent")
           = IF ctx.span = None THEN Get(props, "traceparent") ELSE ctx.span
      /\ Get(all, "baggage") = IF ctx.baggage = None THEN Get(props, "baggage") ELSE ctx.baggage
      /\ Get(all, "tracestate") = IF w = None THEN Get(props, "tracestate") ELSE w
  <2>1. /\ Get(all, "traceparent") = Get(traced, "traceparent")
        /\ Get(all, "tracestate") = Get(traced, "tracestate")
        /\ Get(traced, "tracestate") = Get(stated, "tracestate")
        /\ Get(traced, "baggage") = Get(stated, "baggage")
        /\ Get(stated, "traceparent") = Get(props, "traceparent")
        /\ Get(stated, "baggage") = Get(props, "baggage")
    BY <1>2, <1>3, <1>4
  <2>. QED
    BY <1>2, <1>3, <1>4, <2>1
<1>. QED
  BY <1>0, <1>5, <1>6

(* What Extract makes of injected properties: span, tracestate and baggage *)
(* of the caller, whatever properties had the headers' names before, and   *)
(* of what the caller had none, those properties: tracestate, too, beside  *)
(* a span it does not belong to.                                           *)
THEOREM InjectThenExtract ==
  ASSUME NEW Props, NEW props \in Seq(Props), NEW ctx,
         [key : TraceHeaders, value : Spans \cup TraceStates \cup Baggages] \subseteq Props,
         ctx.span \in Spans \cup {None}, ctx.state \in TraceStates \cup {None},
         ctx.baggage \in Baggages \cup {None}
  PROVE  LET remote == Extract(Inject(ctx, props))
         IN  /\ remote.span = IF ctx.span # None THEN ctx.span
                              ELSE Parsed(props, "traceparent", Spans)
             /\ remote.state = IF ctx.span # None /\ ctx.state # None THEN ctx.state
                               ELSE IF remote.span = None THEN None
                               ELSE Parsed(props, "tracestate", TraceStates)
             /\ remote.baggage = IF ctx.baggage # None THEN ctx.baggage
                                 ELSE Parsed(props, "baggage", Baggages)
<1>1. PICK new : new = Inject(ctx, props)
  OBVIOUS
<1>2. /\ Get(new, "traceparent")
           = IF ctx.span = None THEN Get(props, "traceparent") ELSE ctx.span
      /\ Get(new, "tracestate")
           = IF Vendored(ctx) = None THEN Get(props, "tracestate") ELSE Vendored(ctx)
      /\ Get(new, "baggage") = IF ctx.baggage = None THEN Get(props, "baggage") ELSE ctx.baggage
  BY <1>1, InjectThenGet
<1>3. PICK remote : remote = Extract(new)
  OBVIOUS
<1>4. /\ remote.span = Parsed(new, "traceparent", Spans)
      /\ remote.state = IF remote.span = None THEN None
                        ELSE Parsed(new, "tracestate", TraceStates)
      /\ remote.baggage = Parsed(new, "baggage", Baggages)
  BY <1>3 DEF Extract
<1>5. remote.span = IF ctx.span # None THEN ctx.span ELSE Parsed(props, "traceparent", Spans)
  BY <1>2, <1>4 DEF Parsed
<1>6. remote.baggage = IF ctx.baggage # None THEN ctx.baggage
                       ELSE Parsed(props, "baggage", Baggages)
  BY <1>2, <1>4 DEF Parsed
<1>7. remote.state = IF ctx.span # None /\ ctx.state # None THEN ctx.state
                     ELSE IF remote.span = None THEN None
                     ELSE Parsed(props, "tracestate", TraceStates)
  BY <1>2, <1>4, <1>5 DEF Parsed, Vendored
<1>. QED
  BY <1>1, <1>3, <1>5, <1>6, <1>7

(* P!Mapping is the first mapping of a publisher that matches a topic.     *)
LEMMA MappingFirst ==
  ASSUME NEW p \in Publishers, NEW topic
  PROVE  LET i == P!Mapping(p, topic)
             Matching(j) == topic \in TopicsOf[Mappings[p][j].pattern]
         IN  \/ i = 0 /\ \A j \in DOMAIN Mappings[p] : ~Matching(j)
             \/ /\ i # 0 /\ i \in DOMAIN Mappings[p]
                /\ Matching(i)
                /\ \A j \in 1..(i - 1) : ~Matching(j)
<1> DEFINE I == {j \in 1..Len(Mappings[p]) : topic \in TopicsOf[Mappings[p][j].pattern]}
<1>1. P!Mapping(p, topic) = IF I # {} THEN Min(I) ELSE 0
  BY DEF P!Mapping, P!SelectInSeq, P!Min, Min
<1>2. I \in SUBSET Nat
  OBVIOUS
<1>3. DOMAIN Mappings[p] = 1..Len(Mappings[p]) /\ Len(Mappings[p]) \in Nat
  BY PathAssumption DEF PathAssumption
<1>4. CASE I = {}
  BY <1>1, <1>3, <1>4
<1>5. CASE I # {}
  <2>1. Min(I) \in I /\ \A y \in I : Min(I) <= y
    <3>. HIDE DEF I
    <3>. QED
      BY <1>2, <1>5, FirstPosition
  <2>2. ASSUME NEW j \in 1..(Min(I) - 1)
        PROVE  topic \notin TopicsOf[Mappings[p][j].pattern]
    <3>1. Min(I) \in 1..Len(Mappings[p])
      BY <2>1
    <3>2. j \in 1..Len(Mappings[p]) /\ ~(Min(I) <= j)
      <4>. HIDE DEF I
      <4>. QED
        BY <1>3, <3>1
    <3>3. j \notin I
      BY <2>1, <3>2, Zenon
    <3>. QED
      BY <3>2, <3>3
  <2>3. /\ Min(I) # 0 /\ Min(I) \in DOMAIN Mappings[p]
        /\ topic \in TopicsOf[Mappings[p][Min(I)].pattern]
    <3>1. PICK i : i = Min(I)
      OBVIOUS
    <3>2. i \in I
      BY <2>1, <3>1, Zenon
    <3>3. i \in 1..Len(Mappings[p]) /\ topic \in TopicsOf[Mappings[p][i].pattern]
      BY <3>2
    <3>. HIDE DEF I
    <3>. QED
      BY <1>3, <3>1, <3>3
  <2>4. P!Mapping(p, topic) = Min(I)
    BY <1>1, <1>5
  <2>. HIDE DEF I
  <2>. QED
    BY <2>2, <2>3, <2>4
<1>. QED
  BY <1>4, <1>5

(* A recipient of a packet has a subscription for it.                      *)
LEMMA RecipientMatches ==
  ASSUME NEW s \in S!Subscribers, S!IsRecipient(s)
  PROVE  S!FindSubscription(s) # 0
<1> DEFINE I == {j \in 1..Len(Subscriptions[s]) :
                   packet.topic \in TopicsOf[Subscriptions[s][j].pattern]}
<1>1. S!FindSubscription(s) = IF I # {} THEN Min(I) ELSE 0
  BY DEF S!FindSubscription, S!SelectInSeq, S!Min, Min
<1>2. I # {}
  <2>1. DOMAIN Subscriptions[s] = 1..Len(Subscriptions[s])
    BY PathAssumption DEF PathAssumption, S!Subscribers
  <2>. QED
    BY <2>1 DEF S!IsRecipient, S!MQTTPatterns
<1>3. I \in SUBSET Nat /\ 0 \notin I
  OBVIOUS
<1>. HIDE DEF I
<1>4. Min(I) \in I
  BY <1>2, <1>3, FirstPosition
<1>. QED
  BY <1>1, <1>2, <1>3, <1>4

(* Among the properties made of the fields F, Get finds those and nothing  *)
(* else.                                                                   *)
LEMMA ConvertedThenGet ==
  ASSUME NEW F, NEW Props, NEW props \in Seq(Props), NEW key,
         \A i \in 1..Len(props) : props[i].key \in DOMAIN F /\ props[i].value = F[props[i].key]
  PROVE  Get(props, key) = None \/ (key \in DOMAIN F /\ Get(props, key) = F[key])
<1> DEFINE i == Place(props, key)
<1>1. \/ i = 0
      \/ i \in 1..Len(props) /\ props[i].key = key
  BY PlaceOf
<1>2. Get(props, key) = IF i = 0 THEN None ELSE props[i].value
  BY DEF Get
<1>. HIDE DEF i
<1>. QED
  BY <1>1, <1>2

(* Whatever the order in which the map of an event's fields is ranged over, *)
(* the user properties made of it carry the caller's context.              *)
LEMMA PropertiesCarry ==
  ASSUME NEW p, NEW e \in Events, <<p, e>> \in Calls,
         NEW props \in P!FieldsToUserProperties(Event[e].fields)
  PROVE  Carries(<<p, e>>, P!Inject(Ctx[<<p, e>>], props))
<1> DEFINE F == Event[e].fields
           Values == {F[k] : k \in DOMAIN F} \cup Spans \cup TraceStates \cup Baggages
           Props == [key : DOMAIN F \cup TraceHeaders, value : Values]
<1>0. PICK ctx : ctx = Ctx[<<p, e>>]
  OBVIOUS
<1>1. /\ ctx.span \in Spans \cup {None} /\ ctx.state \in TraceStates \cup {None}
      /\ ctx.baggage \in Baggages \cup {None} /\ IsFiniteSet(DOMAIN F)
  BY <1>0, PathAssumption DEF PathAssumption
<1>2. PICK n : n \in Nat /\ n = P!Cardinality(DOMAIN F)
  <2>1. P!Cardinality(DOMAIN F) = Cardinality(DOMAIN F)
    BY DEF P!Cardinality, Cardinality
  <2>. QED
    BY <1>1, <2>1, FS_CardinalityType
<1>3. PICK keys \in [1..n -> DOMAIN F] :
        props = [i \in 1..n |-> [key |-> keys[i], value |-> F[keys[i]]]]
  BY <1>2 DEF P!FieldsToUserProperties, P!SetToSeqs, P!Property
<1>4. /\ props \in Seq(Props) /\ Len(props) = n
      /\ \A i \in 1..n : props[i].key \in DOMAIN F /\ props[i].value = F[props[i].key]
  <2>1. ASSUME NEW i \in 1..n
        PROVE  /\ keys[i] \in DOMAIN F /\ F[keys[i]] \in Values
               /\ props[i] = [key |-> keys[i], value |-> F[keys[i]]]
    <3>1. keys[i] \in DOMAIN F
      BY <1>3
    <3>2. F[keys[i]] \in Values
      BY <3>1, Zenon
    <3>3. props[i] = [key |-> keys[i], value |-> F[keys[i]]]
      BY <1>3
    <3>. QED
      BY <3>1, <3>2, <3>3
  <2>. HIDE DEF F, Values
  <2>2. ASSUME NEW i \in 1..n
        PROVE  /\ props[i] \in Props
               /\ props[i].key \in DOMAIN F /\ props[i].value = F[props[i].key]
    <3>1. PICK key, val : key = keys[i] /\ val = F[keys[i]]
      OBVIOUS
    <3>2. key \in DOMAIN F /\ val \in Values /\ val = F[key]
      BY <2>1, <3>1
    <3>3. props[i] = [key |-> key, value |-> val]
      BY <2>1, <3>1
    <3>4. props[i].key = key /\ props[i].value = val
      BY <3>3
    <3>. QED
      BY <3>2, <3>3, <3>4
  <2>. HIDE DEF Props
  <2>3. props \in [1..n -> Props]
    BY <1>3, <2>2
  <2>. QED
    BY <1>2, <2>2, <2>3
<1>5. [key : TraceHeaders, value : Spans \cup TraceStates \cup Baggages] \subseteq Props
  OBVIOUS
<1>. HIDE DEF Props
<1>6. ASSUME NEW key
      PROVE  Get(props, key) = None \/ (key \in DOMAIN F /\ Get(props, key) = F[key])
  <2>1. PICK G : G = F
    OBVIOUS
  <2>2. \A i \in 1..Len(props) : props[i].key \in DOMAIN G /\ props[i].value = G[props[i].key]
    BY <1>4, <2>1
  <2>3. Get(props, key) = None \/ (key \in DOMAIN G /\ Get(props, key) = G[key])
    <3>1. props \in Seq(Props)
      BY <1>4
    <3>. HIDE DEF F
    <3>. QED
      BY <2>2, <3>1, ConvertedThenGet, Zenon
  <2>. QED
    BY <2>1, <2>3
<1>7. PICK remote : remote = Extract(Inject(ctx, props))
  OBVIOUS
<1>8. /\ remote.span = IF ctx.span # None THEN ctx.span ELSE Parsed(props, "traceparent", Spans)
      /\ remote.state = IF ctx.span # None /\ ctx.state # None THEN ctx.state
                        ELSE IF remote.span = None THEN None
                        ELSE Parsed(props, "tracestate", TraceStates)
      /\ remote.baggage = IF ctx.baggage # None THEN ctx.baggage
                          ELSE Parsed(props, "baggage", Baggages)
  BY <1>1, <1>4, <1>5, <1>7, InjectThenExtract
<1>. HIDE DEF F
<1>9. /\ CallersOr(remote.span, ctx.span, e, "traceparent")
      /\ CallersOr(remote.baggage, ctx.baggage, e, "baggage")
  BY <1>6, <1>8 DEF CallersOr, Parsed, F
<1>10. CallersOr(remote.state, Vendored(ctx), e, "tracestate")
  BY <1>6, <1>8 DEF CallersOr, Parsed, Vendored, F
<1>11. Carries(<<p, e>>, Inject(ctx, props))
  BY <1>0, <1>7, <1>9, <1>10 DEF Carries
<1>12. P!Inject(ctx, props) = Inject(ctx, props)
  BY DEF P!Inject, Inject, P!Vendored, Vendored, P!SetHeader, SetHeader, P!Set, Set,
         P!Place, Place, P!Property, Property, P!SelectInSeq, SelectInSeq, P!Min, Min
<1>. QED
  BY <1>0, <1>11, <1>12

-----------------------------------------------------------------------------
(* Fields                                                                  *)

(* A set of positions that is not empty has a last.                        *)
LEMMA LastPosition ==
  ASSUME NEW n \in Nat, NEW T \in SUBSET (1..n), T # {}
  PROVE  Max(T) \in T /\ \A y \in T : y <= Max(T)
<1> DEFINE D == {n - x : x \in T}
<1>1. D \in SUBSET Nat /\ D # {}
  <2>1. ASSUME NEW x \in T PROVE n - x \in Nat
    <3>1. x \in 1..n
      OBVIOUS
    <3>. QED
      BY <3>1
  <2>. QED
    BY <2>1
<1>2. Min(D) \in D /\ \A y \in D : Min(D) <= y
  <2>. HIDE DEF D
  <2>. QED
    BY <1>1, FirstPosition
<1>3. PICK x \in T : Min(D) = n - x
  BY <1>2
<1>4. ASSUME NEW y \in T PROVE y <= x
  <2>1. n - y \in D
    OBVIOUS
  <2>2. n - x <= n - y
    <3>. HIDE DEF D
    <3>. QED
      BY <1>2, <1>3, <2>1
  <2>3. x \in 1..n /\ y \in 1..n
    OBVIOUS
  <2>. QED
    BY <2>2, <2>3
<1>5. \E z \in T : \A y \in T : z >= y
  <2>1. \A y \in T : x >= y
    <3>1. ASSUME NEW y \in T PROVE x >= y
      <4>1. x \in 1..n /\ y \in 1..n
        OBVIOUS
      <4>. QED
        BY <1>4, <4>1
    <3>. QED
      BY <3>1
  <2>. QED
    BY <2>1
<1>6. Max(T) \in T /\ \A y \in T : Max(T) >= y
  BY <1>5 DEF Max
<1>7. ASSUME NEW y \in T PROVE y <= Max(T)
  <2>1. Max(T) \in 1..n /\ y \in 1..n /\ Max(T) >= y
    BY <1>6
  <2>. QED
    BY <2>1
<1>. QED
  BY <1>6, <1>7

(* userPropertiesToFields: a field for each key that is no trace header,   *)
(* with the last value it has.                                             *)
LEMMA LastValueWins ==
  ASSUME NEW Props, NEW props \in Seq(Props)
  PROVE  LET f == UserPropertiesToFields(props)
         IN  /\ DOMAIN f = {props[i].key : i \in 1..Len(props)} \ TraceHeaders
             /\ \A k \in DOMAIN f : \E i \in 1..Len(props) :
                  /\ props[i].key = k /\ props[i].value = f[k]
                  /\ \A j \in i + 1 .. Len(props) : props[j].key # k
<1> DEFINE n == Len(props)
           f == UserPropertiesToFields(props)
           I(k) == {i \in 1..n : props[i].key = k}
<1>1. n \in Nat /\ DOMAIN props = 1..n
  OBVIOUS
<1>2. DOMAIN f = {props[i].key : i \in 1..n} \ TraceHeaders
  BY DEF UserPropertiesToFields
<1>3. ASSUME NEW k \in DOMAIN f
      PROVE  \E i \in 1..n : /\ props[i].key = k /\ props[i].value = f[k]
                             /\ \A j \in i + 1 .. n : props[j].key # k
  <2>1. I(k) # {} /\ I(k) \in SUBSET (1..n)
    BY <1>2
  <2>2. f[k] = props[Max(I(k))].value
    <3>1. SelectLastInSeq(props, LAMBDA p : p.key = k) = Max(I(k))
      BY <2>1 DEF SelectLastInSeq
    <3>2. k \in {props[i].key : i \in DOMAIN props} \ TraceHeaders
      BY <1>1, <1>2
    <3>. QED
      BY <3>1, <3>2 DEF UserPropertiesToFields
  <2>3. Max(I(k)) \in I(k) /\ \A y \in I(k) : y <= Max(I(k))
    <3>. HIDE DEF I, n
    <3>. QED
      BY <1>1, <2>1, LastPosition
  <2>4. Max(I(k)) \in 1..n /\ props[Max(I(k))].key = k
    BY <2>3
  <2>5. ASSUME NEW j \in Max(I(k)) + 1 .. n PROVE props[j].key # k
    <3> DEFINE last == Max(I(k))
    <3>1. last \in 1..n
      BY <2>4
    <3>2. j \in last + 1 .. n
      OBVIOUS
    <3>3. \A y \in I(k) : y <= last
      BY <2>3
    <3>4. j \in 1..n /\ ~(j <= last)
      <4>. HIDE DEF last, n
      <4>. QED
        BY <1>1, <3>1, <3>2
    <3>5. j \notin I(k)
      <4>. HIDE DEF last, I
      <4>. QED
        BY <3>3, <3>4
    <3>. QED
      BY <3>4, <3>5
  <2>. QED
    BY <2>2, <2>4, <2>5
<1>. QED
  BY <1>2, <1>3

(* The properties the fields F and a context may become.                   *)
PropertiesOf(F) ==
  [key : DOMAIN F \cup TraceHeaders,
   value : {F[k] : k \in DOMAIN F} \cup Spans \cup TraceStates \cup Baggages]

(* Among the user properties are the fields F, and nothing else but trace  *)
(* headers.                                                                *)
Holds(F, props) ==
  /\ props \in Seq(PropertiesOf(F))
  /\ \A i \in 1..Len(props) :
       \/ props[i].key \in TraceHeaders
       \/ props[i].key \in DOMAIN F /\ props[i].value = F[props[i].key]
  /\ \A k \in DOMAIN F \ TraceHeaders : \E i \in 1..Len(props) : props[i].key = k

(* fieldsToUserProperties leaves no field out.                             *)
LEMMA ConvertedHolds ==
  ASSUME NEW F, IsFiniteSet(DOMAIN F), NEW props \in FieldsToUserProperties(F)
  PROVE  Holds(F, props)
<1> DEFINE n == Cardinality(DOMAIN F)
<1>1. PICK keys \in SetToSeqs(DOMAIN F) :
        props = [i \in DOMAIN keys |-> Property(keys[i], F[keys[i]])]
  BY DEF FieldsToUserProperties
<1>2. n \in Nat
  BY FS_CardinalityType
<1>3. /\ keys \in [1..n -> DOMAIN F]
      /\ \A i, j \in 1..n : i # j => keys[i] # keys[j]
  BY <1>1 DEF SetToSeqs
<1>4. \A k \in DOMAIN F : \E i \in 1..n : keys[i] = k
  <2>. HIDE DEF n
  <2>1. keys \in Injection(1..n, DOMAIN F)
    BY <1>3 DEF Injection, IsInjective
  <2>2. Cardinality(1..n) = n
    BY <1>2, FS_Interval
  <2>3. keys \in Surjection(1..n, DOMAIN F)
    BY <2>1, <2>2, FS_Injection DEF n
  <2>. QED
    BY <2>3 DEF Surjection
<1>. HIDE DEF n
<1>5. props = [i \in 1..n |-> Property(keys[i], F[keys[i]])]
  BY <1>1, <1>3
<1>6. \A i \in 1..n : Property(keys[i], F[keys[i]]) \in PropertiesOf(F)
  BY <1>3 DEF PropertiesOf, Property
<1>7. props \in Seq(PropertiesOf(F)) /\ Len(props) = n
  BY <1>2, <1>5, <1>6
<1>8. \A i \in 1..n : props[i].key = keys[i] /\ props[i].value = F[keys[i]]
  BY <1>5 DEF Property
<1>. QED
  BY <1>3, <1>4, <1>7, <1>8 DEF Holds

(* Setting a trace header leaves the fields where they are.                *)
LEMMA SetHolds ==
  ASSUME NEW F, NEW props, Holds(F, props), NEW key \in TraceHeaders, NEW val,
         [key |-> key, value |-> val] \in PropertiesOf(F)
  PROVE  Holds(F, Set(props, key, val))
<1> DEFINE i == Place(props, key)
           new == Set(props, key, val)
<1>1. props \in Seq(PropertiesOf(F))
  BY DEF Holds
<1>2. \/ i = 0
      \/ i \in 1..Len(props) /\ props[i].key = key
  BY <1>1, PlaceOf
<1>3. new \in Seq(PropertiesOf(F))
  BY <1>1, SetThenGet
<1>4. /\ Len(new) \in Nat /\ Len(props) \in Nat /\ Len(props) <= Len(new)
      /\ \A j \in 1..Len(new) :
           \/ new[j].key = key
           \/ j \in 1..Len(props) /\ new[j] = props[j]
      /\ \A j \in 1..Len(props) : props[j].key # key => new[j] = props[j]
  <2>1. CASE i = 0
    <3>1. new = Append(props, [key |-> key, value |-> val])
      BY <2>1 DEF Set, Property
    <3>. HIDE DEF i, new
    <3>. QED
      BY <1>1, <3>1
  <2>2. CASE i # 0
    <3>1. new = [props EXCEPT ![i] = [key |-> key, value |-> val]]
      BY <2>2 DEF Set, Property
    <3>. HIDE DEF i, new
    <3>. QED
      BY <1>1, <1>2, <2>2, <3>1
  <2>. QED
    BY <2>1, <2>2
<1>. HIDE DEF i, new
<1>5. ASSUME NEW j \in 1..Len(new)
      PROVE  \/ new[j].key \in TraceHeaders
             \/ new[j].key \in DOMAIN F /\ new[j].value = F[new[j].key]
  BY <1>4 DEF Holds
<1>6. ASSUME NEW k \in DOMAIN F \ TraceHeaders
      PROVE  \E j \in 1..Len(new) : new[j].key = k
  <2>1. PICK j \in 1..Len(props) : props[j].key = k
    BY DEF Holds
  <2>2. j \in 1..Len(new) /\ new[j] = props[j]
    BY <1>4, <2>1
  <2>. QED
    BY <2>1, <2>2
<1>7. Holds(F, new)
  BY <1>3, <1>5, <1>6 DEF Holds
<1>. QED
  BY <1>7 DEF new

(* What a subscriber makes of an event's user properties are the event's   *)
(* fields, but for those under the name of a trace header.                 *)
THEOREM FieldsReturn ==
  ASSUME NEW F, NEW props, Holds(F, props)
  PROVE  LET f == UserPropertiesToFields(props)
         IN  /\ DOMAIN f = DOMAIN F \ TraceHeaders
             /\ \A k \in DOMAIN f : f[k] = F[k]
<1> DEFINE f == UserPropertiesToFields(props)
<1>. HIDE DEF f
<1>1. props \in Seq(PropertiesOf(F))
  BY DEF Holds
<1>2. /\ DOMAIN f = {props[i].key : i \in 1..Len(props)} \ TraceHeaders
      /\ \A k \in DOMAIN f : \E i \in 1..Len(props) :
           props[i].key = k /\ props[i].value = f[k]
  <2> DEFINE Props == PropertiesOf(F)
  <2>1. props \in Seq(Props)
    BY <1>1
  <2>. HIDE DEF Props
  <2>2. /\ DOMAIN UserPropertiesToFields(props)
             = {props[i].key : i \in 1..Len(props)} \ TraceHeaders
        /\ \A k \in DOMAIN UserPropertiesToFields(props) : \E i \in 1..Len(props) :
             /\ props[i].key = k /\ props[i].value = UserPropertiesToFields(props)[k]
             /\ \A j \in i + 1 .. Len(props) : props[j].key # k
    BY <2>1, LastValueWins
  <2>. QED
    BY <2>2 DEF f
<1>3. \A k : k \in DOMAIN f <=> k \in DOMAIN F \ TraceHeaders
  BY <1>2 DEF Holds
<1>4. \A k \in DOMAIN f : f[k] = F[k]
  BY <1>2 DEF Holds
<1>5. DOMAIN f = DOMAIN F \ TraceHeaders
  BY <1>3
<1>. QED
  BY <1>4, <1>5 DEF f

(* So does a header with something to write, or with nothing.              *)
LEMMA SetHeaderHolds ==
  ASSUME NEW F, NEW props, Holds(F, props), NEW key \in TraceHeaders,
         NEW val \in Spans \cup TraceStates \cup Baggages \cup {None}
  PROVE  Holds(F, SetHeader(props, key, val))
<1>1. CASE val = None
  BY <1>1 DEF SetHeader
<1>2. CASE val # None
  <2>1. [key |-> key, value |-> val] \in PropertiesOf(F)
    BY <1>2 DEF PropertiesOf
  <2>2. Holds(F, Set(props, key, val))
    BY <2>1, SetHolds
  <2>. QED
    BY <1>2, <2>2 DEF SetHeader
<1>. QED
  BY <1>1, <1>2

(* Whatever the order of the fields and the caller's context, what is      *)
(* published holds the event's fields.                                     *)
LEMMA PublishedHolds ==
  ASSUME NEW c \in Calls, NEW e \in Events,
         NEW props \in P!FieldsToUserProperties(Event[e].fields)
  PROVE  Holds(Event[e].fields, P!Inject(Ctx[c], props))
<1> DEFINE F == Event[e].fields
           ctx == Ctx[c]
           stated == SetHeader(props, "tracestate", Vendored(ctx))
           traced == SetHeader(stated, "traceparent", ctx.span)
           all == SetHeader(traced, "baggage", ctx.baggage)
<1>1. /\ IsFiniteSet(DOMAIN F)
      /\ ctx.span \in Spans \cup {None} /\ ctx.baggage \in Baggages \cup {None}
      /\ Vendored(ctx) \in TraceStates \cup {None}
  BY PathAssumption DEF PathAssumption, Vendored
<1>2. P!Cardinality(DOMAIN F) = Cardinality(DOMAIN F)
  BY DEF P!Cardinality, Cardinality
<1>3. props \in FieldsToUserProperties(F)
  BY <1>2 DEF P!FieldsToUserProperties, FieldsToUserProperties, P!SetToSeqs, SetToSeqs,
              P!Property, Property
<1>4. {"traceparent", "tracestate", "baggage"} \subseteq TraceHeaders
  BY DEF TraceHeaders
<1>5. P!Inject(ctx, props) = all
  BY DEF P!Inject, P!Vendored, Vendored, P!SetHeader, SetHeader, P!Set, Set, P!Place, Place,
         P!Property, Property, P!SelectInSeq, SelectInSeq, P!Min, Min
<1>. HIDE DEF F, ctx
<1>6. Holds(F, props)
  BY <1>1, <1>3, ConvertedHolds
<1>7. Holds(F, stated)
  BY <1>1, <1>4, <1>6, SetHeaderHolds
<1>. HIDE DEF stated
<1>8. Holds(F, traced)
  BY <1>1, <1>4, <1>7, SetHeaderHolds
<1>. HIDE DEF traced
<1>9. Holds(F, all)
  BY <1>1, <1>4, <1>8, SetHeaderHolds
<1>. QED
  BY <1>5, <1>9 DEF F, ctx

-----------------------------------------------------------------------------
(* The publishers                                                          *)

(* The topic, QoS and retain flag of m are those that resolveMapping       *)
(* chooses for an event: what MappingHonoured says of a published message. *)
Chosen(default, p, e, m) ==
  LET maps == Mappings[p]
      Matching(i) == Event[e].topic \in TopicsOf[maps[i].pattern]
  IN  \/ \E i \in DOMAIN maps :
           /\ Matching(i)
           /\ \A j \in 1..(i - 1) : ~Matching(j)
           /\ m.qos = maps[i].qos /\ m.retain = maps[i].retain
           /\ maps[i].func \/ m.topic = Event[e].topic
      \/ /\ \A i \in DOMAIN maps : ~Matching(i)
         /\ default.xform = "verbatim"
         /\ m.qos = default.qos /\ m.retain = default.retain
         /\ m.topic = Event[e].topic

(* A message is as its event, its publisher and the caller's context say.  *)
Sound(defaults, m) ==
  /\ Chosen(defaults[m.publisher], m.publisher, m.origin, m)
  /\ Carries(<<m.publisher, m.origin>>, m.props)

(* The invariant follows a call of OnEvent from the mapping it has chosen  *)
(* to the message it has built and to what the broker has.                 *)
PublisherInv ==
  /\ pc \in [Calls -> {"idle", "serialize", "send", "returned"}]
  /\ DOMAIN target = Calls /\ DOMAIN message = Calls
  /\ fields = [e \in Events |-> Event[e].fields]
  /\ \A c \in Calls : pc[c] = "serialize" => Chosen(built[c[1]], c[1], c[2], target[c])
  /\ \A c \in Calls : pc[c] = "send" => Sound(built, message[c])
  /\ \A m \in published : Sound(built, m)

(* No call starts with a mapping or a message.                             *)
LEMMA PublisherInit == P!Init => PublisherInv
  BY DEF P!Init, PublisherInv

(* Every step of a publisher preserves its invariant.                      *)
LEMMA PublisherStep ==
  ASSUME PublisherInv, P!Next
  PROVE  PublisherInv'
<1>1. ASSUME NEW p \in Publishers, P!SetPublishFunc(p) PROVE PublisherInv'
  BY <1>1 DEF PublisherInv, P!SetPublishFunc
<1>2. ASSUME NEW p \in Publishers, NEW e \in Events, <<p, e>> \in Calls,
             P!Step(p, e)
      PROVE  PublisherInv'
  <2> DEFINE c == <<p, e>>
             i == P!Mapping(p, Event[e].topic)
  <2>1. ASSUME NEW res, P!Return(c, res), UNCHANGED <<built, fields>>,
               published' = published \/ published' = published \cup {message[c]},
               published' = published \/ pc[c] = "send"
        PROVE  PublisherInv'
    BY <1>2, <2>1 DEF PublisherInv, P!Return
  <2>11. ASSUME Chosen(built[p], p, e, target'[c]),
                target' = [target EXCEPT ![c] = target'[c]],
                pc' = [pc EXCEPT ![c] = "serialize"],
                UNCHANGED <<built, fields, message, published>>
         PROVE  PublisherInv'
    <3>1. \A d \in Calls : d # c => target'[d] = target[d] /\ pc'[d] = pc[d]
      BY <2>11 DEF PublisherInv
    <3>2. c[1] = p /\ c[2] = e /\ c \in Calls
      BY <1>2
    <3>3. \A d \in Calls : pc'[d] = "serialize" => Chosen(built[d[1]], d[1], d[2], target'[d])
      BY <2>11, <3>1, <3>2 DEF PublisherInv
    <3>4. \A d \in Calls : pc'[d] = "send" => d # c
      BY <1>2, <2>11 DEF PublisherInv
    <3>. QED
      BY <2>11, <3>1, <3>3, <3>4 DEF PublisherInv
  <2>2. CASE P!OnEventUnconnected(p, e)
    BY <2>1, <2>2 DEF P!OnEventUnconnected
  <2>3. CASE P!ResolveMapping(p, e)
    <3>1. i # 0
      BY <2>3 DEF P!ResolveMapping
    <3>2. PICK out \in Renames \cup {None} :
            /\ Mappings[p][i].func \/ out = None
            /\ target' = [target EXCEPT ![c] =
                 [topic  |-> IF out = None THEN Event[e].topic ELSE out,
                  qos    |-> Mappings[p][i].qos,
                  retain |-> Mappings[p][i].retain]]
      BY <2>3 DEF P!ResolveMapping
    <3>3. Chosen(built[p], p, e, target'[c])
      <4>1. /\ target'[c].topic = IF out = None THEN Event[e].topic ELSE out
            /\ target'[c].qos = Mappings[p][i].qos
            /\ target'[c].retain = Mappings[p][i].retain
        BY <1>2, <3>2 DEF PublisherInv
      <4>2. /\ i \in DOMAIN Mappings[p]
            /\ Event[e].topic \in TopicsOf[Mappings[p][i].pattern]
            /\ \A j \in 1..(i - 1) : Event[e].topic \notin TopicsOf[Mappings[p][j].pattern]
        BY <3>1, MappingFirst
      <4>3. PICK m, k : m = target'[c] /\ k = i
        OBVIOUS
      <4>4. /\ m.qos = Mappings[p][k].qos /\ m.retain = Mappings[p][k].retain
            /\ Mappings[p][k].func \/ m.topic = Event[e].topic
        BY <3>2, <4>1, <4>3
      <4>5. Chosen(built[p], p, e, m)
        <5>1. /\ k \in DOMAIN Mappings[p]
              /\ Event[e].topic \in TopicsOf[Mappings[p][k].pattern]
              /\ \A j \in 1..(k - 1) : Event[e].topic \notin TopicsOf[Mappings[p][j].pattern]
          BY <4>2, <4>3, Zenon
        <5>. QED
          BY <4>4, <5>1 DEF Chosen
      <4>. QED
        BY <4>3, <4>5
    <3>4. target' = [target EXCEPT ![c] = target'[c]]
      BY <1>2, <3>2 DEF PublisherInv
    <3>. QED
      BY <2>3, <2>11, <3>3, <3>4 DEF P!ResolveMapping
  <2>4. CASE P!ResolveFailed(p, e)
    BY <2>1, <2>4 DEF P!ResolveFailed, P!Fail
  <2>5. CASE P!ResolveVerbatim(p, e)
    <3>1. i = 0 /\ built[p].xform = "verbatim"
          /\ target' = [target EXCEPT ![c] = P!Verbatim(p, Event[e].topic)]
      BY <2>5 DEF P!ResolveVerbatim
    <3>2. Chosen(built[p], p, e, target'[c])
      <4>1. /\ target'[c].topic = Event[e].topic
            /\ target'[c].qos = built[p].qos /\ target'[c].retain = built[p].retain
        BY <1>2, <3>1 DEF PublisherInv, P!Verbatim
      <4>2. \A j \in DOMAIN Mappings[p] :
              Event[e].topic \notin TopicsOf[Mappings[p][j].pattern]
        BY <3>1, MappingFirst
      <4>. QED
        BY <3>1, <4>1, <4>2 DEF Chosen
    <3>3. target' = [target EXCEPT ![c] = target'[c]]
      BY <1>2, <3>1 DEF PublisherInv
    <3>. QED
      BY <2>5, <2>11, <3>2, <3>3 DEF P!ResolveVerbatim
  <2>6. CASE P!ResolveIgnored(p, e)
    BY <2>1, <2>6 DEF P!ResolveIgnored
  <2>7. CASE P!SerializeFailed(p, e)
    BY <2>1, <2>7 DEF P!SerializeFailed, P!Fail
  <2>8. CASE P!Serialize(p, e)
    <3>1. PICK props \in P!FieldsToUserProperties(fields[e]) :
            message' = [message EXCEPT ![c] =
              [origin |-> e, publisher |-> p,
               topic |-> target[c].topic, qos |-> target[c].qos,
               retain |-> target[c].retain,
               props |-> P!Inject(Ctx[<<p, e>>], props)]]
      BY <2>8 DEF P!Serialize
    <3>2. Carries(<<p, e>>, P!Inject(Ctx[<<p, e>>], props))
      BY <1>2, PropertiesCarry DEF PublisherInv
    <3>3. Chosen(built[p], p, e, target[c])
      BY <1>2, <2>8 DEF PublisherInv, P!Serialize
    <3>4. Sound(built, message'[c])
      <4>1. PICK m : m = message'[c]
        OBVIOUS
      <4>2. /\ m.origin = e /\ m.publisher = p /\ m.topic = target[c].topic
            /\ m.qos = target[c].qos /\ m.retain = target[c].retain
            /\ m.props = P!Inject(Ctx[<<p, e>>], props)
        BY <1>2, <3>1, <4>1 DEF PublisherInv
      <4>3. Chosen(built[p], p, e, m)
        BY <3>3, <4>2 DEF Chosen
      <4>. QED
        BY <3>2, <4>1, <4>2, <4>3 DEF Sound
    <3>. QED
      BY <1>2, <2>8, <3>1, <3>4 DEF PublisherInv, P!Serialize
  <2>9. CASE P!Send(p, e)
    BY <2>1, <2>9 DEF P!Send
  <2>10. CASE P!SendFailed(p, e)
    BY <2>1, <2>10 DEF P!SendFailed, P!Fail
  <2>. QED
    BY <1>2, <2>2, <2>3, <2>4, <2>5, <2>6, <2>7, <2>8, <2>9, <2>10 DEF P!Step
<1>3. ASSUME NEW c \in Calls, P!Step(c[1], c[2]) PROVE PublisherInv'
  <2>1. c[1] \in Publishers /\ c[2] \in Events /\ <<c[1], c[2]>> = c
    BY PathAssumption DEF PathAssumption
  <2>. QED
    BY <1>2, <1>3, <2>1
<1>. QED
  BY <1>1, <1>3 DEF P!Next

-----------------------------------------------------------------------------
(* The subscribers                                                         *)

(* The packet being routed carries what its publisher was given, each      *)
(* delivery has found it there, and none has missed its subscription.      *)
SubscriberInv ==
  /\ turn \in Nat \ {0}
  /\ errors \in [S!Subscribers -> [S!Kinds -> Nat]]
  /\ packet # None /\ packet.publisher # None =>
       Carries(<<packet.publisher, packet.origin>>, packet.props)
  /\ TraceCarried
  /\ NeverUnmatched

(* Nothing is routed, delivered or counted at first.                       *)
LEMMA SubscriberInit == S!Init => SubscriberInv
  BY DEF S!Init, SubscriberInv, TraceCarried, NeverUnmatched, S!NeverUnmatched, S!Kinds

(* What a subscriber gives the bus is linked as the packet says.           *)
LEMMA DeliveryLinked ==
  ASSUME SubscriberInv, packet # None, NEW s, NEW i,
         NEW out, delivered' = delivered \cup {S!Delivery(s, i, out)}
  PROVE  TraceCarried'
<1>1. /\ S!Delivery(s, i, out).publisher = packet.publisher
      /\ S!Delivery(s, i, out).origin = packet.origin
      /\ S!Delivery(s, i, out).remote = Extract(packet.props)
  BY DEF S!Delivery, S!Extract, Extract, S!Parsed, Parsed, S!Get, Get, S!Place, Place,
         S!SelectInSeq, SelectInSeq, S!Min, Min
<1>. QED
  BY <1>1 DEF SubscriberInv, TraceCarried, Carries

(* The broker's packets carry what was published.                          *)
LEMMA ReceiveStep ==
  ASSUME PublisherInv, SubscriberInv, Receive
  PROVE  SubscriberInv'
<1>1. PICK m \in published \cup Foreign, replay \in BOOLEAN :
        S!Route([origin |-> m.origin, publisher |-> m.publisher, topic |-> m.topic,
                 retain |-> replay, props |-> m.props])
  BY DEF Receive
<1>2. m.publisher # None => Carries(<<m.publisher, m.origin>>, m.props)
  BY PathAssumption DEF PathAssumption, PublisherInv, Sound
<1>. QED
  BY <1>1, <1>2 DEF SubscriberInv, S!Route, TraceCarried, NeverUnmatched,
                    S!NeverUnmatched, Carries

(* Every step of a subscriber preserves its invariant.                     *)
LEMMA SubscriberStep ==
  ASSUME SubscriberInv, S!Step
  PROVE  SubscriberInv'
<1>1. CASE S!Skip
  BY <1>1 DEF SubscriberInv, S!Skip, TraceCarried, NeverUnmatched, S!NeverUnmatched, Carries
<1>2. CASE S!RouteReturn
  BY <1>2 DEF SubscriberInv, S!RouteReturn, TraceCarried, NeverUnmatched,
              S!NeverUnmatched, Carries
<1>3. CASE S!HandleRetainedDropped
  BY <1>3 DEF SubscriberInv, S!HandleRetainedDropped, S!Handling, TraceCarried,
              NeverUnmatched, S!NeverUnmatched, Carries
<1>4. CASE S!HandleMessage
  <2>1. TraceCarried'
    BY <1>4, DeliveryLinked DEF S!HandleMessage, S!Handling, S!Deliver
  <2>. QED
    BY <1>4, <2>1 DEF SubscriberInv, S!HandleMessage, S!Handling, NeverUnmatched,
                      S!NeverUnmatched, Carries
<1>5. CASE S!HandleMessageFailed
  <2>1. turn \in S!Subscribers /\ S!IsRecipient(turn)
    BY <1>5, PathAssumption DEF SubscriberInv, S!HandleMessageFailed, S!Handling,
                                S!Subscribers, PathAssumption
  <2>2. PICK kind \in S!Kinds \ {"subscriber"} :
          /\ kind = "subscription" <=> S!FindSubscription(turn) = 0
          /\ errors' = [errors EXCEPT ![turn][kind] = @ + 1]
    BY <1>5 DEF S!HandleMessageFailed
  <2>3. kind # "subscription"
    BY <2>1, <2>2, RecipientMatches
  <2>4. NeverUnmatched' /\ errors' \in [S!Subscribers -> [S!Kinds -> Nat]]
    <3>1. errors[turn] \in [S!Kinds -> Nat]
      BY <2>1 DEF SubscriberInv
    <3>2. errors' = [errors EXCEPT ![turn] = [errors[turn] EXCEPT ![kind] = @ + 1]]
      BY <2>2
    <3>3. errors' \in [S!Subscribers -> [S!Kinds -> Nat]]
      BY <2>1, <3>1, <3>2 DEF SubscriberInv
    <3>4. ASSUME NEW s \in S!Subscribers
          PROVE  errors'[s]["subscription"] = errors[s]["subscription"]
      BY <2>1, <2>3, <3>1, <3>2 DEF SubscriberInv, S!Kinds
    <3>. QED
      BY <3>3, <3>4 DEF SubscriberInv, NeverUnmatched, S!NeverUnmatched
  <2>. QED
    BY <1>5, <2>4 DEF SubscriberInv, S!HandleMessageFailed, S!Handling, TraceCarried, Carries
<1>6. CASE S!HandleMessageRefused
  <2>1. TraceCarried'
    BY <1>6, DeliveryLinked DEF S!HandleMessageRefused, S!Handling, S!Deliver
  <2>2. NeverUnmatched' /\ errors' \in [S!Subscribers -> [S!Kinds -> Nat]]
    <3>1. turn \in S!Subscribers
      BY <1>6, PathAssumption DEF SubscriberInv, S!HandleMessageRefused, S!Handling,
                                  S!Subscribers, PathAssumption
    <3>2. errors' = [errors EXCEPT ![turn]["subscriber"] = @ + 1]
      BY <1>6 DEF S!HandleMessageRefused
    <3>3. errors[turn] \in [S!Kinds -> Nat] /\ "subscriber" \in S!Kinds
      BY <3>1 DEF SubscriberInv, S!Kinds
    <3>4. errors' = [errors EXCEPT ![turn] = [errors[turn] EXCEPT !["subscriber"] = @ + 1]]
      BY <3>2
    <3>5. errors' \in [S!Subscribers -> [S!Kinds -> Nat]]
      BY <3>1, <3>3, <3>4 DEF SubscriberInv
    <3>6. ASSUME NEW s \in S!Subscribers
          PROVE  errors'[s]["subscription"] = errors[s]["subscription"]
      BY <3>1, <3>3, <3>4 DEF SubscriberInv, S!Kinds
    <3>. QED
      BY <3>5, <3>6 DEF SubscriberInv, NeverUnmatched, S!NeverUnmatched
  <2>. QED
    BY <1>6, <2>1, <2>2 DEF SubscriberInv, S!HandleMessageRefused, S!Handling, Carries
<1>. QED
  BY <1>1, <1>2, <1>3, <1>4, <1>5, <1>6 DEF S!Step

-----------------------------------------------------------------------------
(* The path                                                                *)

(* Both invariants hold together: a packet is as sound as the message the  *)
(* broker has.                                                             *)
LEMMA PathInvariant == Spec => [](PublisherInv /\ SubscriberInv)
<1>1. Init => PublisherInv /\ SubscriberInv
  BY PublisherInit, SubscriberInit DEF Init
<1>2. PublisherInv /\ SubscriberInv /\ [Next]_vars => (PublisherInv /\ SubscriberInv)'
  <2>. SUFFICES ASSUME PublisherInv, SubscriberInv, [Next]_vars
                PROVE  PublisherInv' /\ SubscriberInv'
    OBVIOUS
  <2>1. UNCHANGED publisherVars => PublisherInv'
    BY DEF publisherVars, PublisherInv
  <2>2. UNCHANGED subscriberVars => SubscriberInv'
    BY DEF subscriberVars, SubscriberInv, TraceCarried, NeverUnmatched,
           S!NeverUnmatched, Carries
  <2>3. CASE Publish
    BY <2>2, <2>3, PublisherStep DEF Publish
  <2>4. CASE Receive
    BY <2>1, <2>4, ReceiveStep DEF Receive
  <2>5. CASE Handle
    BY <2>1, <2>5, SubscriberStep DEF Handle
  <2>6. CASE UNCHANGED vars
    BY <2>1, <2>2, <2>6 DEF vars
  <2>. QED
    BY <2>3, <2>4, <2>5, <2>6 DEF Next
<1>. QED
  BY <1>1, <1>2, PTL DEF Spec

(* Whatever the mappings of the publishers and however their calls         *)
(* interleave, what the broker has was published as the first mapping that *)
(* matches says, or as the default does.                                   *)
THEOREM MappingAlwaysHonoured == Spec => []MappingHonoured
<1>1. PublisherInv => MappingHonoured
  BY DEF PublisherInv, Sound, Chosen, MappingHonoured, P!MappingHonoured
<1>. QED
  BY <1>1, PathInvariant, PTL

(* Whatever its fields are called and in whatever order they are put among *)
(* the user properties, a delivered event has the span, the tracestate and *)
(* the baggage of the call that published it; what the call had none of is *)
(* the event's own field of that name, or nothing.                         *)
THEOREM TraceAlwaysCarried == Spec => []TraceCarried
<1>1. SubscriberInv => TraceCarried
  BY DEF SubscriberInv
<1>. QED
  BY <1>1, PathInvariant, PTL

(* Whatever the subscriptions, HandleMessage finds one for each packet the *)
(* router gives it.                                                        *)
THEOREM NoneUnmatched == Spec => []NeverUnmatched
<1>1. SubscriberInv => NeverUnmatched
  BY DEF SubscriberInv
<1>. QED
  BY <1>1, PathInvariant, PTL
=============================================================================

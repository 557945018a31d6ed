--------------------------- MODULE EventPathCallProofs ---------------------------
(* Theorems about the calls of EventPath: what OnEvent tells the bus, what *)
(* the counters of publishers and subscribers say, and the topics events   *)
(* arrive under.                                                           *)
EXTENDS EventPathProofs

(* Counting                                                                *)

(* A finite set T that has x and what U has, or just what U has.           *)
LEMMA OneMore ==
  ASSUME NEW U, IsFiniteSet(U), NEW x, x \notin U, NEW T
  PROVE  /\ Cardinality(U) \in Nat
         /\ (\A y : y \in T <=> y \in U \/ y = x) => Cardinality(T) = Cardinality(U) + 1
         /\ (\A y : y \in T <=> y \in U) => Cardinality(T) = Cardinality(U)
<1>1. ASSUME \A y : y \in T <=> y \in U \/ y = x
      PROVE  Cardinality(T) = Cardinality(U) + 1
  <2>1. T = U \cup {x}
    BY <1>1
  <2>. QED
    BY <2>1, FS_AddElement
<1>2. ASSUME \A y : y \in T <=> y \in U
      PROVE  Cardinality(T) = Cardinality(U)
  <2>1. T = U
    BY <1>2
  <2>. QED
    BY <2>1
<1>. QED
  BY <1>1, <1>2, FS_CardinalityType

(* The calls of publisher p that have failed, and those that have sent a   *)
(* message.                                                                *)
Failed(p) == {c \in {d \in Calls : d[1] = p} : result[c] = "error"}
Delivered(p) ==
  {c \in {d \in Calls : d[1] = p} : result[c] = "nil" /\ ~P!Ignored(p, c[2])}

(* What a call has done shows in what it has returned, and in the broker:  *)
(* a call that has not returned has published nothing, one that has has    *)
(* published at most one message, and what it sends has the QoS that its   *)
(* mapping or the default asks for.                                        *)
CallInv ==
  /\ pc \in [Calls -> {"idle", "serialize", "send", "returned"}]
  /\ result \in [Calls -> {None, "nil", "error", "unconnected"}]
  /\ DOMAIN target = Calls /\ DOMAIN message = Calls
  /\ \A c \in Calls : pc[c] # "returned" => result[c] = None
  /\ \A c \in Calls : pc[c] \in {"serialize", "send"} => ~P!Ignored(c[1], c[2])
  /\ \A c \in Calls : pc[c] = "send" =>
       message[c].publisher = c[1] /\ message[c].origin = c[2]
  /\ \A c \in Calls : pc[c] = "serialize" => target[c].qos = P!QoSOf(c[1], c[2])
  /\ \A c \in Calls : pc[c] = "send" => message[c].qos = P!QoSOf(c[1], c[2])
  /\ \A m \in published :
       /\ <<m.publisher, m.origin>> \in Calls
       /\ pc[<<m.publisher, m.origin>>] = "returned"
  /\ P!ResultTruthful

(* The counters are numbers and count the calls.                           *)
CountInv ==
  /\ errorCount \in [Publishers -> Nat]
  /\ sentMessages \in [Publishers -> Nat]
  /\ \A p \in Publishers : errorCount[p] = Cardinality(Failed(p))
  /\ \A p \in Publishers : sentMessages[p] = Cardinality(Delivered(p))

(* No call has returned at first.                                          *)
LEMMA CallInit == P!Init => CallInv /\ CountInv
<1>. SUFFICES ASSUME P!Init PROVE CallInv /\ CountInv
  OBVIOUS
<1>1. None \notin {"nil", "error", "unconnected"}
  BY PathAssumption DEF PathAssumption
<1>2. CallInv
  <2>1. /\ pc = [c \in Calls |-> "idle"] /\ published = {}
        /\ result = [c \in Calls |-> None]
        /\ target = [c \in Calls |-> None] /\ message = [c \in Calls |-> None]
    BY DEF P!Init
  <2>2. P!ResultTruthful
    BY <1>1, <2>1 DEF P!ResultTruthful, P!PublishedBy
  <2>. QED
    BY <2>1, <2>2 DEF CallInv
<1>3. ASSUME NEW p \in Publishers
      PROVE  Failed(p) = {} /\ Delivered(p) = {}
  BY <1>1 DEF P!Init, Failed, Delivered
<1>. QED
  BY <1>2, <1>3, FS_EmptySet DEF P!Init, CountInv

(* A call returns res, its message being at the broker if has, and the      *)
(* publish function having returned no error if sent.                      *)
LEMMA ReturnStep ==
  ASSUME CallInv, CountInv, NEW c \in Calls, pc[c] # "returned",
         NEW res \in {"nil", "error", "unconnected"}, P!Return(c, res),
         NEW has \in BOOLEAN, has => pc[c] = "send",
         published' = IF has THEN published \cup {message[c]} ELSE published,
         NEW sent \in BOOLEAN, sent => pc[c] = "send",
         sent /\ message[c].qos # 0 => has,
         res = "nil" => sent \/ P!Ignored(c[1], c[2]),
         has => res # "unconnected",
         UNCHANGED built,
         errorCount' = IF res = "error"
                       THEN [errorCount EXCEPT ![c[1]] = @ + 1] ELSE errorCount,
         sentMessages' = IF sent /\ res = "nil"
                         THEN [sentMessages EXCEPT ![c[1]] = @ + 1] ELSE sentMessages
  PROVE  CallInv' /\ CountInv'
<1>1. c[1] \in Publishers /\ c = <<c[1], c[2]>>
  BY PathAssumption DEF PathAssumption
<1>2. \A p, e : P!Ignored(p, e)' = P!Ignored(p, e)
  BY DEF P!Ignored, P!Mapping, P!SelectInSeq, P!Min
<1>10. \A p, e : P!QoSOf(p, e)' = P!QoSOf(p, e)
  BY DEF P!QoSOf, P!Mapping, P!SelectInSeq, P!Min
<1>3. /\ pc' = [pc EXCEPT ![c] = "returned"]
      /\ result' = [result EXCEPT ![c] = res]
      /\ target' = [target EXCEPT ![c] = None]
      /\ message' = [message EXCEPT ![c] = None]
      /\ result[c] = None
  BY DEF P!Return, CallInv
<1>9. /\ has => ~P!Ignored(c[1], c[2])
      /\ sent => ~P!Ignored(c[1], c[2])
      /\ sent /\ P!QoSOf(c[1], c[2]) # 0 => has
  BY DEF CallInv
<1>4. \A m \in published : ~(m.publisher = c[1] /\ m.origin = c[2])
  BY <1>1 DEF CallInv
<1>5. /\ published \subseteq published'
      /\ \A m \in published' : m \in published \/ (has /\ m = message[c])
      /\ has => message[c] \in published' /\ message[c].publisher = c[1]
                /\ message[c].origin = c[2]
  BY DEF CallInv
<1>6. P!ResultTruthful'
  <2>. SUFFICES ASSUME NEW d \in Calls
                PROVE  /\ \A m, n \in P!PublishedBy(d[1], d[2])' : m = n
                       /\ result'[d] = "nil" /\ P!QoSOf(d[1], d[2])' # 0 =>
                            P!Ignored(d[1], d[2])' \/ P!PublishedBy(d[1], d[2])' # {}
                       /\ result'[d] = "unconnected" \/ P!Ignored(d[1], d[2])' =>
                            P!PublishedBy(d[1], d[2])' = {}
    BY DEF P!ResultTruthful
  <2>1. CASE d = c
    <3>1. \A m : m \in P!PublishedBy(c[1], c[2])' <=> (has /\ m = message[c])
      BY <1>4, <1>5 DEF P!PublishedBy
    <3>2. result'[c] = res
      BY <1>3 DEF CallInv
    <3>. QED
      BY <1>2, <1>9, <1>10, <2>1, <3>1, <3>2
  <2>2. CASE d # c
    <3>1. d = <<d[1], d[2]>>
      BY PathAssumption DEF PathAssumption
    <3>2. ~(d[1] = c[1] /\ d[2] = c[2])
      BY <1>1, <2>2, <3>1
    <3>3. \A m : m \in P!PublishedBy(d[1], d[2])' <=> m \in P!PublishedBy(d[1], d[2])
      BY <1>5, <3>2 DEF P!PublishedBy
    <3>4. result'[d] = result[d]
      BY <1>3, <2>2 DEF CallInv
    <3>5. /\ \A m, n \in P!PublishedBy(d[1], d[2]) : m = n
          /\ result[d] = "nil" /\ P!QoSOf(d[1], d[2]) # 0 =>
               P!Ignored(d[1], d[2]) \/ P!PublishedBy(d[1], d[2]) # {}
          /\ result[d] = "unconnected" \/ P!Ignored(d[1], d[2]) =>
               P!PublishedBy(d[1], d[2]) = {}
      BY DEF CallInv, P!ResultTruthful
    <3>. QED
      BY <1>2, <1>10, <3>3, <3>4, <3>5
  <2>. QED
    BY <2>1, <2>2
<1>7. CallInv'
  <2>1. /\ pc' \in [Calls -> {"idle", "serialize", "send", "returned"}]
        /\ result' \in [Calls -> {None, "nil", "error", "unconnected"}]
        /\ DOMAIN target' = Calls /\ DOMAIN message' = Calls
    BY <1>3 DEF CallInv
  <2>2. ASSUME NEW d \in Calls, pc'[d] # "returned"
        PROVE  /\ d # c /\ pc'[d] = pc[d] /\ result'[d] = result[d]
               /\ message'[d] = message[d] /\ target'[d] = target[d]
    BY <1>3, <2>2 DEF CallInv
  <2>3. \A d \in Calls : pc[d] = "returned" => pc'[d] = "returned"
    BY <1>3 DEF CallInv
  <2>4. pc'[c] = "returned"
    BY <1>3 DEF CallInv
  <2>5. \A m \in published' :
          <<m.publisher, m.origin>> \in Calls /\ pc'[<<m.publisher, m.origin>>] = "returned"
    <3>. SUFFICES ASSUME NEW m \in published'
                  PROVE  LET d == <<m.publisher, m.origin>>
                         IN  d \in Calls /\ pc'[d] = "returned"
      OBVIOUS
    <3>1. CASE m \in published
      BY <2>3, <3>1 DEF CallInv
    <3>2. CASE has /\ m = message[c]
      BY <1>1, <1>5, <2>4, <3>2
    <3>. QED
      BY <1>5, <3>1, <3>2
  <2>6. \A d \in Calls : pc'[d] # "returned" => result'[d] = None
    BY <2>2 DEF CallInv
  <2>7. \A d \in Calls : pc'[d] \in {"serialize", "send"} => ~P!Ignored(d[1], d[2])'
    BY <1>2, <2>2 DEF CallInv
  <2>8. \A d \in Calls : pc'[d] = "send" =>
          message'[d].publisher = d[1] /\ message'[d].origin = d[2]
    BY <2>2 DEF CallInv
  <2>9. /\ \A d \in Calls : pc'[d] = "serialize" => target'[d].qos = P!QoSOf(d[1], d[2])'
        /\ \A d \in Calls : pc'[d] = "send" => message'[d].qos = P!QoSOf(d[1], d[2])'
    BY <1>10, <2>2 DEF CallInv
  <2>. QED
    BY <1>6, <2>1, <2>5, <2>6, <2>7, <2>8, <2>9 DEF CallInv
<1>8. CountInv'
  <2>1. ASSUME NEW d \in Calls
        PROVE  result'[d] = IF d = c THEN res ELSE result[d]
    BY <1>3 DEF CallInv
  <2>2. None \notin {"nil", "error", "unconnected"} /\ IsFiniteSet(Calls)
    BY PathAssumption DEF PathAssumption
  <2>3. ASSUME NEW p \in Publishers
        PROVE  /\ Cardinality(Failed(p)') =
                    Cardinality(Failed(p)) + IF p = c[1] /\ res = "error" THEN 1 ELSE 0
               /\ Cardinality(Delivered(p)') =
                    Cardinality(Delivered(p))
                      + IF p = c[1] /\ sent /\ res = "nil" THEN 1 ELSE 0
    <3>1. Failed(p) \subseteq Calls /\ Delivered(p) \subseteq Calls
      BY DEF Failed, Delivered
    <3>2. IsFiniteSet(Failed(p)) /\ IsFiniteSet(Delivered(p))
      BY <2>2, <3>1, FS_Subset
    <3>3. c \notin Failed(p) /\ c \notin Delivered(p)
      BY <1>3, <2>2 DEF Failed, Delivered
    <3>4. \A y : y \in Failed(p)' <=> y \in Failed(p) \/ ((p = c[1] /\ res = "error") /\ y = c)
      BY <1>3, <2>1, <2>2 DEF Failed
    <3>5. \A y : y \in Delivered(p)' <=>
              y \in Delivered(p)
                \/ ((p = c[1] /\ sent /\ res = "nil") /\ y = c)
      BY <1>2, <1>3, <1>9, <2>1, <2>2 DEF Delivered
    <3>6. Cardinality(Failed(p)') =
            Cardinality(Failed(p)) + IF p = c[1] /\ res = "error" THEN 1 ELSE 0
      <4>1. CASE p = c[1] /\ res = "error"
        <5>1. \A y : y \in Failed(p)' <=> y \in Failed(p) \/ y = c
          BY <3>4, <4>1
        <5>2. Cardinality(Failed(p)') = Cardinality(Failed(p)) + 1
          BY <3>2, <3>3, <5>1, OneMore
        <5>. QED
          BY <4>1, <5>2
      <4>2. CASE ~(p = c[1] /\ res = "error")
        <5>1. \A y : y \in Failed(p)' <=> y \in Failed(p)
          BY <3>4, <4>2
        <5>2. Cardinality(Failed(p)') = Cardinality(Failed(p)) /\ Cardinality(Failed(p)) \in Nat
          BY <3>2, <3>3, <5>1, OneMore
        <5>. QED
          BY <4>2, <5>2
      <4>. QED
        BY <4>1, <4>2
    <3>7. Cardinality(Delivered(p)') =
            Cardinality(Delivered(p))
              + IF p = c[1] /\ sent /\ res = "nil" THEN 1 ELSE 0
      <4>1. CASE p = c[1] /\ sent /\ res = "nil"
        <5>1. \A y : y \in Delivered(p)' <=> y \in Delivered(p) \/ y = c
          BY <3>5, <4>1
        <5>2. Cardinality(Delivered(p)') = Cardinality(Delivered(p)) + 1
          BY <3>2, <3>3, <5>1, OneMore
        <5>. QED
          BY <4>1, <5>2
      <4>2. CASE ~(p = c[1] /\ sent /\ res = "nil")
        <5>1. \A y : y \in Delivered(p)' <=> y \in Delivered(p)
          BY <3>5, <4>2
        <5>2. Cardinality(Delivered(p)') = Cardinality(Delivered(p)) /\ Cardinality(Delivered(p)) \in Nat
          BY <3>2, <3>3, <5>1, OneMore
        <5>. QED
          BY <4>2, <5>2
      <4>. QED
        BY <4>1, <4>2
    <3>. QED
      BY <3>6, <3>7
  <2>4. /\ errorCount' \in [Publishers -> Nat]
        /\ sentMessages' \in [Publishers -> Nat]
    BY <1>1 DEF CountInv
  <2>5. ASSUME NEW p \in Publishers
        PROVE  /\ errorCount'[p] = errorCount[p]
                    + IF p = c[1] /\ res = "error" THEN 1 ELSE 0
               /\ sentMessages'[p] = sentMessages[p]
                    + IF p = c[1] /\ sent /\ res = "nil" THEN 1 ELSE 0
    BY <1>1 DEF CountInv
  <2>6. ASSUME NEW p \in Publishers
        PROVE  errorCount'[p] = Cardinality(Failed(p)')
    BY <2>3, <2>5 DEF CountInv
  <2>7. ASSUME NEW p \in Publishers
        PROVE  sentMessages'[p] = Cardinality(Delivered(p)')
    BY <2>3, <2>5 DEF CountInv
  <2>. QED
    BY <2>4, <2>6, <2>7 DEF CountInv
<1>. QED
  BY <1>7, <1>8

(* A call goes on without returning: what it has returned, the counters    *)
(* and the broker are as before.                                           *)
LEMMA GoOnStep ==
  ASSUME CallInv, CountInv, NEW c \in Calls, NEW step \in {"serialize", "send"},
         pc' = [pc EXCEPT ![c] = step], ~P!Ignored(c[1], c[2]),
         DOMAIN target' = Calls, DOMAIN message' = Calls,
         \A d \in Calls : d # c => message'[d] = message[d],
         \A d \in Calls : d # c => target'[d] = target[d],
         step = "serialize" => target'[c].qos = P!QoSOf(c[1], c[2]),
         step = "send" => /\ message'[c].publisher = c[1] /\ message'[c].origin = c[2]
                          /\ message'[c].qos = P!QoSOf(c[1], c[2]),
         pc[c] # "returned",
         UNCHANGED <<built, result, sentMessages, errorCount, published>>
  PROVE  CallInv' /\ CountInv'
<1>1. \A p, e : P!Ignored(p, e)' = P!Ignored(p, e)
  BY DEF P!Ignored, P!Mapping, P!SelectInSeq, P!Min
<1>11. \A p, e : P!Mapping(p, Event[e].topic)' = P!Mapping(p, Event[e].topic)
  BY DEF P!Mapping, P!SelectInSeq, P!Min
<1>12. built' = built
  OBVIOUS
<1>10. \A p, e : P!QoSOf(p, e)' = P!QoSOf(p, e)
  BY <1>11, <1>12 DEF P!QoSOf
<1>2. \A p, e : P!PublishedBy(p, e)' = P!PublishedBy(p, e)
  BY DEF P!PublishedBy
<1>3. \A p : Failed(p)' = Failed(p) /\ Delivered(p)' = Delivered(p)
  BY <1>1 DEF Failed, Delivered
<1>4. P!ResultTruthful'
  BY <1>1, <1>2, <1>10 DEF CallInv, P!ResultTruthful
<1>5. /\ pc' \in [Calls -> {"idle", "serialize", "send", "returned"}]
      /\ pc'[c] = step
      /\ \A d \in Calls : d # c => pc'[d] = pc[d]
  BY DEF CallInv
<1>6. /\ \A d \in Calls : pc'[d] # "returned" => result'[d] = None
      /\ \A d \in Calls : pc'[d] \in {"serialize", "send"} => ~P!Ignored(d[1], d[2])'
      /\ \A d \in Calls : pc'[d] = "send" =>
           message'[d].publisher = d[1] /\ message'[d].origin = d[2]
      /\ \A d \in Calls : pc'[d] = "serialize" => target'[d].qos = P!QoSOf(d[1], d[2])'
      /\ \A d \in Calls : pc'[d] = "send" => message'[d].qos = P!QoSOf(d[1], d[2])'
  BY <1>1, <1>5, <1>10 DEF CallInv
<1>7. \A m \in published' :
        <<m.publisher, m.origin>> \in Calls /\ pc'[<<m.publisher, m.origin>>] = "returned"
  BY <1>5 DEF CallInv
<1>8. CallInv'
  BY <1>4, <1>5, <1>6, <1>7 DEF CallInv
<1>9. CountInv'
  BY <1>3 DEF CountInv
<1>. QED
  BY <1>8, <1>9

(* Every step of a publisher preserves what its calls and counters say.    *)
LEMMA CallStep ==
  ASSUME CallInv, CountInv, P!Next
  PROVE  CallInv' /\ CountInv'
<1>1. ASSUME NEW p \in Publishers, P!SetPublishFunc(p) PROVE CallInv' /\ CountInv'
  <2>1. UNCHANGED <<built, pc, target, message, result, sentMessages, errorCount, published>>
    BY <1>1 DEF P!SetPublishFunc
  <2>2. \A q, e : P!Ignored(q, e)' = P!Ignored(q, e)
    BY <2>1 DEF P!Ignored, P!Mapping, P!SelectInSeq, P!Min
  <2>6. \A q, e : P!QoSOf(q, e)' = P!QoSOf(q, e)
    BY <2>1 DEF P!QoSOf, P!Mapping, P!SelectInSeq, P!Min
  <2>3. \A q, e : P!PublishedBy(q, e)' = P!PublishedBy(q, e)
    BY <2>1 DEF P!PublishedBy
  <2>4. \A q : Failed(q)' = Failed(q) /\ Delivered(q)' = Delivered(q)
    BY <2>1, <2>2 DEF Failed, Delivered
  <2>5. P!ResultTruthful'
    BY <2>1, <2>2, <2>3, <2>6 DEF CallInv, P!ResultTruthful
  <2>. QED
    <3>1. CallInv'
      BY <2>1, <2>2, <2>5, <2>6 DEF CallInv
    <3>2. CountInv'
      BY <2>1, <2>4 DEF CountInv
    <3>. QED
      BY <3>1, <3>2
<1>2. ASSUME NEW p \in Publishers, NEW e \in Events, <<p, e>> \in Calls,
             P!Step(p, e)
      PROVE  CallInv' /\ CountInv'
  <2> DEFINE c == <<p, e>>
             ignored == P!Ignored(p, e)
  <2>1. c \in Calls /\ c[1] = p /\ c[2] = e
    BY <1>2
  <2>2. ASSUME pc[c] # "returned", P!Fail(p, e),
               published' # published =>
                 pc[c] = "send" /\ published' = published \cup {message[c]}
        PROVE  CallInv' /\ CountInv'
    <3>1. /\ P!Return(c, "error")
          /\ UNCHANGED <<built, sentMessages>>
          /\ errorCount' = [errorCount EXCEPT ![p] = @ + 1]
      BY <2>2 DEF P!Fail
    <3>2. CASE published' = published
      BY <2>1, <2>2, <3>1, <3>2, ReturnStep
    <3>3. CASE pc[c] = "send" /\ published' = published \cup {message[c]}
      BY <2>1, <2>2, <3>1, <3>3, ReturnStep
    <3>. QED
      BY <2>2, <3>2, <3>3
  <2>3. CASE P!OnEventUnconnected(p, e)
    <3>1. /\ pc[c] # "returned" /\ P!Return(c, "unconnected")
          /\ UNCHANGED <<built, sentMessages, errorCount, published>>
      BY <2>3 DEF P!OnEventUnconnected
    <3>. QED
      BY <2>1, <3>1, ReturnStep
  <2>4. CASE P!ResolveMapping(p, e)
    <3>1. /\ pc' = [pc EXCEPT ![c] = "serialize"] /\ pc[c] # "returned"
          /\ UNCHANGED <<built, message, result, sentMessages, errorCount, published>>
          /\ DOMAIN target' = DOMAIN target
          /\ P!Mapping(p, Event[e].topic) # 0
          /\ \E topic : target' = [target EXCEPT ![c] =
               [topic  |-> topic,
                qos    |-> Mappings[p][P!Mapping(p, Event[e].topic)].qos,
                retain |-> Mappings[p][P!Mapping(p, Event[e].topic)].retain]]
      BY <2>4 DEF P!ResolveMapping, P!OnEvent
    <3>2. ~ignored
      BY <3>1 DEF P!Ignored
    <3>3. /\ DOMAIN target' = Calls /\ DOMAIN message' = Calls
          /\ \A d \in Calls : d # c => target'[d] = target[d]
      BY <2>1, <3>1 DEF CallInv
    <3>4. target'[c].qos = P!QoSOf(p, e)
      BY <2>1, <3>1, <3>3 DEF CallInv, P!QoSOf
    <3>. QED
      BY <2>1, <3>1, <3>2, <3>3, <3>4, GoOnStep
  <2>5. CASE P!ResolveFailed(p, e)
    BY <2>2, <2>5 DEF P!ResolveFailed, P!OnEvent
  <2>6. CASE P!ResolveVerbatim(p, e)
    <3>1. /\ pc' = [pc EXCEPT ![c] = "serialize"] /\ pc[c] # "returned"
          /\ UNCHANGED <<built, message, result, sentMessages, errorCount, published>>
          /\ DOMAIN target' = DOMAIN target
          /\ built[p].xform = "verbatim" /\ P!Mapping(p, Event[e].topic) = 0
          /\ target' = [target EXCEPT ![c] =
               [topic |-> Event[e].topic, qos |-> built[p].qos, retain |-> built[p].retain]]
      BY <2>6 DEF P!ResolveVerbatim, P!OnEvent, P!Verbatim
    <3>2. ~ignored
      BY <3>1 DEF P!Ignored
    <3>3. /\ DOMAIN target' = Calls /\ DOMAIN message' = Calls
          /\ \A d \in Calls : d # c => target'[d] = target[d]
      BY <2>1, <3>1 DEF CallInv
    <3>4. target'[c].qos = P!QoSOf(p, e)
      BY <2>1, <3>1, <3>3 DEF CallInv, P!QoSOf
    <3>. QED
      BY <2>1, <3>1, <3>2, <3>3, <3>4, GoOnStep
  <2>7. CASE P!ResolveIgnored(p, e)
    <3>1. /\ pc[c] # "returned" /\ P!Return(c, "nil") /\ ignored
          /\ UNCHANGED <<built, sentMessages, errorCount, published>>
      BY <2>7 DEF P!ResolveIgnored, P!OnEvent, P!Ignored
    <3>2. P!Ignored(c[1], c[2])
      BY <2>1, <3>1
    <3>. HIDE DEF c, ignored
    <3>3. /\ pc[c] # "returned" /\ P!Return(c, "nil") /\ built' = built
          /\ published' = published /\ errorCount' = errorCount
          /\ sentMessages' = sentMessages
      BY <3>1
    <3>. QED
      BY <2>1, <3>2, <3>3, ReturnStep
  <2>8. CASE P!SerializeFailed(p, e)
    BY <2>2, <2>8 DEF P!SerializeFailed
  <2>9. CASE P!Serialize(p, e)
    <3>1. PICK props \in P!FieldsToUserProperties(fields[e]) :
            message' = [message EXCEPT ![c] =
              [origin |-> e, publisher |-> p,
               topic |-> target[c].topic, qos |-> target[c].qos,
               retain |-> target[c].retain,
               props |-> P!Inject(Ctx[<<p, e>>], props)]]
      BY <2>9 DEF P!Serialize
    <3>2. /\ pc' = [pc EXCEPT ![c] = "send"] /\ pc[c] = "serialize"
          /\ UNCHANGED <<built, target, result, sentMessages, errorCount, published>>
      BY <2>9 DEF P!Serialize
    <3>3. ~ignored
      BY <2>1, <3>2 DEF CallInv
    <3>4. /\ DOMAIN target' = Calls /\ DOMAIN message' = Calls
          /\ \A d \in Calls : d # c => message'[d] = message[d]
          /\ message'[c].publisher = p /\ message'[c].origin = e
          /\ message'[c].qos = target[c].qos
      BY <2>1, <3>1, <3>2 DEF CallInv
    <3>5. message'[c].qos = P!QoSOf(p, e)
      BY <2>1, <3>2, <3>4 DEF CallInv
    <3>. QED
      BY <2>1, <3>2, <3>3, <3>4, <3>5, GoOnStep
  <2>10. CASE P!Send(p, e)
    <3>1. /\ pc[c] = "send" /\ P!Return(c, "nil")
          /\ UNCHANGED <<built, errorCount>>
          /\ \/ published' = published \cup {message[c]}
             \/ message[c].qos = 0 /\ published' = published
          /\ sentMessages' = [sentMessages EXCEPT ![p] = @ + 1]
      BY <2>10 DEF P!Send
    <3>2. ~ignored
      BY <2>1, <3>1 DEF CallInv
    <3>3. ~P!Ignored(c[1], c[2])
      BY <2>1, <3>2
    <3>. HIDE DEF c, ignored
    <3>4. /\ pc[c] = "send" /\ P!Return(c, "nil") /\ built' = built
          /\ \/ published' = published \cup {message[c]}
             \/ message[c].qos = 0 /\ published' = published
          /\ errorCount' = errorCount
          /\ sentMessages' = [sentMessages EXCEPT ![c[1]] = @ + 1]
      BY <2>1, <3>1
    <3>5. CASE published' = published \cup {message[c]}
      BY <2>1, <3>3, <3>4, <3>5, ReturnStep
    <3>6. CASE message[c].qos = 0 /\ published' = published
      BY <2>1, <3>3, <3>4, <3>6, ReturnStep
    <3>. QED
      BY <3>4, <3>5, <3>6
  <2>11. CASE P!SendFailed(p, e)
    BY <2>2, <2>11 DEF P!SendFailed
  <2>. QED
    BY <1>2, <2>3, <2>4, <2>5, <2>6, <2>7, <2>8, <2>9, <2>10, <2>11 DEF P!Step
<1>3. ASSUME NEW c \in Calls, P!Step(c[1], c[2]) PROVE CallInv' /\ CountInv'
  <2>1. c[1] \in Publishers /\ c[2] \in Events /\ <<c[1], c[2]>> = c
    BY PathAssumption DEF PathAssumption
  <2>. QED
    BY <1>2, <1>3, <2>1
<1>. QED
  BY <1>1, <1>3 DEF P!Next

(* The calls and the counters hold what is said of them.                   *)
LEMMA CallInvariant == Spec => [](CallInv /\ CountInv)
<1>1. Init => CallInv /\ CountInv
  BY CallInit DEF Init
<1>2. CallInv /\ CountInv /\ [Next]_vars => (CallInv /\ CountInv)'
  <2>. SUFFICES ASSUME CallInv, CountInv, [Next]_vars
                PROVE  CallInv' /\ CountInv'
    OBVIOUS
  <2>1. ASSUME UNCHANGED publisherVars PROVE CallInv' /\ CountInv'
    <3>1. \A q, e : P!Ignored(q, e)' = P!Ignored(q, e)
      BY <2>1 DEF P!Ignored, P!Mapping, P!SelectInSeq, P!Min, publisherVars
    <3>5. \A q, e : P!QoSOf(q, e)' = P!QoSOf(q, e)
      BY <2>1 DEF P!QoSOf, P!Mapping, P!SelectInSeq, P!Min, publisherVars
    <3>2. \A q, e : P!PublishedBy(q, e)' = P!PublishedBy(q, e)
      BY <2>1 DEF P!PublishedBy, publisherVars
    <3>3. \A q : Failed(q)' = Failed(q) /\ Delivered(q)' = Delivered(q)
      BY <2>1, <3>1 DEF Failed, Delivered, publisherVars
    <3>4. P!ResultTruthful'
      BY <2>1, <3>1, <3>2, <3>5 DEF CallInv, P!ResultTruthful, publisherVars
    <3>. QED
      <4>1. CallInv'
        BY <2>1, <3>1, <3>4, <3>5 DEF CallInv, publisherVars
      <4>2. CountInv'
        BY <2>1, <3>3 DEF CountInv, publisherVars
      <4>. QED
        BY <4>1, <4>2
  <2>2. CASE Publish
    BY <2>2, CallStep DEF Publish
  <2>3. CASE Receive
    BY <2>1, <2>3 DEF Receive
  <2>4. CASE Handle
    BY <2>1, <2>4 DEF Handle
  <2>5. CASE UNCHANGED vars
    BY <2>1, <2>5 DEF vars
  <2>. QED
    BY <2>2, <2>3, <2>4, <2>5 DEF Next
<1>. QED
  BY <1>1, <1>2, PTL DEF Spec

(* Whatever fails and however the calls interleave: after nil the broker   *)
(* has what was sent with QoS 1 or 2, and it has at most one message of a  *)
(* call, none of one that was refused or ignored.                          *)
THEOREM AlwaysTruthful == Spec => []ResultTruthful
<1>1. CallInv => ResultTruthful
  BY DEF CallInv, ResultTruthful
<1>. QED
  BY <1>1, CallInvariant, PTL

(* However many calls end in whichever way, the publishers' counters agree *)
(* with what they have returned.                                           *)
THEOREM CountersAlwaysAgree == Spec => []CountersAgree
<1>1. CountInv => CountersAgree
  <2>1. \A U : P!Cardinality(U) = Cardinality(U)
    BY DEF P!Cardinality, Cardinality
  <2>. QED
    BY <2>1 DEF CountInv, CountersAgree, P!CountersAgree, Failed, Delivered
<1>. QED
  BY <1>1, CallInvariant, PTL

-----------------------------------------------------------------------------
(* The subscribers                                                         *)

(* FindSubscription is the first subscription that matches the packet.     *)
LEMMA SubscriptionFirst ==
  ASSUME NEW s \in S!Subscribers, S!FindSubscription(s) # 0
  PROVE  LET i == S!FindSubscription(s)
             Matching(j) == packet.topic \in TopicsOf[Subscriptions[s][j].pattern]
         IN  i \in DOMAIN Subscriptions[s] /\ Matching(i) /\ \A j \in 1..(i - 1) : ~Matching(j)
<1> DEFINE I == {j \in 1..Len(Subscriptions[s]) :
                   packet.topic \in TopicsOf[Subscriptions[s][j].pattern]}
           i == S!FindSubscription(s)
<1>1. i = IF I # {} THEN Min(I) ELSE 0
  BY DEF S!FindSubscription, S!SelectInSeq, S!Min, Min
<1>2. I \in SUBSET Nat
  OBVIOUS
<1>3. DOMAIN Subscriptions[s] = 1..Len(Subscriptions[s]) /\ Len(Subscriptions[s]) \in Nat
  BY PathAssumption DEF PathAssumption, S!Subscribers
<1>4. \A j : j \in I <=> /\ j \in 1..Len(Subscriptions[s])
                         /\ packet.topic \in TopicsOf[Subscriptions[s][j].pattern]
  OBVIOUS
<1>. HIDE DEF I, i
<1>5. i \in I /\ \A y \in I : i <= y
  BY <1>1, <1>2, FirstPosition DEF i
<1>6. i \in 1..Len(Subscriptions[s]) /\ packet.topic \in TopicsOf[Subscriptions[s][i].pattern]
  BY <1>4, <1>5
<1>7. ASSUME NEW j \in 1..(i - 1)
      PROVE  packet.topic \notin TopicsOf[Subscriptions[s][j].pattern]
  <2>1. j \in 1..Len(Subscriptions[s]) /\ ~(i <= j)
    BY <1>3, <1>6
  <2>. QED
    BY <1>4, <1>5, <2>1
<1>. QED
  BY <1>3, <1>6, <1>7 DEF i

(* The counters of the subscribers are numbers, and count every call.      *)
HandledInv ==
  /\ turn \in 1..(NumSubscribers + 1)
  /\ received \in [S!Subscribers -> Nat]
  /\ dropped \in [S!Subscribers -> Nat]
  /\ handled \in [S!Subscribers -> Nat]
  /\ errors \in [S!Subscribers -> [S!Kinds -> Nat]]
  /\ EveryCallCounted

(* The sum of a subscriber's errors, by kind.                              *)
Errors(e) == e["subscription"] + e["deserialize"] + e["vinculum_topic"] + e["subscriber"]

(* One more error of one kind is one more error.                           *)
LEMMA OneMoreError ==
  ASSUME NEW e \in [S!Kinds -> Nat], NEW kind \in S!Kinds
  PROVE  /\ [e EXCEPT ![kind] = @ + 1] \in [S!Kinds -> Nat]
         /\ Errors([e EXCEPT ![kind] = @ + 1]) = Errors(e) + 1
         /\ Errors(e) \in Nat
  BY DEF S!Kinds, Errors

(* Every step of a subscriber counts the call it ends, once.               *)
LEMMA HandledStep ==
  ASSUME HandledInv, S!Step
  PROVE  HandledInv'
<1>1. NumSubscribers \in Nat
  BY PathAssumption DEF PathAssumption
<1>2. \A s \in S!Subscribers : handled[s] = received[s] + dropped[s] + Errors(errors[s])
  <2>1. ASSUME NEW s \in S!Subscribers
        PROVE  handled[s] = received[s] + dropped[s] + Errors(errors[s])
    <3>1. /\ received[s] \in Nat /\ dropped[s] \in Nat
          /\ errors[s]["subscription"] \in Nat /\ errors[s]["deserialize"] \in Nat
          /\ errors[s]["vinculum_topic"] \in Nat /\ errors[s]["subscriber"] \in Nat
      BY DEF HandledInv, S!Kinds
    <3>2. handled[s] = received[s] + dropped[s] + errors[s]["subscription"]
            + errors[s]["deserialize"] + errors[s]["vinculum_topic"] + errors[s]["subscriber"]
      BY DEF HandledInv, EveryCallCounted, S!EveryCallCounted
    <3>. QED
      BY <3>1, <3>2 DEF Errors
  <2>. QED
    BY <2>1
<1>3. ASSUME turn' \in 1..(NumSubscribers + 1),
             received' \in [S!Subscribers -> Nat], dropped' \in [S!Subscribers -> Nat],
             handled' \in [S!Subscribers -> Nat],
             errors' \in [S!Subscribers -> [S!Kinds -> Nat]],
             \A s \in S!Subscribers :
               handled'[s] = received'[s] + dropped'[s] + Errors(errors'[s])
      PROVE  HandledInv'
  <2>1. ASSUME NEW s \in S!Subscribers
        PROVE  handled'[s] = received'[s] + dropped'[s] + errors'[s]["subscription"]
            + errors'[s]["deserialize"] + errors'[s]["vinculum_topic"] + errors'[s]["subscriber"]
    <3>1. /\ received'[s] \in Nat /\ dropped'[s] \in Nat
          /\ errors'[s]["subscription"] \in Nat /\ errors'[s]["deserialize"] \in Nat
          /\ errors'[s]["vinculum_topic"] \in Nat /\ errors'[s]["subscriber"] \in Nat
      BY <1>3 DEF S!Kinds
    <3>. QED
      BY <1>3, <3>1 DEF Errors
  <2>2. EveryCallCounted'
    BY <2>1 DEF EveryCallCounted, S!EveryCallCounted
  <2>. QED
    BY <1>3, <2>2 DEF HandledInv
<1>4. ASSUME UNCHANGED <<received, errors, dropped, handled>>,
             turn' \in 1..(NumSubscribers + 1)
      PROVE  HandledInv'
  BY <1>4, <1>2, <1>3 DEF HandledInv
<1>5. ASSUME S!Handling
      PROVE  /\ turn \in S!Subscribers
             /\ turn' \in 1..(NumSubscribers + 1)
             /\ handled' \in [S!Subscribers -> Nat]
             /\ \A s \in S!Subscribers :
                  handled'[s] = IF s = turn THEN handled[s] + 1 ELSE handled[s]
  BY <1>1, <1>5 DEF HandledInv, S!Handling, S!Subscribers
<1>6. ASSUME NEW kind \in S!Kinds, S!Handling, UNCHANGED <<received, dropped>>,
             errors' = [errors EXCEPT ![turn][kind] = @ + 1]
      PROVE  HandledInv'
  <2>1. errors' = [errors EXCEPT ![turn] = [errors[turn] EXCEPT ![kind] = @ + 1]]
    BY <1>6
  <2>2. errors[turn] \in [S!Kinds -> Nat]
    BY <1>5, <1>6 DEF HandledInv
  <2>3. errors' \in [S!Subscribers -> [S!Kinds -> Nat]]
    BY <1>5, <1>6, <2>1, <2>2, OneMoreError DEF HandledInv
  <2>4. ASSUME NEW s \in S!Subscribers
        PROVE  /\ Errors(errors'[s]) = IF s = turn THEN Errors(errors[s]) + 1 ELSE Errors(errors[s])
               /\ Errors(errors[s]) \in Nat
    <3>1. errors[s] \in [S!Kinds -> Nat]
      BY DEF HandledInv
    <3>2. errors'[s] = IF s = turn THEN [errors[turn] EXCEPT ![kind] = @ + 1] ELSE errors[s]
      BY <1>5, <1>6, <2>1 DEF HandledInv
    <3>3. /\ Errors([errors[turn] EXCEPT ![kind] = @ + 1]) = Errors(errors[turn]) + 1
          /\ Errors(errors[s]) \in Nat
      BY <1>6, <2>2, <3>1, OneMoreError
    <3>4. CASE s = turn
      BY <3>2, <3>3, <3>4
    <3>5. CASE s # turn
      BY <3>2, <3>3, <3>5
    <3>. QED
      BY <3>4, <3>5
  <2>5. \A s \in S!Subscribers : received'[s] \in Nat /\ dropped'[s] \in Nat
    BY <1>6 DEF HandledInv
  <2>6. ASSUME NEW s \in S!Subscribers
        PROVE  handled'[s] = received'[s] + dropped'[s] + Errors(errors'[s])
    <3>1. /\ handled[s] = received[s] + dropped[s] + Errors(errors[s])
          /\ received'[s] = received[s] /\ dropped'[s] = dropped[s]
          /\ received[s] \in Nat /\ dropped[s] \in Nat
      BY <1>2, <1>6, <2>5
    <3>2. handled'[s] = IF s = turn THEN handled[s] + 1 ELSE handled[s]
      BY <1>5, <1>6
    <3>. QED
      BY <2>4, <3>1, <3>2
  <2>7. received' \in [S!Subscribers -> Nat] /\ dropped' \in [S!Subscribers -> Nat]
    BY <1>6 DEF HandledInv
  <2>. QED
    BY <1>3, <1>5, <1>6, <2>3, <2>6, <2>7
<1>7. CASE S!Skip
  BY <1>1, <1>4, <1>7 DEF S!Skip, HandledInv
<1>8. CASE S!RouteReturn
  BY <1>1, <1>4, <1>8 DEF S!RouteReturn
<1>9. \A s \in S!Subscribers : Errors(errors[s]) \in Nat
  <2>1. S!Kinds # {}
    BY DEF S!Kinds
  <2>. QED
    BY <2>1, OneMoreError DEF HandledInv
<1>10. CASE S!HandleRetainedDropped
  <2>1. S!Handling /\ dropped' = [dropped EXCEPT ![turn] = @ + 1]
        /\ UNCHANGED <<received, errors>>
    BY <1>10 DEF S!HandleRetainedDropped
  <2>2. dropped' \in [S!Subscribers -> Nat] /\ received' \in [S!Subscribers -> Nat]
        /\ errors' \in [S!Subscribers -> [S!Kinds -> Nat]]
    BY <1>5, <2>1 DEF HandledInv
  <2>3. ASSUME NEW s \in S!Subscribers
        PROVE  handled'[s] = received'[s] + dropped'[s] + Errors(errors'[s])
    <3>1. /\ dropped'[s] = IF s = turn THEN dropped[s] + 1 ELSE dropped[s]
          /\ received[s] \in Nat /\ dropped[s] \in Nat
      BY <2>1 DEF HandledInv
    <3>. QED
      BY <1>2, <1>5, <1>9, <2>1, <3>1
  <2>. QED
    BY <1>3, <1>5, <2>1, <2>2, <2>3
<1>11. CASE S!HandleMessage
  <2>1. S!Handling /\ received' = [received EXCEPT ![turn] = @ + 1]
        /\ UNCHANGED <<dropped, errors>>
    BY <1>11 DEF S!HandleMessage
  <2>2. dropped' \in [S!Subscribers -> Nat] /\ received' \in [S!Subscribers -> Nat]
        /\ errors' \in [S!Subscribers -> [S!Kinds -> Nat]]
    BY <1>5, <2>1 DEF HandledInv
  <2>3. ASSUME NEW s \in S!Subscribers
        PROVE  handled'[s] = received'[s] + dropped'[s] + Errors(errors'[s])
    <3>1. /\ received'[s] = IF s = turn THEN received[s] + 1 ELSE received[s]
          /\ received[s] \in Nat /\ dropped[s] \in Nat
      BY <2>1 DEF HandledInv
    <3>. QED
      BY <1>2, <1>5, <1>9, <2>1, <3>1
  <2>. QED
    BY <1>3, <1>5, <2>1, <2>2, <2>3
<1>12. CASE S!HandleMessageFailed
  <2>1. /\ S!Handling /\ UNCHANGED <<received, dropped>>
        /\ \E kind \in S!Kinds : errors' = [errors EXCEPT ![turn][kind] = @ + 1]
    BY <1>12 DEF S!HandleMessageFailed
  <2>. QED
    BY <1>6, <2>1
<1>13. CASE S!HandleMessageRefused
  <2>1. /\ S!Handling /\ UNCHANGED <<received, dropped>>
        /\ errors' = [errors EXCEPT ![turn]["subscriber"] = @ + 1]
    BY <1>13 DEF S!HandleMessageRefused
  <2>2. "subscriber" \in S!Kinds
    BY DEF S!Kinds
  <2>. QED
    BY <1>6, <2>1, <2>2
<1>. QED
  BY <1>7, <1>8, <1>10, <1>11, <1>12, <1>13 DEF S!Step

(* A packet that starts, and one that a publisher handles, counts nothing. *)
LEMMA HandledInvariant == Spec => []HandledInv
<1>1. Init => HandledInv
  <2>1. NumSubscribers \in Nat
    BY PathAssumption DEF PathAssumption
  <2>. QED
    BY <2>1 DEF Init, S!Init, HandledInv, S!Subscribers, S!Kinds, EveryCallCounted,
                S!EveryCallCounted
<1>2. HandledInv /\ [Next]_vars => HandledInv'
  <2>. SUFFICES ASSUME HandledInv, [Next]_vars PROVE HandledInv'
    OBVIOUS
  <2>1. NumSubscribers \in Nat
    BY PathAssumption DEF PathAssumption
  <2>2. ASSUME UNCHANGED <<received, errors, dropped, handled>>,
               turn' \in 1..(NumSubscribers + 1)
        PROVE  HandledInv'
    BY <2>2 DEF HandledInv, EveryCallCounted, S!EveryCallCounted
  <2>3. CASE Publish
    BY <2>2, <2>3 DEF Publish, subscriberVars, HandledInv
  <2>4. CASE Receive
    BY <2>1, <2>2, <2>4 DEF Receive, S!Route
  <2>5. CASE Handle
    BY <2>5, HandledStep DEF Handle
  <2>6. CASE UNCHANGED vars
    BY <2>2, <2>6 DEF vars, subscriberVars, HandledInv
  <2>. QED
    BY <2>3, <2>4, <2>5, <2>6 DEF Next
<1>. QED
  BY <1>1, <1>2, PTL DEF Spec

(* However often HandleMessage is called and wherever it fails, its        *)
(* counters account for every call.                                        *)
THEOREM AllCallsCounted == Spec => []EveryCallCounted
<1>1. HandledInv => EveryCallCounted
  BY DEF HandledInv
<1>. QED
  BY <1>1, HandledInvariant, PTL

-----------------------------------------------------------------------------
(* Topics                                                                  *)

(* The topic m was published under is its event's, or a function's.        *)
SentAs(m) ==
  m.publisher # None =>
    m.topic = Event[m.origin].topic \/ Renamed(m.publisher, m.origin)

(* The packet being routed has the topic it was published under.           *)
TopicInv ==
  /\ packet # None => SentAs(packet)
  /\ turn \in Nat \ {0}
  /\ TopicFaithful

(* What is delivered is named by the subscription that decides.            *)
LEMMA TopicDelivered ==
  ASSUME TopicInv, S!Handling, S!Deliver(turn)
  PROVE  TopicFaithful'
<1>1. turn \in S!Subscribers /\ packet # None
  BY PathAssumption DEF PathAssumption, TopicInv, S!Handling, S!Subscribers
<1> DEFINE i == S!FindSubscription(turn)
<1>2. i # 0
  BY DEF S!Deliver
<1>3. PICK out \in S!Named(turn, i) : delivered' = delivered \cup {S!Delivery(turn, i, out)}
  BY DEF S!Deliver
<1> DEFINE d == S!Delivery(turn, i, out)
<1>4. /\ i \in DOMAIN Subscriptions[turn]
      /\ packet.topic \in TopicsOf[Subscriptions[turn][i].pattern]
      /\ \A j \in 1..(i - 1) : packet.topic \notin TopicsOf[Subscriptions[turn][j].pattern]
  BY <1>1, <1>2, SubscriptionFirst
<1>5. /\ d.subscriber = turn /\ d.topic = packet.topic
      /\ d.publisher = packet.publisher /\ d.origin = packet.origin
      /\ d.name = IF out = None THEN packet.topic ELSE out
  BY DEF S!Delivery
<1>6. d.name # d.topic => Subscriptions[turn][i].func /\ d.name \in VinculumTopics
  <2>. HIDE DEF d, i
  <2>. QED
    BY <1>3, <1>5 DEF S!Named
<1>7. Decides(d, i)
  <2>. HIDE DEF d, i
  <2>. QED
    BY <1>4, <1>5 DEF Decides
<1>8. d.publisher # None =>
        d.topic = Event[d.origin].topic \/ Renamed(d.publisher, d.origin)
  <2>. HIDE DEF d, i
  <2>. QED
    BY <1>1, <1>5 DEF TopicInv, SentAs
<1>. HIDE DEF d, i
<1>9. ASSUME NEW e \in delivered'
      PROVE  \E k \in DOMAIN Subscriptions[e.subscriber] :
               /\ Decides(e, k)
               /\ e.name # e.topic =>
                    Subscriptions[e.subscriber][k].func /\ e.name \in VinculumTopics
               /\ e.publisher # None =>
                    e.topic = Event[e.origin].topic \/ Renamed(e.publisher, e.origin)
  <2>1. CASE e \in delivered
    BY <2>1 DEF TopicInv, TopicFaithful
  <2>2. CASE e = d
    BY <1>4, <1>5, <1>6, <1>7, <1>8, <2>2
  <2>. QED
    BY <1>3, <2>1, <2>2 DEF d
<1>. QED
  BY <1>9 DEF TopicFaithful

(* The publishers and the broker keep the topic, and so do the subscribers. *)
LEMMA TopicStep ==
  ASSUME PublisherInv, TopicInv, [Next]_vars
  PROVE  TopicInv'
<1>1. ASSUME UNCHANGED <<delivered>>, packet' = packet \/ packet' = None,
             turn' \in Nat \ {0}
      PROVE  TopicInv'
  BY <1>1 DEF TopicInv, TopicFaithful, SentAs
<1>2. CASE Publish
  BY <1>1, <1>2 DEF Publish, subscriberVars, TopicInv
<1>3. CASE Receive
  <2>1. PICK m \in published \cup Foreign, replay \in BOOLEAN :
          S!Route([origin |-> m.origin, publisher |-> m.publisher, topic |-> m.topic,
                   retain |-> replay, props |-> m.props])
    BY <1>3 DEF Receive
  <2>2. m \in published => Chosen(built[m.publisher], m.publisher, m.origin, m)
    BY DEF PublisherInv, Sound
  <2>3. SentAs(m)
    <3>1. CASE m \in published
      BY <2>2, <3>1 DEF Chosen, SentAs, Renamed
    <3>2. CASE m \in Foreign
      BY <3>2, PathAssumption DEF PathAssumption, SentAs
    <3>. QED
      BY <3>1, <3>2
  <2>. QED
    BY <2>1, <2>3 DEF S!Route, TopicInv, TopicFaithful, SentAs
<1>4. CASE Handle
  <2>1. CASE S!Skip
    BY <1>1, <2>1 DEF S!Skip, TopicInv
  <2>2. CASE S!RouteReturn
    BY <1>1, <2>2 DEF S!RouteReturn
  <2>3. CASE S!HandleRetainedDropped
    BY <1>1, <2>3 DEF S!HandleRetainedDropped, S!Handling, TopicInv
  <2>4. ASSUME S!Handling, S!Deliver(turn), packet' = packet PROVE TopicInv'
    BY <2>4, TopicDelivered DEF TopicInv, S!Handling, SentAs
  <2>5. CASE S!HandleMessage
    BY <2>4, <2>5 DEF S!HandleMessage
  <2>6. CASE S!HandleMessageFailed
    BY <1>1, <2>6 DEF S!HandleMessageFailed, S!Handling, TopicInv
  <2>7. CASE S!HandleMessageRefused
    BY <2>4, <2>7 DEF S!HandleMessageRefused
  <2>. QED
    BY <1>4, <2>1, <2>2, <2>3, <2>5, <2>6, <2>7 DEF Handle, S!Step
<1>5. CASE UNCHANGED vars
  BY <1>1, <1>5 DEF vars, subscriberVars, TopicInv
<1>. QED
  BY <1>2, <1>3, <1>4, <1>5 DEF Next

(* Whatever the mappings, the subscriptions and the broker do, the topic   *)
(* the bus hears is the one the event had, unless a function named another. *)
THEOREM TopicAlwaysFaithful == Spec => []TopicFaithful
<1>1. Init => TopicInv
  BY DEF Init, S!Init, TopicInv, TopicFaithful
<1>2. PublisherInv /\ TopicInv /\ [Next]_vars => TopicInv'
  BY TopicStep
<1>3. TopicInv => TopicFaithful
  BY DEF TopicInv
<1>. QED
  BY <1>1, <1>2, <1>3, PathInvariant, PTL DEF Spec

-----------------------------------------------------------------------------
(* Fields                                                                  *)

(* What is being sent, what the broker has and what is routed hold the     *)
(* fields of their event, or are what another client has sent.             *)
FieldsInv ==
  /\ fields = [e \in Events |-> Event[e].fields]
  /\ \A c \in Calls : pc[c] = "send" => Holds(Event[c[2]].fields, message[c].props)
  /\ \A m \in published : Holds(Event[m.origin].fields, m.props)
  /\ packet # None /\ packet.publisher # None =>
       Holds(Event[packet.origin].fields, packet.props)
  /\ packet # None /\ packet.publisher = None =>
       \E m \in Foreign : m.origin = packet.origin /\ m.props = packet.props
  /\ turn \in Nat \ {0}
  /\ FieldsFaithful

(* Assign gives the values of the second map precedence.                   *)
LEMMA AssignIs ==
  ASSUME NEW f, NEW g
  PROVE  /\ DOMAIN S!Assign(f, g) = DOMAIN f \cup DOMAIN g
         /\ \A k \in DOMAIN f \cup DOMAIN g :
              S!Assign(f, g)[k] = IF k \in DOMAIN g THEN g[k] ELSE f[k]
  BY DEF S!Assign

(* The fields a subscriber makes of the packet are as FieldsFaithful says. *)
LEMMA FieldsDelivered ==
  ASSUME FieldsInv, S!Handling, S!Deliver(turn)
  PROVE  FieldsFaithful'
<1>1. turn \in S!Subscribers /\ packet # None
  BY PathAssumption DEF PathAssumption, FieldsInv, S!Handling, S!Subscribers
<1> DEFINE i == S!FindSubscription(turn)
<1>2. i # 0
  BY DEF S!Deliver
<1>3. PICK out : delivered' = delivered \cup {S!Delivery(turn, i, out)}
  BY DEF S!Deliver
<1> DEFINE d == S!Delivery(turn, i, out)
           own == Extracted[Subscriptions[turn][i].pattern, packet.topic]
           user == UserPropertiesToFields(packet.props)
           retained == S!Retained
<1>4. /\ i \in DOMAIN Subscriptions[turn]
      /\ packet.topic \in TopicsOf[Subscriptions[turn][i].pattern]
      /\ \A j \in 1..(i - 1) : packet.topic \notin TopicsOf[Subscriptions[turn][j].pattern]
  BY <1>1, <1>2, SubscriptionFirst
<1>5. /\ d.subscriber = turn /\ d.topic = packet.topic /\ d.replay = packet.retain
      /\ d.publisher = packet.publisher /\ d.origin = packet.origin
      /\ d.fields = S!Fields(turn, i)
  BY DEF S!Delivery
<1>6. S!UserPropertiesToFields(packet.props) = user
  BY DEF S!UserPropertiesToFields, UserPropertiesToFields, S!TraceHeaders, TraceHeaders,
         S!SelectLastInSeq, SelectLastInSeq, S!Max, Max
<1>7. d.fields = S!Assign(S!Assign(user, own), retained)
  BY <1>5, <1>6 DEF S!Fields
<1>8. /\ DOMAIN retained = IF packet.retain THEN {"$retained"} ELSE {}
      /\ packet.retain => retained["$retained"] = "true"
  BY DEF S!Retained
<1>9. /\ DOMAIN d.fields = DOMAIN user \cup DOMAIN own \cup DOMAIN retained
      /\ \A k \in DOMAIN d.fields :
           d.fields[k] = IF k \in DOMAIN retained THEN retained[k]
                         ELSE IF k \in DOMAIN own THEN own[k] ELSE user[k]
  <2>. HIDE DEF d, user, own, retained
  <2>1. /\ DOMAIN S!Assign(user, own) = DOMAIN user \cup DOMAIN own
        /\ \A k \in DOMAIN user \cup DOMAIN own :
             S!Assign(user, own)[k] = IF k \in DOMAIN own THEN own[k] ELSE user[k]
    BY AssignIs
  <2> DEFINE both == S!Assign(user, own)
             all == S!Assign(both, retained)
  <2>2. /\ DOMAIN all = DOMAIN both \cup DOMAIN retained
        /\ \A k \in DOMAIN both \cup DOMAIN retained :
             all[k] = IF k \in DOMAIN retained THEN retained[k] ELSE both[k]
    <3>. HIDE DEF both
    <3>. QED
      BY AssignIs
  <2>3. d.fields = all
    BY <1>7
  <2>. HIDE DEF all
  <2>. QED
    BY <2>1, <2>2, <2>3
<1> DEFINE Sender == IF packet.publisher # None THEN DOMAIN Event[packet.origin].fields
                     ELSE UNION {{m.props[j].key : j \in DOMAIN m.props} :
                                   m \in {f \in Foreign : f.origin = packet.origin}}
<1>10. /\ DOMAIN user = Sender \ TraceHeaders
       /\ \A k \in DOMAIN user : Meant(d, k, user[k])
  <2>1. CASE packet.publisher # None
    <3>1. Holds(Event[packet.origin].fields, packet.props)
      BY <1>1, <2>1 DEF FieldsInv
    <3>2. /\ DOMAIN user = DOMAIN Event[packet.origin].fields \ TraceHeaders
          /\ \A k \in DOMAIN user : user[k] = Event[packet.origin].fields[k]
      BY <3>1, FieldsReturn
    <3>. HIDE DEF d, user
    <3>. QED
      BY <1>5, <2>1, <3>2 DEF Meant
  <2>2. CASE packet.publisher = None
    <3>1. PICK m \in Foreign : m.origin = packet.origin /\ m.props = packet.props
      BY <1>1, <2>2 DEF FieldsInv
    <3>2. \A f \in Foreign : f.origin = packet.origin => f = m
      BY <3>1, PathAssumption DEF PathAssumption
    <3> DEFINE props == m.props
               Props == {props[j] : j \in DOMAIN props}
    <3>3. props \in Seq(Props)
      BY PathAssumption DEF PathAssumption
    <3>4. /\ DOMAIN user = {props[j].key : j \in 1..Len(props)} \ TraceHeaders
          /\ \A k \in DOMAIN user : \E j \in 1..Len(props) :
               /\ props[j].key = k /\ props[j].value = user[k]
               /\ \A l \in j + 1 .. Len(props) : props[l].key # k
      <4>. HIDE DEF Props, props
      <4>1. /\ DOMAIN UserPropertiesToFields(props)
                 = {props[j].key : j \in 1..Len(props)} \ TraceHeaders
            /\ \A k \in DOMAIN UserPropertiesToFields(props) : \E j \in 1..Len(props) :
                 /\ props[j].key = k /\ props[j].value = UserPropertiesToFields(props)[k]
                 /\ \A l \in j + 1 .. Len(props) : props[l].key # k
        BY <3>3, LastValueWins
      <4>2. user = UserPropertiesToFields(props)
        BY <3>1 DEF props
      <4>. QED
        BY <4>1, <4>2
    <3>5. DOMAIN props = 1..Len(props)
      <4>. HIDE DEF Props, props
      <4>. QED
        BY <3>3
    <3>6. \A x : x \in Sender <=> x \in {props[j].key : j \in 1..Len(props)}
      <4>1. \A x : x \in Sender <=> \E f \in Foreign :
              f.origin = packet.origin /\ \E j \in DOMAIN f.props : x = f.props[j].key
        BY <2>2
      <4>. HIDE DEF Sender
      <4>2. \A x : x \in Sender <=> \E j \in DOMAIN props : x = props[j].key
        BY <3>1, <3>2, <4>1
      <4>. QED
        BY <3>5, <4>2
    <3>7. DOMAIN user = Sender \ TraceHeaders
      <4>. HIDE DEF user, Sender, props
      <4>. QED
        BY <3>4, <3>6
    <3>8. ASSUME NEW k \in DOMAIN user PROVE Meant(d, k, user[k])
      <4>1. PICK j \in 1..Len(props) :
              /\ props[j].key = k /\ props[j].value = user[k]
              /\ \A l \in j + 1 .. Len(props) : props[l].key # k
        BY <3>4
      <4>2. m.props = props /\ m.origin = d.origin /\ d.publisher = None
        BY <1>5, <2>2, <3>1
      <4>. HIDE DEF d, user, props
      <4>. QED
        BY <3>5, <4>1, <4>2 DEF Meant
    <3>. QED
      BY <3>7, <3>8
  <2>. QED
    BY <2>1, <2>2
<1> DEFINE Faithful(e, k) ==
      LET mine == Extracted[Subscriptions[e.subscriber][k].pattern, e.topic]
          Expected(key, val) ==
            IF e.replay /\ key = "$retained" THEN val = "true"
            ELSE IF key \in DOMAIN mine THEN val = mine[key]
            ELSE key \notin TraceHeaders /\ Meant(e, key, val)
          Sent == IF e.publisher # None THEN DOMAIN Event[e.origin].fields
                  ELSE UNION {{m.props[j].key : j \in DOMAIN m.props} :
                                m \in {f \in Foreign : f.origin = e.origin}}
      IN  /\ Decides(e, k)
          /\ \A key \in DOMAIN e.fields : Expected(key, e.fields[key])
          /\ (Sent \ TraceHeaders) \cup DOMAIN mine \subseteq DOMAIN e.fields
          /\ e.replay => "$retained" \in DOMAIN e.fields
<1>11. Decides(d, i)
  <2>. HIDE DEF d, i
  <2>. QED
    BY <1>4, <1>5 DEF Decides
<1>12. /\ Extracted[Subscriptions[d.subscriber][i].pattern, d.topic] = own
       /\ (IF d.publisher # None THEN DOMAIN Event[d.origin].fields
           ELSE UNION {{m.props[j].key : j \in DOMAIN m.props} :
                         m \in {f \in Foreign : f.origin = d.origin}}) = Sender
  BY <1>5
<1>13. ASSUME NEW key \in DOMAIN d.fields
       PROVE  IF d.replay /\ key = "$retained" THEN d.fields[key] = "true"
              ELSE IF key \in DOMAIN own THEN d.fields[key] = own[key]
              ELSE key \notin TraceHeaders /\ Meant(d, key, d.fields[key])
  <2>. HIDE DEF d, i, own, user, retained, Sender
  <2>1. CASE d.replay /\ key = "$retained"
    BY <1>5, <1>8, <1>9, <2>1
  <2>2. CASE ~(d.replay /\ key = "$retained") /\ key \in DOMAIN own
    BY <1>5, <1>8, <1>9, <2>2
  <2>3. CASE ~(d.replay /\ key = "$retained") /\ key \notin DOMAIN own
    <3>1. key \in DOMAIN user /\ d.fields[key] = user[key]
      BY <1>5, <1>8, <1>9, <2>3
    <3>2. key \notin TraceHeaders /\ Meant(d, key, d.fields[key])
      BY <1>10, <3>1
    <3>. QED
      BY <2>3, <3>2
  <2>. QED
    BY <2>1, <2>2, <2>3
<1>14. /\ (Sender \ TraceHeaders) \cup DOMAIN own \subseteq DOMAIN d.fields
       /\ d.replay => "$retained" \in DOMAIN d.fields
  <2>. HIDE DEF d, i, own, user, retained, Sender
  <2>. QED
    BY <1>5, <1>8, <1>9, <1>10
<1>15. Faithful(d, i)
  <2>. HIDE DEF d, i
  <2>. QED
    BY <1>11, <1>12, <1>13, <1>14
<1>16. ASSUME NEW e \in delivered'
       PROVE  \E k \in DOMAIN Subscriptions[e.subscriber] : Faithful(e, k)
  <2>1. CASE e \in delivered
    BY <2>1 DEF FieldsInv, FieldsFaithful
  <2>2. CASE e = d
    <3>. HIDE DEF d, i, Faithful
    <3>. QED
      BY <1>4, <1>5, <1>15, <2>2
  <2>. QED
    BY <1>3, <2>1, <2>2
<1>. QED
  BY <1>16 DEF FieldsFaithful

(* A call of OnEvent keeps the fields of its event.                        *)
LEMMA FieldsPublisherStep ==
  ASSUME CallInv, FieldsInv, P!Next, UNCHANGED subscriberVars
  PROVE  FieldsInv'
<1>1. ASSUME fields' = fields,
             \A c \in Calls : pc'[c] = "send" => Holds(Event[c[2]].fields, message'[c].props),
             \A m \in published' : Holds(Event[m.origin].fields, m.props)
      PROVE  FieldsInv'
  <2>1. FieldsFaithful'
    BY DEF subscriberVars, FieldsInv, FieldsFaithful, Decides, Meant
  <2>. QED
    BY <1>1, <2>1 DEF subscriberVars, FieldsInv
<1>2. ASSUME NEW p \in Publishers, P!SetPublishFunc(p) PROVE FieldsInv'
  BY <1>1, <1>2 DEF P!SetPublishFunc, FieldsInv
<1>3. ASSUME NEW p \in Publishers, NEW e \in Events, <<p, e>> \in Calls,
             P!Step(p, e)
      PROVE  FieldsInv'
  <2> DEFINE c == <<p, e>>
  <2>1. c \in Calls /\ c[1] = p /\ c[2] = e
    BY <1>3
  <2>2. ASSUME NEW step \in {"serialize", "returned"},
               pc' = [pc EXCEPT ![c] = step], fields' = fields,
               \A b \in Calls : b # c => message'[b] = message[b],
               \A m \in published' :
                 m \in published \/ (pc[c] = "send" /\ m = message[c])
        PROVE  FieldsInv'
    <3>1. /\ pc'[c] # "send"
          /\ \A b \in Calls : b # c => pc'[b] = pc[b] /\ message'[b] = message[b]
      BY <2>1, <2>2 DEF CallInv
    <3>2. \A b \in Calls : pc'[b] = "send" => Holds(Event[b[2]].fields, message'[b].props)
      BY <2>1, <3>1 DEF FieldsInv
    <3>3. pc[c] = "send" => Holds(Event[message[c].origin].fields, message[c].props)
      BY <2>1 DEF FieldsInv, CallInv
    <3>4. \A m \in published' : Holds(Event[m.origin].fields, m.props)
      BY <2>2, <3>3 DEF FieldsInv
    <3>. QED
      BY <1>1, <2>2, <3>2, <3>4
  <2>3. ASSUME NEW res, P!Return(c, res), UNCHANGED fields,
               \A m \in published' :
                 m \in published \/ (pc[c] = "send" /\ m = message[c])
        PROVE  FieldsInv'
    <3>1. /\ pc' = [pc EXCEPT ![c] = "returned"]
          /\ \A b \in Calls : b # c => message'[b] = message[b]
      BY <2>3 DEF P!Return, CallInv
    <3>. HIDE DEF c
    <3>. QED
      BY <2>2, <2>3, <3>1
  <2>4. CASE P!OnEventUnconnected(p, e)
    BY <2>3, <2>4 DEF P!OnEventUnconnected
  <2>5. CASE P!ResolveMapping(p, e)
    BY <2>2, <2>5 DEF P!ResolveMapping
  <2>6. CASE P!ResolveFailed(p, e)
    BY <2>3, <2>6 DEF P!ResolveFailed, P!Fail
  <2>7. CASE P!ResolveVerbatim(p, e)
    BY <2>2, <2>7 DEF P!ResolveVerbatim
  <2>8. CASE P!ResolveIgnored(p, e)
    BY <2>3, <2>8 DEF P!ResolveIgnored
  <2>9. CASE P!SerializeFailed(p, e)
    BY <2>3, <2>9 DEF P!SerializeFailed, P!Fail
  <2>10. CASE P!Serialize(p, e)
    <3>1. PICK props \in P!FieldsToUserProperties(fields[e]) :
            message' = [message EXCEPT ![c] =
              [origin |-> e, publisher |-> p,
               topic |-> target[c].topic, qos |-> target[c].qos,
               retain |-> target[c].retain,
               props |-> P!Inject(Ctx[<<p, e>>], props)]]
      BY <2>10 DEF P!Serialize
    <3>2. fields[e] = Event[e].fields
      BY DEF FieldsInv
    <3>3. Holds(Event[e].fields, P!Inject(Ctx[<<p, e>>], props))
      BY <2>1, <3>2, PublishedHolds
    <3>4. /\ message'[c].props = P!Inject(Ctx[<<p, e>>], props)
          /\ \A b \in Calls : b # c => message'[b] = message[b] /\ pc'[b] = pc[b]
          /\ fields' = fields /\ published' = published
      BY <2>1, <2>10, <3>1 DEF CallInv, P!Serialize
    <3>5. \A b \in Calls : pc'[b] = "send" => Holds(Event[b[2]].fields, message'[b].props)
      BY <2>1, <3>3, <3>4 DEF FieldsInv
    <3>. QED
      BY <1>1, <3>4, <3>5 DEF FieldsInv
  <2>11. CASE P!Send(p, e)
    BY <2>3, <2>11 DEF P!Send
  <2>12. CASE P!SendFailed(p, e)
    BY <2>3, <2>12 DEF P!SendFailed, P!Fail
  <2>. QED
    BY <1>3, <2>4, <2>5, <2>6, <2>7, <2>8, <2>9, <2>10, <2>11, <2>12 DEF P!Step
<1>4. ASSUME NEW c \in Calls, P!Step(c[1], c[2]) PROVE FieldsInv'
  <2>1. c[1] \in Publishers /\ c[2] \in Events /\ <<c[1], c[2]>> = c
    BY PathAssumption DEF PathAssumption
  <2>. QED
    BY <1>3, <1>4, <2>1
<1>. QED
  BY <1>2, <1>4 DEF P!Next

(* So do the broker and the subscribers.                                   *)
LEMMA FieldsStep ==
  ASSUME CallInv, FieldsInv, [Next]_vars
  PROVE  FieldsInv'
<1>1. ASSUME UNCHANGED <<delivered, publisherVars>>, packet' = packet \/ packet' = None,
             turn' \in Nat \ {0}
      PROVE  FieldsInv'
  <2>1. FieldsFaithful'
    BY <1>1 DEF FieldsInv, FieldsFaithful, Decides, Meant
  <2>. QED
    BY <1>1, <2>1 DEF publisherVars, FieldsInv
<1>2. CASE Publish
  BY <1>2, FieldsPublisherStep DEF Publish
<1>3. CASE Receive
  <2>1. PICK m \in published \cup Foreign, replay \in BOOLEAN :
          S!Route([origin |-> m.origin, publisher |-> m.publisher, topic |-> m.topic,
                   retain |-> replay, props |-> m.props])
    BY <1>3 DEF Receive
  <2>2. /\ packet'.origin = m.origin /\ packet'.publisher = m.publisher
        /\ packet'.props = m.props
        /\ UNCHANGED <<delivered, publisherVars>> /\ turn' = 1
    BY <1>3, <2>1 DEF Receive, S!Route
  <2>3. FieldsFaithful'
    BY <2>2 DEF FieldsInv, FieldsFaithful, Decides, Meant
  <2>4. /\ m.publisher # None => Holds(Event[m.origin].fields, m.props)
        /\ m.publisher = None => m \in Foreign
    <3>1. CASE m \in published
      <4>1. m.publisher \in Publishers
        <5>1. <<m.publisher, m.origin>> \in Calls
          BY <3>1 DEF CallInv
        <5>2. Calls \subseteq Publishers \X Events
          BY PathAssumption DEF PathAssumption
        <5>. QED
          BY <5>1, <5>2
      <4>. QED
        BY <3>1, <4>1, PathAssumption DEF FieldsInv, PathAssumption
    <3>2. CASE m \in Foreign
      BY <3>2, PathAssumption DEF PathAssumption
    <3>. QED
      BY <3>1, <3>2
  <2>. QED
    BY <2>2, <2>3, <2>4 DEF publisherVars, FieldsInv
<1>4. CASE Handle
  <2>1. CASE S!Skip
    BY <1>1, <1>4, <2>1 DEF Handle, S!Skip, FieldsInv
  <2>2. CASE S!RouteReturn
    BY <1>1, <1>4, <2>2 DEF Handle, S!RouteReturn
  <2>3. CASE S!HandleRetainedDropped
    BY <1>1, <1>4, <2>3 DEF Handle, S!HandleRetainedDropped, S!Handling, FieldsInv
  <2>4. ASSUME S!Handling, S!Deliver(turn), packet' = packet, UNCHANGED publisherVars
        PROVE  FieldsInv'
    <3>1. FieldsFaithful'
      BY <2>4, FieldsDelivered
    <3>2. turn' \in Nat \ {0}
      BY <2>4 DEF S!Handling, FieldsInv
    <3>. QED
      BY <2>4, <3>1, <3>2 DEF publisherVars, FieldsInv
  <2>5. CASE S!HandleMessage
    BY <1>4, <2>4, <2>5 DEF Handle, S!HandleMessage
  <2>6. CASE S!HandleMessageFailed
    BY <1>1, <1>4, <2>6 DEF Handle, S!HandleMessageFailed, S!Handling, FieldsInv
  <2>7. CASE S!HandleMessageRefused
    BY <1>4, <2>4, <2>7 DEF Handle, S!HandleMessageRefused
  <2>. QED
    BY <1>4, <2>1, <2>2, <2>3, <2>5, <2>6, <2>7 DEF Handle, S!Step
<1>5. CASE UNCHANGED vars
  BY <1>1, <1>5 DEF vars, subscriberVars, FieldsInv
<1>. QED
  BY <1>2, <1>3, <1>4, <1>5 DEF Next

(* For every set of fields, in whatever order they become user properties  *)
(* and whatever else reads the packet, a subscriber gives the bus what the *)
(* sender gave, with the fields of the pattern and $retained on top.       *)
THEOREM FieldsAlwaysFaithful == Spec => []FieldsFaithful
<1>1. Init => FieldsInv
  BY DEF Init, P!Init, S!Init, FieldsInv, FieldsFaithful
<1>2. CallInv /\ FieldsInv /\ [Next]_vars => FieldsInv'
  BY FieldsStep
<1>3. FieldsInv => FieldsFaithful
  BY DEF FieldsInv
<1>. QED
  BY <1>1, <1>2, <1>3, CallInvariant, PTL DEF Spec

-----------------------------------------------------------------------------
(* Types                                                                   *)

(* What CallInv, CountInv and HandledInv do not say of the types.          *)
TypeInv ==
  /\ \A p \in Publishers : built[p] \in {P!Build(o) : o \in Options[p]}
  /\ publishFunc \in [Publishers -> BOOLEAN]
  /\ DOMAIN fields = Events
  /\ \A c \in Calls : target[c] = None \/ target[c].topic \in Topics
  /\ \A c \in Calls : pc[c] = "serialize" => target[c].topic \in Topics
  /\ \A c \in Calls : pc[c] = "send" => message[c].topic \in Topics
  /\ packet = None \/ packet.retain \in BOOLEAN
  /\ \A d \in delivered : d.subscriber \in S!Subscribers
  /\ packets \in 0..MaxPackets

(* Every variable starts with its type.                                    *)
LEMMA TypeInit == Init => TypeInv
<1>. SUFFICES ASSUME Init PROVE TypeInv
  OBVIOUS
<1>1. MaxPackets \in Nat
  BY PathAssumption DEF PathAssumption
<1>. QED
  BY <1>1 DEF Init, P!Init, S!Init, TypeInv

(* Every step of a publisher keeps the types.                              *)
LEMMA TypePublisherStep ==
  ASSUME CallInv, TypeInv, P!Next, UNCHANGED <<subscriberVars, packets>>
  PROVE  TypeInv'
<1>1. ASSUME UNCHANGED <<built, fields>>, publishFunc' \in [Publishers -> BOOLEAN],
             \A c \in Calls : target'[c] = None \/ target'[c].topic \in Topics,
             \A c \in Calls : pc'[c] = "serialize" => target'[c].topic \in Topics,
             \A c \in Calls : pc'[c] = "send" => message'[c].topic \in Topics
      PROVE  TypeInv'
  BY <1>1 DEF TypeInv, subscriberVars
<1>2. ASSUME NEW p \in Publishers, P!SetPublishFunc(p) PROVE TypeInv'
  BY <1>1, <1>2 DEF P!SetPublishFunc, TypeInv
<1>3. ASSUME NEW p \in Publishers, NEW e \in Events, <<p, e>> \in Calls,
             P!Step(p, e)
      PROVE  TypeInv'
  <2> DEFINE c == <<p, e>>
  <2>1. c \in Calls /\ Event[e].topic \in Topics /\ Renames \subseteq Topics
    BY <1>3, PathAssumption DEF PathAssumption
  <2>2. ASSUME NEW res, P!Return(c, res), UNCHANGED <<built, fields, publishFunc>>
        PROVE  TypeInv'
    <3>1. /\ pc' = [pc EXCEPT ![c] = "returned"]
          /\ target' = [target EXCEPT ![c] = None]
          /\ message' = [message EXCEPT ![c] = None]
      BY <2>2 DEF P!Return
    <3>. HIDE DEF c
    <3>2. \A b \in Calls : target'[b] = None \/ target'[b].topic \in Topics
      BY <2>1, <3>1 DEF TypeInv, CallInv
    <3>3. \A b \in Calls : pc'[b] = "serialize" => target'[b].topic \in Topics
      BY <2>1, <3>1 DEF TypeInv, CallInv
    <3>4. \A b \in Calls : pc'[b] = "send" => message'[b].topic \in Topics
      BY <2>1, <3>1 DEF TypeInv, CallInv
    <3>. QED
      BY <1>1, <2>2, <3>2, <3>3, <3>4 DEF TypeInv
  <2>3. ASSUME NEW t, t.topic \in Topics, target' = [target EXCEPT ![c] = t],
               pc' = [pc EXCEPT ![c] = "serialize"],
               UNCHANGED <<built, fields, publishFunc, message>>
        PROVE  TypeInv'
    <3>. HIDE DEF c
    <3>2. \A b \in Calls : target'[b] = None \/ target'[b].topic \in Topics
      BY <2>1, <2>3 DEF TypeInv, CallInv
    <3>3. \A b \in Calls : pc'[b] = "serialize" => target'[b].topic \in Topics
      BY <2>1, <2>3 DEF TypeInv, CallInv
    <3>4. \A b \in Calls : pc'[b] = "send" => message'[b].topic \in Topics
      BY <2>1, <2>3 DEF TypeInv, CallInv
    <3>. QED
      BY <1>1, <2>3, <3>2, <3>3, <3>4 DEF TypeInv
  <2>4. CASE P!OnEventUnconnected(p, e)
    BY <2>2, <2>4 DEF P!OnEventUnconnected
  <2>5. CASE P!ResolveMapping(p, e)
    <3> DEFINE i == P!Mapping(p, Event[e].topic)
    <3>1. PICK out \in Renames \cup {None} :
            target' = [target EXCEPT ![c] =
              [topic  |-> IF out = None THEN Event[e].topic ELSE out,
               qos    |-> Mappings[p][i].qos,
               retain |-> Mappings[p][i].retain]]
      BY <2>5 DEF P!ResolveMapping
    <3> DEFINE t == [topic  |-> IF out = None THEN Event[e].topic ELSE out,
                     qos    |-> Mappings[p][i].qos,
                     retain |-> Mappings[p][i].retain]
    <3>2. t.topic \in Topics
      BY <2>1
    <3>3. target' = [target EXCEPT ![c] = t]
      BY <3>1
    <3>4. /\ pc' = [pc EXCEPT ![c] = "serialize"]
          /\ UNCHANGED <<built, fields, publishFunc, message>>
      BY <2>5 DEF P!ResolveMapping
    <3>. HIDE DEF t, c
    <3>. QED
      BY <2>3, <3>2, <3>3, <3>4
  <2>6. CASE P!ResolveFailed(p, e)
    BY <2>2, <2>6 DEF P!ResolveFailed, P!Fail
  <2>7. CASE P!ResolveVerbatim(p, e)
    <3> DEFINE t == P!Verbatim(p, Event[e].topic)
    <3>1. t.topic \in Topics
      BY <2>1 DEF P!Verbatim
    <3>2. /\ target' = [target EXCEPT ![c] = t]
          /\ pc' = [pc EXCEPT ![c] = "serialize"]
          /\ UNCHANGED <<built, fields, publishFunc, message>>
      BY <2>7 DEF P!ResolveVerbatim
    <3>. HIDE DEF t, c
    <3>. QED
      BY <2>3, <3>1, <3>2
  <2>8. CASE P!ResolveIgnored(p, e)
    BY <2>2, <2>8 DEF P!ResolveIgnored
  <2>9. CASE P!SerializeFailed(p, e)
    BY <2>2, <2>9 DEF P!SerializeFailed, P!Fail
  <2>10. CASE P!Serialize(p, e)
    <3>1. PICK props :
            message' = [message EXCEPT ![c] =
              [origin |-> e, publisher |-> p,
               topic |-> target[c].topic, qos |-> target[c].qos,
               retain |-> target[c].retain, props |-> props]]
      BY <2>10 DEF P!Serialize
    <3>2. /\ pc[c] = "serialize" /\ pc' = [pc EXCEPT ![c] = "send"]
          /\ UNCHANGED <<built, fields, publishFunc, target>>
      BY <2>10 DEF P!Serialize
    <3>3. message'[c].topic = target[c].topic /\ target[c].topic \in Topics
      BY <2>1, <3>1, <3>2 DEF TypeInv, CallInv
    <3>4. \A b \in Calls : b # c => message'[b] = message[b] /\ pc'[b] = pc[b]
      BY <3>1, <3>2 DEF CallInv
    <3>5. pc'[c] = "send"
      BY <2>1, <3>2 DEF CallInv
    <3>. QED
      BY <1>1, <2>1, <3>2, <3>3, <3>4, <3>5 DEF TypeInv
  <2>11. CASE P!Send(p, e)
    BY <2>2, <2>11 DEF P!Send
  <2>12. CASE P!SendFailed(p, e)
    BY <2>2, <2>12 DEF P!SendFailed, P!Fail
  <2>. QED
    BY <1>3, <2>4, <2>5, <2>6, <2>7, <2>8, <2>9, <2>10, <2>11, <2>12 DEF P!Step
<1>4. ASSUME NEW c \in Calls, P!Step(c[1], c[2]) PROVE TypeInv'
  <2>1. c[1] \in Publishers /\ c[2] \in Events /\ <<c[1], c[2]>> = c
    BY PathAssumption DEF PathAssumption
  <2>. QED
    BY <1>3, <1>4, <2>1
<1>. QED
  BY <1>2, <1>4 DEF P!Next

(* So does every step of the broker and of a subscriber.                   *)
LEMMA TypeStep ==
  ASSUME CallInv, HandledInv, TypeInv, [Next]_vars
  PROVE  TypeInv'
<1>1. ASSUME UNCHANGED publisherVars,
             packet' = None \/ packet'.retain \in BOOLEAN,
             \A d \in delivered' : d.subscriber \in S!Subscribers,
             packets' \in 0..MaxPackets
      PROVE  TypeInv'
  BY <1>1 DEF TypeInv, publisherVars
<1>2. CASE Publish
  BY <1>2, TypePublisherStep DEF Publish
<1>3. CASE Receive
  <2>1. PICK m \in published \cup Foreign, replay \in BOOLEAN :
          S!Route([origin |-> m.origin, publisher |-> m.publisher, topic |-> m.topic,
                   retain |-> replay, props |-> m.props])
    BY <1>3 DEF Receive
  <2>2. packet'.retain \in BOOLEAN /\ delivered' = delivered
    BY <2>1 DEF S!Route
  <2>3. packets' \in 0..MaxPackets
    <3>1. packets \in 0..MaxPackets /\ MaxPackets \in Nat
      BY PathAssumption DEF PathAssumption, TypeInv
    <3>. QED
      BY <1>3, <3>1 DEF Receive
  <2>. QED
    BY <1>1, <1>3, <2>2, <2>3 DEF Receive, TypeInv
<1>4. CASE Handle
  <2>1. UNCHANGED publisherVars /\ packets' \in 0..MaxPackets
    BY <1>4 DEF Handle, TypeInv
  <2>2. ASSUME UNCHANGED delivered, packet' = packet \/ packet' = None PROVE TypeInv'
    BY <1>1, <2>1, <2>2 DEF TypeInv
  <2>3. ASSUME S!Handling, S!Deliver(turn), packet' = packet PROVE TypeInv'
    <3>1. turn \in S!Subscribers
      BY <2>3, PathAssumption DEF PathAssumption, HandledInv, S!Handling, S!Subscribers
    <3>2. PICK i, out : delivered' = delivered \cup {S!Delivery(turn, i, out)}
      BY <2>3 DEF S!Deliver
    <3>3. S!Delivery(turn, i, out).subscriber = turn
      BY DEF S!Delivery
    <3>4. \A d \in delivered' : d.subscriber \in S!Subscribers
      BY <3>1, <3>2, <3>3 DEF TypeInv
    <3>. QED
      BY <1>1, <2>1, <2>3, <3>4 DEF TypeInv
  <2>4. CASE S!Skip
    BY <2>2, <2>4 DEF S!Skip
  <2>5. CASE S!RouteReturn
    BY <2>2, <2>5 DEF S!RouteReturn
  <2>6. CASE S!HandleRetainedDropped
    BY <2>2, <2>6 DEF S!HandleRetainedDropped
  <2>7. CASE S!HandleMessage
    BY <2>3, <2>7 DEF S!HandleMessage
  <2>8. CASE S!HandleMessageFailed
    BY <2>2, <2>8 DEF S!HandleMessageFailed
  <2>9. CASE S!HandleMessageRefused
    BY <2>3, <2>9 DEF S!HandleMessageRefused
  <2>. QED
    BY <1>4, <2>4, <2>5, <2>6, <2>7, <2>8, <2>9 DEF Handle, S!Step
<1>5. CASE UNCHANGED vars
  BY <1>1, <1>5 DEF vars, subscriberVars, TypeInv
<1>. QED
  BY <1>2, <1>3, <1>4, <1>5 DEF Next

(* For every configuration, every variable of EventPath keeps its type.    *)
THEOREM TypeCorrect == Spec => []TypeOK
<1>1. CallInv /\ HandledInv /\ TypeInv /\ [Next]_vars => TypeInv'
  BY TypeStep
<1>2. CallInv /\ CountInv /\ HandledInv /\ TypeInv => TypeOK
  BY DEF CallInv, CountInv, HandledInv, TypeInv, TypeOK, P!TypeOK, S!TypeOK
<1>. QED
  BY <1>1, <1>2, TypeInit, CallInvariant, HandledInvariant, PTL DEF Spec
=============================================================================

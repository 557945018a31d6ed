------------------------------ MODULE MCEventPath ------------------------------
(* Two publishers, one with overlapping mappings and one with its builder's *)
(* defaults, and two subscribers with overlapping subscriptions, one of     *)
(* which asks the broker for more than it takes.  The event they share has  *)
(* a tracestate field of an earlier hop and one under the name that a       *)
(* pattern extracts; one call has a tracestate to put over it, the other    *)
(* has none and sends with QoS 0.  A foreign message repeats a key and      *)
(* claims to be retained.                                                   *)
EXTENDS EventPath

CONSTANTS p1, p2, e1, f1, t1, t2, t3, wide, narrow, named, all,
          span, vendor, stale, bag

MCTopicsOf == wide :> {t1, t2} @@ narrow :> {t1} @@ named :> {t1} @@ all :> {t1, t2, t3}

MCStripped == wide :> wide @@ narrow :> narrow @@ named :> narrow @@ all :> all

MCExtracted ==
  [pt \in {wide, narrow, named, all} \X {t1, t2, t3} |->
     IF pt = <<named, t1>> THEN "device" :> "d1" ELSE <<>>]

MCEvent ==
  e1 :> [topic  |-> t1,
         fields |-> "device" :> "mine" @@ "tracestate" :> stale]

MCCalls == {<<p1, e1>>, <<p2, e1>>}

MCCtx ==
  <<p1, e1>> :> [span |-> span, state |-> None, baggage |-> bag] @@
  <<p2, e1>> :> [span |-> span, state |-> vendor, baggage |-> None]

MCOptions ==
  p1 :> { <<>> } @@
  p2 :> { "xform" :> "error", "xform" :> "ignore", "qos" :> 2 @@ "retain" :> TRUE }

MCMappings ==
  p1 :> << [pattern |-> named, func |-> TRUE, qos |-> 0, retain |-> TRUE],
           [pattern |-> wide, func |-> FALSE, qos |-> 1, retain |-> FALSE] >> @@
  p2 :> << >>

MCSubscriptions ==
  << << [pattern |-> named, broker |-> None, func |-> TRUE],
        [pattern |-> wide, broker |-> all, func |-> FALSE] >>,
     << [pattern |-> all, broker |-> None, func |-> FALSE] >> >>

MCHandleRetained == <<FALSE, TRUE>>

MCForeign ==
  { [origin |-> f1, publisher |-> None, topic |-> t3, qos |-> 0, retain |-> TRUE,
     props  |-> << Property("site", "s1"), Property("$retained", "false"),
                   Property("site", "s2") >>] }
=============================================================================

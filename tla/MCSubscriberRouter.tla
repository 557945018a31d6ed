-------------------------- MODULE MCSubscriberRouter --------------------------
(* An instance of SubscriberRouter with overlapping patterns: one recipient *)
(* declares two patterns that match the same topic, another shares one of   *)
(* them, and the third has the other alone.                                 *)
EXTENDS SubscriberRouter, TLC

CONSTANTS r1, r2, r3, wide, narrow, t1, t2

MCPatternsOf == r1 :> <<wide, narrow>> @@ r2 :> <<wide>> @@ r3 :> <<narrow>>

MCTopicsOf == wide :> {t1, t2} @@ narrow :> {t1}
=============================================================================

---------------------------- MODULE MCClientRouter ----------------------------
(* An instance of ClientRouter with one subscriber, of one pattern.         *)
EXTENDS ClientRouter, TLC

CONSTANTS r1, p1, t1

MCPatternsOf == r1 :> <<p1>>

MCTopicsOf == p1 :> {t1}
=============================================================================

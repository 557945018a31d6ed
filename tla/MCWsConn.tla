------------------------------- MODULE MCWsConn -------------------------------
(* Three packets, split into one, two and three buffers.                    *)
EXTENDS WsConn, TLC

CONSTANTS puback, publish, subscribe

MCChunks == puback :> 1 @@ publish :> 3 @@ subscribe :> 2
=============================================================================

----------------------------- MODULE ClientStatus -----------------------------
(* What a host that starts an MQTTClient once is promised (doc.go:18-28,    *)
(* client.go:136-147, 216-241): how the answers of Start, IsConnected and   *)
(* Stop follow the one session with the broker.                             *)

CONSTANTS
  Stops          \* the calls of Stop

VARIABLES
  session,       \* "none", "connecting", "up", "outage" or "ended"
  established,   \* whether the session has ever been up
  isConnected,   \* what IsConnected answers
  started,       \* what Start has answered: "pending", "nil" or "error"
  stopped        \* the calls of Stop that ended the session and returned nil

vars == <<session, established, isConnected, started, stopped>>

Init ==
  /\ session = "none" /\ established = FALSE
  /\ isConnected = FALSE
  /\ started = "pending"
  /\ stopped = {}

\* Start opens the session.
Open ==
  /\ session = "none" /\ started = "pending"
  /\ session' = "connecting"
  /\ UNCHANGED <<established, isConnected, started, stopped>>

\* A connection is up, the first one or one that ends an outage.
Connect ==
  /\ session \in {"connecting", "outage"}
  /\ session' = "up" /\ established' = TRUE
  /\ UNCHANGED <<isConnected, started, stopped>>

\* IsConnected turns true only while a connection is up.
Report ==
  /\ session = "up"
  /\ isConnected' = TRUE
  /\ UNCHANGED <<session, established, started, stopped>>

\* It may turn false at any time: the connection was lost, or Stop was called.
Retract ==
  /\ isConnected' = FALSE
  /\ UNCHANGED <<session, established, started, stopped>>

\* No outage begins before IsConnected has turned false.
Lose ==
  /\ session = "up" /\ ~isConnected
  /\ session' = "outage"
  /\ UNCHANGED <<established, isConnected, started, stopped>>

\* The session ends for good: stopped, cancelled, or given up.
End ==
  /\ session \in {"connecting", "up", "outage"}
  /\ session' = "ended"
  /\ UNCHANGED <<established, isConnected, started, stopped>>

\* Start answers nil once the session has been up, even if it is so no longer.
Started ==
  /\ started = "pending" /\ established
  /\ started' = "nil"
  /\ UNCHANGED <<session, established, isConnected, stopped>>

Failed ==
  /\ started = "pending"
  /\ started' = "error"
  /\ UNCHANGED <<session, established, isConnected, stopped>>

\* A Stop of a started client answers nil when nothing is left of the session.
Stopped(t) ==
  /\ t \in Stops \ stopped
  /\ started = "nil" /\ session = "ended" /\ ~isConnected
  /\ stopped' = stopped \cup {t}
  /\ UNCHANGED <<session, established, isConnected, started>>

Next ==
  \/ Open \/ Connect \/ Report \/ Retract \/ Lose \/ End \/ Started \/ Failed
  \/ \E t \in Stops : Stopped(t)

Spec == Init /\ [][Next]_vars
=============================================================================

----------------------------- MODULE PacketChannel -----------------------------
(* What paho's packets.WriteTo expects of a connection that carries MQTT    *)
(* over WebSocket (ws.go:3-18): packets are written whole and one after the *)
(* other, each at most once, until the connection breaks.                   *)
EXTENDS Sequences

CONSTANTS
  Packets,   \* the packets to be written
  Content    \* what each consists of

VARIABLES
  sent,      \* the messages the broker receives
  broken,    \* whether the connection is broken
  written    \* the packets whose write has returned

Init == sent = <<>> /\ broken = FALSE /\ written = {}

Write(p) ==
  /\ p \notin written
  /\ written' = written \cup {p}
  /\ sent' = IF broken THEN sent ELSE Append(sent, Content[p])
  /\ UNCHANGED broken

Break == ~broken /\ broken' = TRUE /\ UNCHANGED <<sent, written>>

Next == Break \/ \E p \in Packets : Write(p)

Spec == Init /\ [][Next]_<<sent, broken, written>>
=============================================================================

---------------------------- MODULE MessageRouting ----------------------------
(* What the client and paho expect of the router (router.go:21-60, 95-104): *)
(* the recipients are a set, each message goes once to each of those that   *)
(* were there when it came and match its topic, in any order, and an alias  *)
(* stands for what the broker has said on this connection or for nothing.   *)
EXTENDS Sequences

CONSTANTS Recipients, Patterns, Topics, Aliases, PatternsOf, TopicsOf, None

VARIABLES
  registered,   \* the recipients
  meaning,      \* what the broker means by each alias
  stage,        \* of the message in hand: "idle", "resolve" or "dispatch"
  message,      \* the message: [topic, alias]
  audience,     \* the recipients there were when it came
  due           \* those it is still to be given to

vars == <<registered, meaning, stage, message, audience, due>>

Unassigned == [a \in Aliases |-> None]

Init ==
  /\ registered = {} /\ audience = {} /\ due = {}
  /\ meaning = Unassigned
  /\ stage = "idle" /\ message = [topic |-> None, alias |-> None]

Register(r) ==
  /\ registered' = registered \cup {r}
  /\ UNCHANGED <<meaning, stage, message, audience, due>>

\* The recipients of exactly one pattern go by its name.
Unregister(p) ==
  /\ registered' = {r \in registered : PatternsOf[r] # <<p>>}
  /\ UNCHANGED <<meaning, stage, message, audience, due>>

\* No message is in hand when a connection begins.
Connect ==
  /\ stage = "idle"
  /\ meaning' = Unassigned
  /\ UNCHANGED <<registered, stage, message, audience, due>>

Take(m) ==
  /\ stage = "idle"
  /\ stage' = "resolve" /\ message' = m /\ audience' = registered
  /\ meaning' = IF m.topic # None /\ m.alias # None
                THEN [meaning EXCEPT ![m.alias] = m.topic] ELSE meaning
  /\ UNCHANGED <<registered, due>>

Subject ==
  IF message.topic = None /\ message.alias # None
  THEN meaning[message.alias] ELSE message.topic

For(t) == {r \in audience : \E i \in DOMAIN PatternsOf[r] : t \in TopicsOf[PatternsOf[r][i]]}

Address ==
  /\ stage = "resolve"
  /\ Subject # None
  /\ stage' = "dispatch" /\ due' = For(Subject)
  /\ UNCHANGED <<registered, meaning, message, audience>>

\* A message that names no topic may be lost: its alias was forgotten.
Drop ==
  /\ stage = "resolve"
  /\ message.topic = None
  /\ stage' = "idle"
  /\ UNCHANGED <<registered, meaning, message, audience, due>>

Call(r) ==
  /\ r \in due
  /\ due' = due \ {r}
  /\ UNCHANGED <<registered, meaning, stage, message, audience>>

Finish ==
  /\ stage = "dispatch" /\ due = {}
  /\ stage' = "idle"
  /\ UNCHANGED <<registered, meaning, message, audience, due>>

Next ==
  \/ \E r \in Recipients : Register(r) \/ Call(r)
  \/ \E p \in Patterns : Unregister(p)
  \/ \E m \in [topic : Topics \cup {None}, alias : Aliases \cup {None}] : Take(m)
  \/ Connect \/ Address \/ Drop \/ Finish

Spec == Init /\ [][Next]_vars
=============================================================================

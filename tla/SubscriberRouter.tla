--------------------------- MODULE SubscriberRouter ---------------------------
(***************************************************************************)
(* client.subscriberRouter: the recipients, the snapshot each Route takes  *)
(* of them, and the topic aliases, through the connections one router      *)
(* serves.                                                                 *)
(*                                                                         *)
(* paho routes the packets of one connection one after the other, from the *)
(* CONNACK on, while autopaho's main loop runs OnConnectionUp; its workers *)
(* have ended before OnConnectionDown runs.  Recipients may be added and   *)
(* removed at any time.  The list of recipients is a Go slice: a header    *)
(* into an array which every copy of the header shares.                    *)
(***************************************************************************)
EXTENDS Integers, Sequences, FiniteSets

CONSTANTS
  Recipients,   \* the entries that may be registered, each once
  Patterns,     \* the topic patterns they use
  Topics,       \* the topics messages are published on
  Aliases,      \* the topic aliases a broker may use
  PatternsOf,   \* routerEntry.patterns of each recipient
  TopicsOf,     \* the topics that topicmatch.Matches accepts for each pattern
  None          \* no topic, no alias

ASSUME RouterAssumption ==
  /\ PatternsOf \in [Recipients -> Seq(Patterns)]
  /\ TopicsOf \in [Patterns -> SUBSET Topics]
  /\ None \notin Topics
  /\ None \notin Aliases

VARIABLES
  phase,      \* of the connection: "down", "fresh" until OnConnectionUp, "up"
  arrays,     \* every array of entries ever allocated
  entries,    \* subscriberRouter.entries: a slice header [array, len]
  added,      \* the recipients whose registration has run
  removed,    \* the patterns whose UnregisterHandler has run
  aliases,    \* subscriberRouter.aliases; an absent key is None
  routePc,    \* where Route is: "idle", "resolve" or "dispatch"
  packet,     \* the packet Route was called with, [topic, alias]
  snapshot,   \* Route's copy of entries
  topic,      \* m.Topic; None when empty
  next,       \* position of the range loop
  calls,      \* how often this Route has called each recipient's handler
  seen,       \* history: the recipients registered when the snapshot was taken
  meaning,    \* history: what the broker means by each alias on this connection
  forgotten   \* history: the aliases OnConnectionUp has cleared and nobody reassigned

registry == <<arrays, entries, added, removed>>
routing  == <<routePc, packet, snapshot, topic, next, calls, seen>>
vars == <<phase, registry, aliases, routing, meaning, forgotten>>

Packets == [topic : Topics \cup {None}, alias : Aliases \cup {None}]
Headers == [array : 1..Len(arrays), len : Nat]

\* The recipients a slice header shows.
Elements(slice) == SubSeq(arrays[slice.array], 1, slice.len)

\* routerEntry.matches
Matches(r, t) == \E i \in DOMAIN PatternsOf[r] : t \in TopicsOf[PatternsOf[r][i]]

TypeOK ==
  /\ phase \in {"down", "fresh", "up"}
  /\ arrays \in Seq(Seq(Recipients))
  /\ entries \in Headers /\ entries.len <= Len(arrays[entries.array])
  /\ added \subseteq Recipients
  /\ removed \subseteq Patterns
  /\ aliases \in [Aliases -> Topics \cup {None}]
  /\ routePc \in {"idle", "resolve", "dispatch"}
  /\ packet \in Packets
  /\ snapshot \in Headers /\ snapshot.len <= Len(arrays[snapshot.array])
  /\ topic \in Topics \cup {None}
  /\ next \in Nat
  /\ calls \in [Recipients -> Nat]
  /\ seen \subseteq Recipients
  /\ meaning \in [Aliases -> Topics \cup {None}]
  /\ forgotten \subseteq Aliases

Unassigned == [a \in Aliases |-> None]

NotCalled == [r \in Recipients |-> 0]

\* newSubscriberRouter: no entries, no aliases.
Init ==
  /\ phase = "down"
  /\ arrays = << <<>> >>
  /\ entries = [array |-> 1, len |-> 0]
  /\ added = {}
  /\ removed = {}
  /\ aliases = Unassigned
  /\ routePc = "idle"
  /\ packet = [topic |-> None, alias |-> None]
  /\ snapshot = [array |-> 1, len |-> 0]
  /\ topic = None
  /\ next = 1
  /\ calls = NotCalled
  /\ seen = {}
  /\ meaning = Unassigned
  /\ forgotten = {}

-----------------------------------------------------------------------------
(* The recipients.  Both mutators hold mu and allocate a fresh array.      *)

\* Mutant: the header counts an element too many.
AllocateLong(list) ==
  /\ arrays' = Append(arrays, list)
  /\ entries' = [array |-> Len(arrays) + 1, len |-> Len(list) + 1]

Allocate(list) ==
  /\ arrays' = Append(arrays, list)
  /\ entries' = [array |-> Len(arrays) + 1, len |-> Len(list)]

\* AddRecipient, and RegisterHandler which calls it with one pattern.
AddRecipient(r) ==
  /\ r \notin added
  /\ added' = added \cup {r}
  /\ Allocate(Append(Elements(entries), r))
  /\ UNCHANGED <<phase, removed, aliases, routing, meaning, forgotten>>

\* UnregisterHandler removes the entries registered under exactly this pattern;
\* the others stay in order.
Nth(places, n) == CHOOSE i \in places : Cardinality({j \in places : j <= i}) = n

\* Mutant: an entry goes as soon as one of its patterns is p.
KeptWithout(p) ==
  LET list == Elements(entries)
      stay == {i \in 1..entries.len :
                 \A j \in DOMAIN PatternsOf[list[i]] : PatternsOf[list[i]][j] # p}
  IN  [n \in 1..Cardinality(stay) |-> list[Nth(stay, n)]]

Kept(p) ==
  LET list == Elements(entries)
      stay == {i \in 1..entries.len : PatternsOf[list[i]] # <<p>>}
  IN  [n \in 1..Cardinality(stay) |-> list[Nth(stay, n)]]

\* Mutant: the array is compacted in place.
UnregisterInPlace(p) ==
  /\ p \notin removed
  /\ removed' = removed \cup {p}
  /\ arrays' = [arrays EXCEPT ![entries.array] =
                 Kept(p) \o SubSeq(@, Len(Kept(p)) + 1, Len(@))]
  /\ entries' = [entries EXCEPT !.len = Len(Kept(p))]
  /\ UNCHANGED <<phase, added, aliases, routing, meaning, forgotten>>

UnregisterHandler(p) ==
  /\ p \notin removed
  /\ removed' = removed \cup {p}
  /\ Allocate(Kept(p))
  /\ UNCHANGED <<phase, added, aliases, routing, meaning, forgotten>>

-----------------------------------------------------------------------------
(* Route                                                                   *)

\* Mutant: an alias is registered once and never reassigned.
RegistersOnce(pb) == pb.alias # None /\ pb.topic # None /\ aliases[pb.alias] = None

\* A packet with both assigns the alias; one with an alias alone uses it.
Registers(pb) == pb.alias # None /\ pb.topic # None

\* Route is called with a packet, and copies entries under mu.
RouteCalled(pb) ==
  /\ routePc = "idle"
  /\ packet' = pb
  /\ snapshot' = entries
  /\ seen' = {Elements(entries)[i] : i \in 1..entries.len}
  /\ calls' = NotCalled
  /\ topic' = None
  /\ next' = 1
  /\ routePc' = "resolve"
  /\ meaning' = IF pb.alias # None /\ pb.topic # None
                THEN [meaning EXCEPT ![pb.alias] = pb.topic]
                ELSE meaning
  /\ UNCHANGED <<registry, aliases, forgotten>>

\* paho's workers call it while there is a connection.
RouteSnapshot(pb) ==
  /\ phase # "down"
  /\ RouteCalled(pb)
  /\ UNCHANGED phase

\* resolveTopic: an alias nobody registered resolves to nothing.
Resolution(pb) ==
  IF pb.alias # None /\ pb.topic = None THEN aliases[pb.alias] ELSE pb.topic

\* resolveTopic under aliasMu, and the early return when nothing is to be matched.
RouteResolve ==
  /\ routePc = "resolve"
  /\ topic' = Resolution(packet)
  /\ aliases' = IF Registers(packet)
                THEN [aliases EXCEPT ![packet.alias] = packet.topic] ELSE aliases
  /\ forgotten' = forgotten \ {a \in Aliases : Registers(packet) /\ a = packet.alias}
  /\ routePc' = IF topic' = None THEN "idle" ELSE "dispatch"
  /\ UNCHANGED <<phase, registry, packet, snapshot, next, calls, seen, meaning>>

\* One turn of the loop over the snapshot, and the return after the last.
RouteDispatch ==
  /\ routePc = "dispatch"
  /\ next <= snapshot.len
  /\ LET r == Elements(snapshot)[next]
     IN  calls' = [calls EXCEPT ![r] = IF Matches(r, topic) THEN @ + 1 ELSE @]
  /\ next' = next + 1
  /\ UNCHANGED <<phase, registry, aliases, routePc, packet, snapshot, topic, seen,
                 meaning, forgotten>>

RouteReturn ==
  /\ routePc = "dispatch"
  /\ next > snapshot.len
  /\ routePc' = "idle"
  /\ UNCHANGED <<phase, registry, aliases, packet, snapshot, topic, next, calls, seen,
                 meaning, forgotten>>

-----------------------------------------------------------------------------
(* The connection                                                          *)

\* CONNACK: paho starts to route the packets of a new connection.
Connack ==
  /\ phase = "down"
  /\ phase' = "fresh"
  /\ meaning' = Unassigned
  /\ forgotten' = {}
  /\ UNCHANGED <<registry, aliases, routing>>

resetAliases ==
  /\ aliases' = Unassigned
  /\ UNCHANGED <<registry, routing, meaning>>

\* At the head of OnConnectionUp, whatever Route is doing.
ResetAliasesUp ==
  /\ phase = "fresh"
  /\ phase' = "up"
  /\ resetAliases
  /\ forgotten' = forgotten \cup {a \in Aliases : aliases[a] # None}

\* Mutant: OnConnectionDown leaves the aliases to the next OnConnectionUp.
ResetAliasesDownForgotten ==
  /\ phase = "up"
  /\ routePc = "idle"
  /\ phase' = "down"
  /\ UNCHANGED <<registry, aliases, routing, meaning, forgotten>>

\* At the head of OnConnectionDown; paho's workers have ended.
ResetAliasesDown ==
  /\ phase = "up"
  /\ routePc = "idle"
  /\ phase' = "down"
  /\ resetAliases
  /\ UNCHANGED forgotten

Next ==
  \/ \E r \in Recipients : AddRecipient(r)
  \/ \E p \in Patterns : UnregisterHandler(p)
  \/ \E pb \in Packets : RouteSnapshot(pb)
  \/ RouteResolve \/ RouteDispatch \/ RouteReturn
  \/ Connack \/ ResetAliasesUp \/ ResetAliasesDown

Spec == Init /\ [][Next]_vars

-----------------------------------------------------------------------------

\* Route has just returned, or is yet to be called for the first time.
Returned == routePc = "idle"

\* A Route that has returned has called every recipient that was registered
\* when it took its snapshot and matches the topic, once, and no other, however
\* the list changed meanwhile (router.go:95-104, 151-152).
DeliveredOnce ==
  Returned =>
    \A r \in Recipients :
      calls[r] = IF topic # None /\ r \in seen /\ Matches(r, topic) THEN 1 ELSE 0

\* A message is never handed on under the topic a number stood for on an earlier
\* connection: the alias means what this connection's broker means by it, or the
\* message is dropped (router.go:230-233).
NoStaleAlias ==
  routePc = "dispatch" /\ packet.alias # None /\ packet.topic = None =>
    topic = meaning[packet.alias]

\* What OnConnectionUp has not cleared is remembered as long as the connection
\* lasts (router.go:58-60).
AliasKept ==
  phase # "down" =>
    \A a \in Aliases :
      /\ meaning[a] # None /\ a \notin forgotten
      /\ ~(routePc = "resolve" /\ packet.alias = a)
      => aliases[a] = meaning[a]

-----------------------------------------------------------------------------
(* The router as a set of recipients and the broker's aliases              *)

Registered == {Elements(entries)[i] : i \in 1..entries.len}

\* The entries of the snapshot that are yet to be called.
Due ==
  {Elements(snapshot)[i] :
     i \in {j \in next..snapshot.len :
            routePc = "dispatch" /\ Matches(Elements(snapshot)[j], topic)}}

Routing == INSTANCE MessageRouting
             WITH registered <- Registered, stage <- routePc, message <- packet,
                  audience <- seen, due <- Due

\* The list and its snapshots in shared arrays, the table of aliases that two
\* callbacks clear and the range loop come to no more than that: a set, and each
\* message once to each of its members that match (router.go:95-104, 187-195).
RoutingSpec == Routing!Spec
=============================================================================

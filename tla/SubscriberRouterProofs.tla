------------------------ MODULE SubscriberRouterProofs ------------------------
(* Theorems about SubscriberRouter, for every set of                         *)
(* recipients, patterns, topics and aliases.                                *)
EXTENDS SubscriberRouter, SequenceTheorems, FiniteSetTheorems, WellFoundedInduction, TLAPS

\* The part of TypeOK the aliases depend on.
AliasTypes ==
  /\ phase \in {"down", "fresh", "up"}
  /\ routePc \in {"idle", "resolve", "dispatch"}
  /\ packet \in Packets
  /\ aliases \in [Aliases -> Topics \cup {None}]
  /\ meaning \in [Aliases -> Topics \cup {None}]

\* Route has taken a packet that assigns a, and has yet to register it.
Pending(a) == routePc = "resolve" /\ Registers(packet) /\ packet.alias = a

\* The router knows of an alias what the broker means by it, or knows nothing
\* of it because OnConnectionUp has cleared it.
Known(a) ==
  \/ aliases[a] = meaning[a]
  \/ aliases[a] = None /\ a \in forgotten

\* Between two connections nothing is known and nothing is routed.
Quiet == aliases = Unassigned /\ routePc = "idle"

AliasInv ==
  /\ AliasTypes
  /\ phase = "down" => Quiet
  /\ phase # "down" => \A a \in Aliases : IF Pending(a) THEN meaning[a] = packet.topic
                                                        ELSE Known(a)
  /\ NoStaleAlias

(* What a message is routed by is what the broker of this connection means *)
(* by its alias, whatever OnConnectionUp clears meanwhile.                 *)
LEMMA AliasInvariant == Spec => []AliasInv
<1>1. Init => AliasInv
  <2> SUFFICES ASSUME Init PROVE AliasInv
    OBVIOUS
  <2>1. AliasTypes
    BY DEF Init, AliasTypes, Packets, Unassigned
  <2>. QED
    BY <2>1 DEF Init, AliasInv, Quiet, NoStaleAlias
<1>2. AliasInv /\ [Next]_vars => AliasInv'
  <2> SUFFICES ASSUME AliasInv, [Next]_vars PROVE AliasInv'
    OBVIOUS
  <2> USE RouterAssumption DEF registry, routing, AliasInv, AliasTypes
  <2>1. ASSUME NEW r \in Recipients, AddRecipient(r) PROVE AliasInv'
    BY <2>1 DEF AddRecipient, Quiet, Pending, Known, NoStaleAlias
  <2>2. ASSUME NEW p \in Patterns, UnregisterHandler(p) PROVE AliasInv'
    BY <2>2 DEF UnregisterHandler, Quiet, Pending, Known, NoStaleAlias
  <2>3. ASSUME NEW pb \in Packets, RouteSnapshot(pb) PROVE AliasInv'
    <3>1. AliasTypes'
      BY <2>3 DEF RouteSnapshot, RouteCalled, Packets
    <3>2. \A a \in Aliases : (IF Pending(a) THEN meaning[a] = packet.topic ELSE Known(a))'
      BY <2>3 DEF RouteSnapshot, RouteCalled, Packets, Pending, Known, Registers
    <3>. QED
      BY <2>3, <3>1, <3>2 DEF RouteSnapshot, RouteCalled, NoStaleAlias
  <2>4. ASSUME RouteResolve PROVE AliasInv'
    <3>1. AliasTypes' /\ phase' # "down"
      BY <2>4 DEF RouteResolve, Packets, Registers, Quiet
    <3>2. \A a \in Aliases : Known(a)'
      BY <2>4 DEF RouteResolve, Packets, Pending, Known, Registers, Quiet
    <3>3. NoStaleAlias'
      BY <2>4 DEF RouteResolve, Resolution, Packets, Pending, Known, Registers, Quiet,
                  NoStaleAlias
    <3>. QED
      BY <2>4, <3>1, <3>2, <3>3 DEF RouteResolve, Pending
  <2>5. ASSUME RouteDispatch PROVE AliasInv'
    BY <2>5 DEF RouteDispatch, Quiet, Pending, Known, NoStaleAlias
  <2>6. ASSUME RouteReturn PROVE AliasInv'
    BY <2>6 DEF RouteReturn, Quiet, Pending, Known, NoStaleAlias
  <2>7. ASSUME Connack PROVE AliasInv'
    BY <2>7 DEF Connack, Quiet, Pending, Known, Unassigned, NoStaleAlias
  <2>8. ASSUME ResetAliasesUp PROVE AliasInv'
    BY <2>8 DEF ResetAliasesUp, resetAliases, Pending, Known, Unassigned, NoStaleAlias
  <2>9. ASSUME ResetAliasesDown PROVE AliasInv'
    BY <2>9 DEF ResetAliasesDown, resetAliases, Quiet, Unassigned, NoStaleAlias
  <2>10. CASE UNCHANGED vars
    BY <2>10 DEF vars, Quiet, Pending, Known, NoStaleAlias
  <2>. QED
    BY <2>1, <2>2, <2>3, <2>4, <2>5, <2>6, <2>7, <2>8, <2>9, <2>10 DEF Next
<1>. QED
  BY <1>1, <1>2, PTL DEF Spec

(* A message is never handed on under the topic its alias stood for on an  *)
(* earlier connection (router.go:230-233).                                 *)
THEOREM AliasNeverStale == Spec => []NoStaleAlias
<1>1. AliasInv => NoStaleAlias
  BY DEF AliasInv
<1>. QED
  BY <1>1, AliasInvariant, PTL

(* An alias OnConnectionUp has not cleared is remembered as long as the    *)
(* connection lasts (router.go:58-60).                                     *)
THEOREM AliasRemembered == Spec => []AliasKept
<1>1. AliasInv => AliasKept
  BY DEF AliasInv, AliasTypes, Packets, Pending, Known, AliasKept
<1>. QED
  BY <1>1, AliasInvariant, PTL
-----------------------------------------------------------------------------
(* The recipients *)

\* A set of natural numbers has a smallest element.
LEMMA Smallest == ASSUME NEW T \in SUBSET Nat, T # {} PROVE \E x \in T : \A y \in T : x <= y
<1> DEFINE R == {p \in Nat \X Nat : p[1] < p[2]}
<1>1. IsWellFoundedOn(R, Nat)
  BY NatLessThanWellFounded DEF OpToRel
<1>2. PICK x \in T : \A y \in T : <<y, x>> \notin R
  BY <1>1, WFMin
<1>3. \A y \in T : y \in Nat /\ x \in Nat /\ <<y, x>> \in Nat \X Nat
  OBVIOUS
<1>4. \A y \in T : ~(y < x)
  BY <1>2, <1>3
<1>. QED
  BY <1>3, <1>4

\* The n-th place of a set of places exists.
LEMMA NthExists ==
  ASSUME NEW n \in Nat, NEW S \in SUBSET (1..n), NEW m \in 1..Cardinality(S)
  PROVE  Nth(S, m) \in S /\ Cardinality({j \in S : j <= Nth(S, m)}) = m
<1> DEFINE Upto(i) == {j \in S : j <= i}
<1>0. IsFiniteSet(S) /\ Cardinality(S) \in Nat
  <2>1. 1 \in Int /\ n \in Int
    OBVIOUS
  <2>2. IsFiniteSet(1..n)
    BY <2>1, FS_Interval
  <2>. QED
    BY <2>2, FS_Subset, FS_CardinalityType
<1>1. \A i \in Nat : IsFiniteSet(Upto(i)) /\ Cardinality(Upto(i)) \in Nat
  BY <1>0, FS_Subset, FS_CardinalityType
<1>a. \A i, j : j \in Upto(i) <=> j \in S /\ j <= i
  OBVIOUS
<1>b. \A j \in S : j \in 1..n /\ j <= n /\ ~(j <= 0)
  OBVIOUS
<1> HIDE DEF Upto
<1>2. Upto(n) = S
  <2>1. \A j : j \in Upto(n) <=> j \in S
    BY <1>a, <1>b
  <2>. QED
    BY <2>1
<1>3. Upto(0) = {}
  <2>1. \A j : j \notin Upto(0)
    BY <1>a, <1>b
  <2>. QED
    BY <2>1
<1>4. ASSUME NEW i \in 1..n, i \notin S PROVE Upto(i) = Upto(i - 1)
  <2>1. \A j \in S : j <= i <=> j <= i - 1
    BY <1>4, <1>b
  <2>. QED
    <3>1. \A j : j \in Upto(i) <=> j \in Upto(i - 1)
      BY <2>1, <1>a
    <3>. QED
      BY <3>1
<1>5. ASSUME NEW i \in S PROVE Upto(i) = Upto(i - 1) \cup {i} /\ i \notin Upto(i - 1)
  <2>1. \A j \in S : j <= i <=> j <= i - 1 \/ j = i
    BY <1>5, <1>b
  <2>2. i <= i /\ ~(i <= i - 1)
    BY <1>5, <1>b
  <2>. QED
    BY <2>1, <2>2, <1>a
<1> DEFINE T == {i \in 0..n : Cardinality(Upto(i)) >= m}
<1>6. PICK i \in T : \A k \in T : i <= k
  <2>1. T \in SUBSET Nat /\ n \in T
    BY <1>0, <1>2
  <2> HIDE DEF T
  <2>. QED
    BY <2>1, Smallest
<1>7. i \in 1..n /\ Cardinality(Upto(i)) >= m
  BY <1>3, <1>6, FS_EmptySet
<1>8. Cardinality(Upto(i - 1)) \in Nat /\ Cardinality(Upto(i - 1)) < m
  BY <1>0, <1>1, <1>6, <1>7
<1>9. i \in S
  BY <1>4, <1>7, <1>8, <1>0
<1>10. Cardinality(Upto(i)) = Cardinality(Upto(i - 1)) + 1
  <2>1. IsFiniteSet(Upto(i - 1))
    BY <1>1, <1>7
  <2>. QED
    BY <1>5, <1>9, <2>1, FS_AddElement
<1>11. Cardinality(Upto(i)) = m
  BY <1>0, <1>7, <1>8, <1>10
<1>. QED
  BY <1>9, <1>11 DEF Upto, Nth

\* What a slice header shows is what its array holds.
LEMMA ElementsAre ==
  ASSUME NEW list \in Seq(Recipients), NEW len \in 0..Len(list)
  PROVE  /\ SubSeq(list, 1, len) \in Seq(Recipients)
         /\ Len(SubSeq(list, 1, len)) = len
         /\ \A i \in 1..len : SubSeq(list, 1, len)[i] = list[i]
<1>1. \A i \in 1..len : list[i] \in Recipients
  BY ElementOfSeq
<1>. QED
  BY <1>1, SubSeqProperties

\* No recipient is in the list twice.
Distinct(slice) ==
  \A i, j \in 1..slice.len : arrays[slice.array][i] = arrays[slice.array][j] => i = j

\* Who has been called after the first n entries of the snapshot.
CalledUpTo(n) ==
  \A r \in Recipients :
    calls[r] = IF Matches(r, topic) /\ \E i \in 1..n : arrays[snapshot.array][i] = r
               THEN 1 ELSE 0

RouterInv ==
  /\ TypeOK
  /\ Distinct(entries) /\ Distinct(snapshot)
  /\ \A i \in 1..entries.len : arrays[entries.array][i] \in added
  /\ routePc # "idle" => seen = {arrays[snapshot.array][i] : i \in 1..snapshot.len}
  /\ routePc = "resolve" => calls = NotCalled
  /\ routePc = "resolve" => next = 1
  /\ routePc = "dispatch" => topic # None /\ next \in 1..(snapshot.len + 1)
  /\ routePc = "dispatch" => CalledUpTo(next - 1)
  /\ DeliveredOnce

\* A fresh array leaves every snapshot as it was.
LEMMA AllocateKeeps ==
  ASSUME TypeOK, Distinct(snapshot), NEW list \in Seq(Recipients), Allocate(list),
         \A i, j \in 1..Len(list) : list[i] = list[j] => i = j,
         UNCHANGED snapshot
  PROVE  /\ arrays' \in Seq(Seq(Recipients))
         /\ (entries \in Headers)' /\ entries'.len = Len(arrays'[entries'.array])
         /\ (snapshot \in Headers)' /\ arrays'[snapshot.array] = arrays[snapshot.array]
         /\ entries'.len = Len(list) /\ arrays'[entries'.array] = list
         /\ Distinct(entries)' /\ Distinct(snapshot)'
<1>1. /\ arrays \in Seq(Seq(Recipients)) /\ Len(arrays) \in Nat
      /\ snapshot \in Headers /\ snapshot.array \in 1..Len(arrays)
  BY DEF TypeOK, Headers
<1>2. /\ arrays' \in Seq(Seq(Recipients)) /\ Len(arrays') = Len(arrays) + 1
      /\ \A k \in 1..Len(arrays) : arrays'[k] = arrays[k]
      /\ arrays'[Len(arrays) + 1] = list
  BY <1>1, AppendProperties DEF Allocate
<1>3. entries' = [array |-> Len(arrays) + 1, len |-> Len(list)] /\ Len(list) \in Nat
  BY DEF Allocate
<1>4. (entries \in Headers)' /\ (snapshot \in Headers)'
  BY <1>1, <1>2, <1>3 DEF Headers
<1>5. entries'.array = Len(arrays) + 1 /\ entries'.len = Len(list)
  BY <1>3
<1>6. arrays'[entries'.array] = list /\ arrays'[snapshot.array] = arrays[snapshot.array]
  BY <1>1, <1>2, <1>5
<1>7. Distinct(entries)'
  BY <1>5, <1>6 DEF Distinct
<1>8. Distinct(snapshot)'
  BY <1>6 DEF Distinct
<1>. QED
  BY <1>2, <1>4, <1>5, <1>6, <1>7, <1>8

\* What is left after UnregisterHandler was there before, and no more often.
LEMMA KeptProperties ==
  ASSUME RouterInv, NEW p \in Patterns
  PROVE  /\ Kept(p) \in Seq(Recipients)
         /\ \A i \in 1..Len(Kept(p)) : Kept(p)[i] \in added
         /\ \A i, j \in 1..Len(Kept(p)) : Kept(p)[i] = Kept(p)[j] => i = j
<1> DEFINE list == Elements(entries)
           stay == {i \in 1..entries.len : PatternsOf[list[i]] # <<p>>}
<1>1. /\ entries.len \in Nat /\ arrays[entries.array] \in Seq(Recipients)
      /\ entries.len \in 0..Len(arrays[entries.array])
  BY DEF RouterInv, TypeOK, Headers
<1>2. /\ list \in Seq(Recipients) /\ Len(list) = entries.len
      /\ \A i \in 1..entries.len : list[i] = arrays[entries.array][i]
  BY <1>1, ElementsAre DEF Elements
<1> HIDE DEF list
<1>3. stay \in SUBSET (1..entries.len) /\ Cardinality(stay) \in Nat
  <2>1. IsFiniteSet(1..entries.len)
    BY <1>1, FS_Interval
  <2>. QED
    BY <2>1, FS_Subset, FS_CardinalityType
<1>4. Kept(p) = [n \in 1..Cardinality(stay) |-> list[Nth(stay, n)]]
  BY DEF Kept, list
<1> HIDE DEF stay
<1>5. \A n \in 1..Cardinality(stay) :
        Nth(stay, n) \in stay /\ Cardinality({j \in stay : j <= Nth(stay, n)}) = n
  BY <1>1, <1>3, NthExists
<1>6. \A n \in 1..Cardinality(stay) : Nth(stay, n) \in 1..entries.len
  BY <1>3, <1>5
<1>7. \A n \in 1..Cardinality(stay) : list[Nth(stay, n)] \in Recipients
  BY <1>2, <1>6, ElementOfSeq
<1>8. Kept(p) \in Seq(Recipients) /\ Len(Kept(p)) = Cardinality(stay)
  BY <1>3, <1>4, <1>7
<1>9. \A n \in 1..Cardinality(stay) : Kept(p)[n] = arrays[entries.array][Nth(stay, n)]
  BY <1>2, <1>4, <1>6
<1>10. \A i, j \in 1..Cardinality(stay) : Nth(stay, i) = Nth(stay, j) => i = j
  BY <1>5
<1>. QED
  BY <1>6, <1>8, <1>9, <1>10 DEF RouterInv, Distinct

(* Types, and how far the Route in progress has come.                      *)
LEMMA RouterInvariant == Spec => []RouterInv
<1>1. Init => RouterInv
  <2> SUFFICES ASSUME Init PROVE RouterInv
    OBVIOUS
  <2>1. arrays = << <<>> >> /\ arrays \in Seq(Seq(Recipients)) /\ Len(arrays) = 1 /\ arrays[1] = <<>>
    BY DEF Init
  <2>2. TypeOK
    BY <2>1 DEF Init, TypeOK, Headers, Packets, Unassigned, NotCalled
  <2>3. Distinct(entries) /\ Distinct(snapshot)
    BY DEF Init, Distinct
  <2>4. DeliveredOnce
    BY DEF Init, DeliveredOnce, NotCalled
  <2>. QED
    BY <2>2, <2>3, <2>4 DEF Init, RouterInv
<1>2. RouterInv /\ [Next]_vars => RouterInv'
  <2> SUFFICES ASSUME RouterInv, [Next]_vars PROVE RouterInv'
    OBVIOUS
  <2>0. /\ TypeOK /\ Distinct(entries) /\ Distinct(snapshot)
        /\ entries.len \in Nat /\ snapshot.len \in Nat
        /\ entries.array \in 1..Len(arrays) /\ snapshot.array \in 1..Len(arrays)
        /\ arrays[entries.array] \in Seq(Recipients) /\ arrays[snapshot.array] \in Seq(Recipients)
        /\ entries.len \in 0..Len(arrays[entries.array])
        /\ snapshot.len \in 0..Len(arrays[snapshot.array])
    BY DEF RouterInv, TypeOK, Headers
  <2>a. ASSUME NEW list \in Seq(Recipients), Allocate(list),
               \A i \in 1..Len(list) : list[i] \in added',
               \A i, j \in 1..Len(list) : list[i] = list[j] => i = j,
               added' \subseteq Recipients, removed' \subseteq Patterns,
               UNCHANGED <<phase, aliases, routing, meaning, forgotten>>
        PROVE  RouterInv'
    <3>1. /\ arrays' \in Seq(Seq(Recipients))
          /\ (entries \in Headers)' /\ entries'.len = Len(arrays'[entries'.array])
          /\ (snapshot \in Headers)' /\ arrays'[snapshot.array] = arrays[snapshot.array]
          /\ entries'.len = Len(list) /\ arrays'[entries'.array] = list
          /\ Distinct(entries)' /\ Distinct(snapshot)'
      BY <2>0, <2>a, AllocateKeeps DEF routing
    <3>2. TypeOK'
      <4>1. (entries.len <= Len(arrays[entries.array]))'
        BY <3>1
      <4>2. (snapshot.len <= Len(arrays[snapshot.array]))' /\ snapshot' = snapshot
        BY <2>0, <2>a, <3>1 DEF routing
      <4>. QED
        BY <2>0, <2>a, <3>1, <4>1, <4>2 DEF TypeOK, routing
    <3>3. \A i \in 1..entries'.len : arrays'[entries'.array][i] \in added'
      BY <2>a, <3>1
    <3>4. (routePc # "idle" => seen = {arrays[snapshot.array][i] : i \in 1..snapshot.len})'
      BY <2>a, <3>1 DEF RouterInv, routing
    <3>5. (routePc = "dispatch" => CalledUpTo(next - 1))'
      BY <2>a, <3>1 DEF RouterInv, routing, CalledUpTo
    <3>6. DeliveredOnce'
      BY <2>a DEF RouterInv, routing, DeliveredOnce, Returned
    <3>. QED
      BY <2>a, <3>1, <3>2, <3>3, <3>4, <3>5, <3>6 DEF RouterInv, routing
  <2>b. ASSUME TypeOK', UNCHANGED <<registry, routing>> PROVE RouterInv'
    BY <2>b DEF RouterInv, registry, routing, Distinct, CalledUpTo, DeliveredOnce, Returned
  <2>1. ASSUME NEW r \in Recipients, AddRecipient(r) PROVE RouterInv'
    <3> DEFINE old == Elements(entries)
    <3>1. /\ old \in Seq(Recipients) /\ Len(old) = entries.len
          /\ \A i \in 1..entries.len : old[i] = arrays[entries.array][i]
      BY <2>0, ElementsAre DEF Elements
    <3> HIDE DEF old
    <3>2. /\ Append(old, r) \in Seq(Recipients) /\ Len(Append(old, r)) = entries.len + 1
          /\ \A i \in 1..entries.len : Append(old, r)[i] = arrays[entries.array][i]
          /\ Append(old, r)[entries.len + 1] = r
      BY <3>1, AppendProperties
    <3>3. Allocate(Append(old, r)) /\ r \notin added /\ added' = added \cup {r}
      BY <2>1 DEF AddRecipient, old
    <3>4. \A i \in 1..Len(Append(old, r)) : Append(old, r)[i] \in added'
      <4>. TAKE i \in 1..Len(Append(old, r))
      <4>1. i \in 1..entries.len \/ i = entries.len + 1
        BY <2>0, <3>2
      <4>. QED
        BY <4>1, <3>2, <3>3 DEF RouterInv
    <3>5. \A i, j \in 1..Len(Append(old, r)) : Append(old, r)[i] = Append(old, r)[j] => i = j
      <4>. TAKE i, j \in 1..Len(Append(old, r))
      <4>1. /\ i \in 1..entries.len \/ i = entries.len + 1
            /\ j \in 1..entries.len \/ j = entries.len + 1
        BY <2>0, <3>2
      <4>2. \A k \in 1..entries.len : Append(old, r)[k] # r
        BY <3>2, <3>3 DEF RouterInv
      <4>3. CASE i \in 1..entries.len /\ j \in 1..entries.len
        BY <4>3, <2>0, <3>2 DEF Distinct
      <4>. QED
        BY <4>1, <4>2, <4>3, <3>2
    <3>6. /\ added' \subseteq Recipients /\ removed' \subseteq Patterns
          /\ UNCHANGED <<phase, aliases, routing, meaning, forgotten>>
      BY <2>0, <2>1 DEF AddRecipient, TypeOK
    <3>. QED
      BY <2>a, <3>2, <3>3, <3>4, <3>5, <3>6
  <2>2. ASSUME NEW p \in Patterns, UnregisterHandler(p) PROVE RouterInv'
    <3>1. /\ Allocate(Kept(p)) /\ added' = added
          /\ added' \subseteq Recipients /\ removed' \subseteq Patterns
          /\ UNCHANGED <<phase, aliases, routing, meaning, forgotten>>
      BY <2>0, <2>2 DEF UnregisterHandler, TypeOK
    <3>. QED
      BY <2>a, <3>1, KeptProperties
  <2>3. ASSUME NEW pb \in Packets, RouteSnapshot(pb) PROVE RouterInv'
    <3>1. /\ snapshot' = entries /\ UNCHANGED <<arrays, entries, added>>
          /\ calls' = NotCalled /\ next' = 1 /\ routePc' = "resolve"
          /\ seen' = {Elements(entries)[i] : i \in 1..entries.len}
      BY <2>3 DEF RouteSnapshot, RouteCalled, registry
    <3>2. \A i \in 1..entries.len : Elements(entries)[i] = arrays[entries.array][i]
      BY <2>0, ElementsAre DEF Elements
    <3>3. seen' = {arrays[entries.array][i] : i \in 1..entries.len}
      BY <3>1, <3>2
    <3>4. seen' \subseteq Recipients
      BY <2>0, <3>3, ElementOfSeq
    <3>5. TypeOK'
      BY <2>0, <2>3, <3>1, <3>4
      DEF RouteSnapshot, RouteCalled, TypeOK, registry, NotCalled, Headers, Packets
    <3>6. Distinct(entries)' /\ Distinct(snapshot)'
      BY <2>0, <3>1 DEF Distinct
    <3>. QED
      BY <3>1, <3>3, <3>5, <3>6 DEF RouterInv, DeliveredOnce, Returned
  <2>4. ASSUME RouteResolve PROVE RouterInv'
    <3>1. /\ UNCHANGED <<arrays, entries, added, snapshot, seen, calls, next>>
          /\ calls = NotCalled /\ next = 1
          /\ routePc = "resolve"
          /\ routePc' = IF topic' = None THEN "idle" ELSE "dispatch"
      BY <2>4 DEF RouteResolve, RouterInv, registry
    <3>2. Resolution(packet) \in Topics \cup {None}
      BY <2>0 DEF TypeOK, Packets, Resolution
    <3>3. TypeOK'
      BY <2>0, <2>4, <3>1, <3>2 DEF RouteResolve, TypeOK, registry, Headers, Packets, Registers
    <3>4. Distinct(entries)' /\ Distinct(snapshot)'
      BY <2>0, <3>1 DEF Distinct
    <3>5. (routePc = "dispatch" => CalledUpTo(next - 1))'
      BY <3>1 DEF CalledUpTo, NotCalled
    <3>6. DeliveredOnce'
      BY <3>1 DEF DeliveredOnce, Returned, NotCalled
    <3>7. (routePc = "dispatch" => topic # None /\ next \in 1..(snapshot.len + 1))'
      BY <2>0, <3>1
    <3>. QED
      BY <3>1, <3>3, <3>4, <3>5, <3>6, <3>7 DEF RouterInv
  <2>5. ASSUME RouteDispatch PROVE RouterInv'
    <3>1. /\ UNCHANGED <<arrays, entries, added, snapshot, seen, topic, routePc>>
          /\ routePc = "dispatch" /\ next' = next + 1 /\ next <= snapshot.len
          /\ next \in 1..(snapshot.len + 1) /\ topic # None
      BY <2>5 DEF RouteDispatch, RouterInv, registry
    <3>2. next \in 1..snapshot.len /\ next' \in 1..(snapshot'.len + 1)
      BY <2>0, <3>1
    <3>3. PICK r \in Recipients : r = arrays[snapshot.array][next]
      BY <2>0, <3>2, ElementOfSeq
    <3>4. Elements(snapshot)[next] = r
      BY <2>0, <3>2, <3>3, ElementsAre DEF Elements
    <3>5. calls' = [calls EXCEPT ![r] = IF Matches(r, topic) THEN @ + 1 ELSE @]
      BY <2>5, <3>4 DEF RouteDispatch
    <3>6. calls \in [Recipients -> Nat] /\ calls' \in [Recipients -> Nat]
      <4>1. calls \in [Recipients -> Nat]
        BY <2>0 DEF TypeOK
      <4>2. PICK c : c = IF Matches(r, topic) THEN calls[r] + 1 ELSE calls[r]
        OBVIOUS
      <4>3. c \in Nat /\ calls' = [calls EXCEPT ![r] = c]
        BY <3>5, <4>1, <4>2
      <4>. QED
        BY <4>1, <4>3
    <3>7. \A i \in 1..(next - 1) : arrays[snapshot.array][i] # r
      BY <2>0, <3>2, <3>3 DEF Distinct
    <3>8. CalledUpTo(next - 1)
      BY <3>1 DEF RouterInv
    <3>9. (CalledUpTo(next - 1))'
      <4>1. \A q \in Recipients \ {r} :
              (\E i \in 1..next : arrays[snapshot.array][i] = q)
                <=> \E i \in 1..(next - 1) : arrays[snapshot.array][i] = q
        <5>1. \A i : i \in 1..next <=> i \in 1..(next - 1) \/ i = next
          BY <2>0, <3>2
        <5>. QED
          BY <5>1, <3>3
      <4>2. \A q \in Recipients \ {r} : calls'[q] = calls[q]
        BY <3>5, <3>6
      <4>3. calls'[r] = IF Matches(r, topic) THEN calls[r] + 1 ELSE calls[r]
        BY <3>5, <3>6
      <4>4. calls[r] = 0
        BY <3>7, <3>8 DEF CalledUpTo
      <4>5. \E i \in 1..next : arrays[snapshot.array][i] = r
        BY <2>0, <3>2, <3>3
      <4>6. \A q \in Recipients \ {r} :
              calls'[q] = IF Matches(q, topic) /\ \E i \in 1..next : arrays[snapshot.array][i] = q
                          THEN 1 ELSE 0
        BY <3>8, <4>1, <4>2 DEF CalledUpTo
      <4>7. \A q \in Recipients :
              calls'[q] = IF Matches(q, topic) /\ \E i \in 1..next : arrays[snapshot.array][i] = q
                          THEN 1 ELSE 0
        BY <4>3, <4>4, <4>5, <4>6
      <4>8. next' - 1 = next
        BY <3>1, <3>2
      <4>. QED
        BY <3>1, <4>7, <4>8 DEF CalledUpTo, Matches
    <3>10. TypeOK'
      <4>1. UNCHANGED <<phase, registry, aliases, packet, meaning, forgotten>> /\ next' \in Nat
        BY <2>5, <3>2 DEF RouteDispatch
      <4>. QED
        BY <2>0, <3>1, <3>6, <4>1 DEF TypeOK, registry, Headers
    <3>11. Distinct(entries)' /\ Distinct(snapshot)'
      BY <2>0, <3>1 DEF Distinct
    <3>. QED
      BY <3>1, <3>2, <3>9, <3>10, <3>11 DEF RouterInv, DeliveredOnce, Returned
  <2>6. ASSUME RouteReturn PROVE RouterInv'
    <3>1. /\ UNCHANGED <<phase, registry, aliases, packet, snapshot, topic, next, calls, seen,
                         meaning, forgotten>>
          /\ routePc = "dispatch" /\ routePc' = "idle" /\ next > snapshot.len
          /\ next \in 1..(snapshot.len + 1) /\ topic # None
      BY <2>6 DEF RouteReturn, RouterInv
    <3>2. CalledUpTo(snapshot.len) /\ seen = {arrays[snapshot.array][i] : i \in 1..snapshot.len}
      <4>1. next - 1 = snapshot.len
        BY <2>0, <3>1
      <4>. QED
        BY <3>1, <4>1 DEF RouterInv
    <3>3. DeliveredOnce'
      BY <3>1, <3>2 DEF DeliveredOnce, CalledUpTo, Matches
    <3>4. TypeOK'
      BY <2>0, <3>1 DEF TypeOK, registry, Headers
    <3>5. Distinct(entries)' /\ Distinct(snapshot)'
      BY <2>0, <3>1 DEF Distinct, registry
    <3>. QED
      BY <3>1, <3>3, <3>4, <3>5 DEF RouterInv, registry
  <2>7. ASSUME Connack PROVE RouterInv'
    <3>1. TypeOK'
      BY <2>0, <2>7 DEF Connack, TypeOK, registry, routing, Headers, Unassigned
    <3>. QED
      BY <2>7, <2>b, <3>1 DEF Connack
  <2>8. ASSUME ResetAliasesUp PROVE RouterInv'
    <3>1. TypeOK'
      BY <2>0, <2>8 DEF ResetAliasesUp, resetAliases, TypeOK, registry, routing, Headers, Unassigned
    <3>. QED
      BY <2>8, <2>b, <3>1 DEF ResetAliasesUp, resetAliases
  <2>9. ASSUME ResetAliasesDown PROVE RouterInv'
    <3>1. TypeOK'
      BY <2>0, <2>9 DEF ResetAliasesDown, resetAliases, TypeOK, registry, routing, Headers, Unassigned
    <3>. QED
      BY <2>9, <2>b, <3>1 DEF ResetAliasesDown, resetAliases
  <2>10. CASE UNCHANGED vars
    <3>1. TypeOK'
      BY <2>0, <2>10 DEF vars, TypeOK, registry, routing, Headers
    <3>. QED
      BY <2>10, <2>b, <3>1 DEF vars
  <2>. QED
    BY <2>1, <2>2, <2>3, <2>4, <2>5, <2>6, <2>7, <2>8, <2>9, <2>10 DEF Next
<1>. QED
  BY <1>1, <1>2, PTL DEF Spec

(* Every variable keeps its type; above all, a slice header never points   *)
(* past its array.                                                         *)
THEOREM TypeCorrect == Spec => []TypeOK
<1>1. RouterInv => TypeOK
  BY DEF RouterInv
<1>. QED
  BY <1>1, RouterInvariant, PTL

(* A Route that has returned has called every recipient of its snapshot    *)
(* that matches, once, and no other (router.go:95-104, 151-152).           *)
THEOREM DeliveredExactlyOnce == Spec => []DeliveredOnce
<1>1. RouterInv => DeliveredOnce
  BY DEF RouterInv
<1>. QED
  BY <1>1, RouterInvariant, PTL
-----------------------------------------------------------------------------
(* The router as a set of recipients *)

\* A fresh array leaves every other as it was.
LEMMA FreshArray ==
  ASSUME TypeOK, NEW list \in Seq(Recipients), Allocate(list)
  PROVE  /\ entries'.len = Len(list) /\ arrays'[entries'.array] = list
         /\ arrays'[snapshot.array] = arrays[snapshot.array]
<1>1. arrays \in Seq(Seq(Recipients)) /\ snapshot.array \in 1..Len(arrays)
  BY DEF TypeOK, Headers
<1>2. /\ \A k \in 1..Len(arrays) : arrays'[k] = arrays[k]
      /\ arrays'[Len(arrays) + 1] = list
  BY <1>1, AppendProperties DEF Allocate
<1>. QED
  BY <1>1, <1>2 DEF Allocate

\* Every place of a set of places is its n-th, for some n.
LEMMA NthReaches ==
  ASSUME NEW n \in Nat, NEW S \in SUBSET (1..n), NEW i \in S
  PROVE  \E m \in 1..Cardinality(S) : Nth(S, m) = i
<1> DEFINE Upto(k) == {j \in S : j <= k}
<1>1. IsFiniteSet(S) /\ Cardinality(S) \in Nat
  <2>1. IsFiniteSet(1..n)
    BY FS_Interval
  <2>. QED
    BY <2>1, FS_Subset, FS_CardinalityType
<1>2. /\ IsFiniteSet(Upto(i)) /\ Cardinality(Upto(i)) \in Nat
      /\ Cardinality(Upto(i)) <= Cardinality(S)
  <2>1. Upto(i) \in SUBSET S
    OBVIOUS
  <2>. QED
    BY <1>1, <2>1, FS_Subset, FS_CardinalityType
<1>3. i \in Upto(i) /\ i \in 1..n
  OBVIOUS
<1>4. Cardinality(Upto(i)) \in 1..Cardinality(S)
  <2>1. Cardinality(Upto(i)) # 0
    BY <1>2, <1>3, FS_EmptySet
  <2>. QED
    BY <1>1, <1>2, <2>1
<1>5. ASSUME NEW x \in S, NEW y \in S, x < y
      PROVE  Cardinality(Upto(x)) # Cardinality(Upto(y))
  <2>1. Upto(x) \in SUBSET Upto(y) /\ y \in Upto(y) /\ y \notin Upto(x)
    <3>1. \A j \in S : j \in Nat
      OBVIOUS
    <3>2. \A j \in S : j <= x => j <= y
      BY <1>5, <3>1
    <3>3. y <= y /\ ~(y <= x)
      BY <1>5, <3>1
    <3>. QED
      BY <3>2, <3>3
  <2>2. IsFiniteSet(Upto(y))
    <3>1. Upto(y) \in SUBSET S
      OBVIOUS
    <3>. QED
      BY <1>1, <3>1, FS_Subset
  <2>. QED
    BY <2>1, <2>2, FS_Subset
<1> DEFINE m == Cardinality(Upto(i))
<1>6. Nth(S, m) \in S /\ Cardinality(Upto(Nth(S, m))) = m
  BY <1>4, NthExists
<1>7. PICK k \in S : k = Nth(S, m)
  BY <1>6
<1>8. Cardinality(Upto(k)) = Cardinality(Upto(i))
  BY <1>6, <1>7
<1>9. k = i
  <2>1. k \in 1..n /\ i \in 1..n
    OBVIOUS
  <2>2. ~(k < i) /\ ~(i < k)
    BY <1>5, <1>8
  <2>. QED
    BY <2>1, <2>2
<1>. QED
  BY <1>4, <1>7, <1>9

\* UnregisterHandler keeps whoever is not registered under exactly the pattern.
LEMMA KeptHolds ==
  ASSUME RouterInv, NEW p \in Patterns, NEW r
  PROVE  (\E n \in 1..Len(Kept(p)) : Kept(p)[n] = r)
           <=> \E i \in 1..entries.len : arrays[entries.array][i] = r /\ PatternsOf[r] # <<p>>
<1> DEFINE list == Elements(entries)
           stay == {i \in 1..entries.len : PatternsOf[list[i]] # <<p>>}
<1>1. /\ entries.len \in Nat /\ arrays[entries.array] \in Seq(Recipients)
      /\ entries.len \in 0..Len(arrays[entries.array])
  BY DEF RouterInv, TypeOK, Headers
<1>2. \A i \in 1..entries.len : list[i] = arrays[entries.array][i]
  BY <1>1, ElementsAre DEF Elements
<1>3. stay \in SUBSET (1..entries.len) /\ Cardinality(stay) \in Nat
  <2>1. IsFiniteSet(1..entries.len)
    BY <1>1, FS_Interval
  <2>. QED
    BY <2>1, FS_Subset, FS_CardinalityType
<1>4. Kept(p) = [n \in 1..Cardinality(stay) |-> list[Nth(stay, n)]]
  BY DEF Kept
<1>5. \A i : i \in stay <=> i \in 1..entries.len /\ PatternsOf[arrays[entries.array][i]] # <<p>>
  BY <1>2
<1> HIDE DEF stay, list
<1>6. \A n \in 1..Cardinality(stay) : Nth(stay, n) \in stay
  BY <1>1, <1>3, NthExists
<1>7. \A i \in stay : \E n \in 1..Cardinality(stay) : Nth(stay, n) = i
  BY <1>1, <1>3, NthReaches
<1>8. Len(Kept(p)) = Cardinality(stay)
  BY <1>3, <1>4, KeptProperties
<1>9. \A n \in 1..Cardinality(stay) : Kept(p)[n] = arrays[entries.array][Nth(stay, n)]
  BY <1>2, <1>4, <1>5, <1>6
<1>10. ASSUME NEW n \in 1..Cardinality(stay), Kept(p)[n] = r
       PROVE  \E i \in 1..entries.len : arrays[entries.array][i] = r /\ PatternsOf[r] # <<p>>
  BY <1>5, <1>6, <1>9, <1>10
<1>11. ASSUME NEW i \in 1..entries.len, arrays[entries.array][i] = r, PatternsOf[r] # <<p>>
       PROVE  \E n \in 1..Cardinality(stay) : Kept(p)[n] = r
  BY <1>5, <1>7, <1>9, <1>11
<1>. QED
  BY <1>8, <1>10, <1>11

\* What the two sets of the abstract router stand for.
Images ==
  /\ \A r : r \in Registered <=> \E i \in 1..entries.len : arrays[entries.array][i] = r
  /\ \A r : r \in Due <=>
       /\ routePc = "dispatch"
       /\ \E i \in next..snapshot.len : arrays[snapshot.array][i] = r /\ Matches(r, topic)

(* The abstract sets are read off the arrays the two headers show.         *)
LEMMA ImagesInvariant == Spec => []Images
<1>1. RouterInv => Images
  <2> SUFFICES ASSUME RouterInv PROVE Images
    OBVIOUS
  <2>1. /\ entries.len \in Nat /\ arrays[entries.array] \in Seq(Recipients)
        /\ entries.len \in 0..Len(arrays[entries.array])
        /\ snapshot.len \in Nat /\ arrays[snapshot.array] \in Seq(Recipients)
        /\ snapshot.len \in 0..Len(arrays[snapshot.array])
    BY DEF RouterInv, TypeOK, Headers
  <2>2. \A i \in 1..entries.len : Elements(entries)[i] = arrays[entries.array][i]
    BY <2>1, ElementsAre DEF Elements
  <2>3. \A i \in 1..snapshot.len : Elements(snapshot)[i] = arrays[snapshot.array][i]
    BY <2>1, ElementsAre DEF Elements
  <2>4. \A r : r \in Registered <=> \E i \in 1..entries.len : arrays[entries.array][i] = r
    BY <2>2 DEF Registered
  <2>5. ASSUME NEW r
        PROVE  r \in Due <=>
                 /\ routePc = "dispatch"
                 /\ \E i \in next..snapshot.len :
                      arrays[snapshot.array][i] = r /\ Matches(r, topic)
    <3>1. CASE routePc = "dispatch"
      <4>1. \A i \in next..snapshot.len : i \in 1..snapshot.len
        BY <2>1, <3>1 DEF RouterInv
      <4>2. r \in Due <=>
              \E i \in next..snapshot.len :
                Elements(snapshot)[i] = r /\ Matches(Elements(snapshot)[i], topic)
        BY <3>1 DEF Due
      <4>. QED
        BY <2>3, <3>1, <4>1, <4>2
    <3>2. CASE routePc # "dispatch"
      BY <3>2 DEF Due
    <3>. QED
      BY <3>1, <3>2
  <2>. QED
    BY <2>4, <2>5 DEF Images
<1>. QED
  BY <1>1, RouterInvariant, PTL

(* The list and its snapshots in shared arrays, the aliases that two       *)
(* callbacks clear and the loop over the snapshot implement a set of       *)
(* recipients and the broker's own aliases (router.go:21-60, 95-104).      *)
THEOREM ImplementsRouting == Spec => RoutingSpec
<1>1. Init /\ Images => Routing!Init
  BY DEF Init, Images, Routing!Init, Unassigned, Routing!Unassigned
<1>2. /\ AliasInv /\ RouterInv /\ Images /\ RouterInv' /\ Images'
      /\ [Next]_vars
      => [Routing!Next]_Routing!vars
  <2> SUFFICES ASSUME AliasInv, RouterInv, Images, RouterInv', Images', [Next]_vars
               PROVE  Routing!Next \/ UNCHANGED Routing!vars
    OBVIOUS
  <2>0. /\ TypeOK /\ snapshot.len \in Nat /\ entries.len \in Nat
        /\ arrays[entries.array] \in Seq(Recipients)
        /\ arrays[snapshot.array] \in Seq(Recipients)
        /\ entries.len \in 0..Len(arrays[entries.array])
        /\ snapshot.len \in 0..Len(arrays[snapshot.array])
    <3>1. TypeOK
      BY DEF RouterInv
    <3>2. /\ arrays \in Seq(Seq(Recipients))
          /\ entries.len \in Nat /\ entries.array \in 1..Len(arrays)
          /\ snapshot.len \in Nat /\ snapshot.array \in 1..Len(arrays)
      BY <3>1 DEF TypeOK, Headers
    <3>3. /\ arrays[entries.array] \in Seq(Recipients)
          /\ arrays[snapshot.array] \in Seq(Recipients)
      BY <3>2, ElementOfSeq
    <3>4. Len(arrays[entries.array]) \in Nat /\ Len(arrays[snapshot.array]) \in Nat
      BY <3>3
    <3>. QED
      BY <3>1, <3>2, <3>3, <3>4 DEF TypeOK
  <2> USE DEF registry, routing
  <2>a. ASSUME UNCHANGED <<arrays, entries>> PROVE Registered' = Registered
    BY <2>a DEF Registered, Elements
  <2>b. ASSUME UNCHANGED <<routePc, next, topic>>, UNCHANGED snapshot,
               arrays'[snapshot.array] = arrays[snapshot.array]
        PROVE  Due' = Due
    BY <2>b DEF Due, Elements, Matches
  <2>c. routePc # "dispatch" => Due = {}
    BY DEF Due
  <2>d. routePc' # "dispatch" => Due' = {}
    BY DEF Due
  <2>1. ASSUME NEW r \in Recipients, AddRecipient(r) PROVE Routing!Register(r)
    <3> DEFINE list == Append(Elements(entries), r)
    <3>1. /\ Elements(entries) \in Seq(Recipients) /\ Len(Elements(entries)) = entries.len
          /\ \A i \in 1..entries.len : Elements(entries)[i] = arrays[entries.array][i]
      BY <2>0, ElementsAre DEF Elements
    <3>2. /\ list \in Seq(Recipients) /\ Len(list) = entries.len + 1
          /\ \A i \in 1..entries.len : list[i] = arrays[entries.array][i]
          /\ list[entries.len + 1] = r
      BY <3>1, AppendProperties
    <3>3. Allocate(list)
      BY <2>1 DEF AddRecipient
    <3> HIDE DEF list
    <3>4. /\ entries'.len = entries.len + 1
          /\ arrays'[entries'.array] = list /\ arrays'[snapshot.array] = arrays[snapshot.array]
      BY <2>0, <3>2, <3>3, FreshArray
    <3>5. \A q : q \in Registered' <=> \E i \in 1..(entries.len + 1) : list[i] = q
      BY <3>4 DEF Images
    <3>6. \A i : i \in 1..(entries.len + 1) <=> i \in 1..entries.len \/ i = entries.len + 1
      BY <2>0
    <3>7. \A q : q \in Registered' <=> q \in Registered \/ q = r
      BY <3>2, <3>5, <3>6 DEF Images
    <3>8. Registered' = Registered \cup {r}
      BY <3>7
    <3>9. Due' = Due
      BY <2>1, <2>b, <3>4 DEF AddRecipient
    <3>. QED
      BY <2>1, <3>8, <3>9 DEF AddRecipient, Routing!Register
  <2>2. ASSUME NEW p \in Patterns, UnregisterHandler(p) PROVE Routing!Unregister(p)
    <3>1. Kept(p) \in Seq(Recipients)
      BY KeptProperties
    <3>2. /\ entries'.len = Len(Kept(p)) /\ arrays'[entries'.array] = Kept(p)
          /\ arrays'[snapshot.array] = arrays[snapshot.array]
      BY <2>0, <2>2, <3>1, FreshArray DEF UnregisterHandler
    <3>3. ASSUME NEW q PROVE q \in Registered' <=> q \in Registered /\ PatternsOf[q] # <<p>>
      <4>1. q \in Registered' <=> \E n \in 1..Len(Kept(p)) : Kept(p)[n] = q
        BY <3>2 DEF Images
      <4>. QED
        BY <4>1, KeptHolds DEF Images
    <3>4. Registered' = {r \in Registered : PatternsOf[r] # <<p>>}
      BY <3>3
    <3>5. Due' = Due
      BY <2>2, <2>b, <3>2 DEF UnregisterHandler
    <3>. QED
      BY <2>2, <3>4, <3>5 DEF UnregisterHandler, Routing!Unregister
  <2>3. ASSUME NEW pb \in Packets, RouteSnapshot(pb) PROVE Routing!Take(pb)
    <3>1. /\ routePc = "idle" /\ routePc' = "resolve" /\ packet' = pb
          /\ seen' = Registered /\ UNCHANGED <<arrays, entries>>
          /\ meaning' = IF pb.alias # None /\ pb.topic # None
                        THEN [meaning EXCEPT ![pb.alias] = pb.topic] ELSE meaning
      BY <2>3 DEF RouteSnapshot, RouteCalled, Registered
    <3>2. Due = {} /\ Due' = {} /\ Registered' = Registered
      BY <2>a, <2>c, <2>d, <3>1
    <3>. QED
      BY <3>1, <3>2 DEF Routing!Take
  <2>4. ASSUME RouteResolve PROVE Routing!Address \/ Routing!Drop
    <3>1. /\ routePc = "resolve" /\ topic' = Resolution(packet) /\ phase # "down"
          /\ routePc' = IF topic' = None THEN "idle" ELSE "dispatch"
          /\ UNCHANGED <<arrays, entries, packet, snapshot, next, seen, meaning>>
          /\ next = 1 /\ packet \in Packets
      BY <2>4 DEF RouteResolve, AliasInv, AliasTypes, Quiet, RouterInv
    <3>2. Due = {} /\ Registered' = Registered
      BY <2>a, <2>c, <3>1
    <3>3. CASE topic' = None
      <4>1. packet.topic = None
        BY <3>1, <3>3 DEF Resolution
      <4>. QED
        BY <2>d, <3>1, <3>2, <3>3, <4>1 DEF Routing!Drop
    <3>4. CASE topic' # None
      <4>1. Routing!Subject = topic'
        BY <3>1, <3>4 DEF Resolution, Routing!Subject, AliasInv, Pending, Known, Registers, Packets
      <4>2. ASSUME NEW r PROVE r \in Due' <=> r \in Routing!For(topic')
        <5>1. r \in seen <=> \E i \in 1..snapshot.len : arrays[snapshot.array][i] = r
          BY <3>1 DEF RouterInv
        <5>2. r \in Due' <=>
                \E i \in 1..snapshot.len : arrays[snapshot.array][i] = r /\ Matches(r, topic')
          BY <3>1, <3>4 DEF Images, Matches
        <5>. QED
          BY <5>1, <5>2 DEF Routing!For, Matches
      <4>3. Due' = Routing!For(topic')
        BY <4>2
      <4>. QED
        BY <3>1, <3>2, <3>4, <4>1, <4>3 DEF Routing!Address
    <3>. QED
      BY <3>3, <3>4
  <2>5. ASSUME RouteDispatch
        PROVE  (\E r \in Recipients : Routing!Call(r)) \/ UNCHANGED Routing!vars
    <3>1. /\ routePc = "dispatch" /\ next' = next + 1 /\ next \in 1..snapshot.len
          /\ UNCHANGED <<arrays, entries, routePc, packet, snapshot, topic, seen, meaning>>
      BY <2>0, <2>5 DEF RouteDispatch, RouterInv
    <3>2. PICK r \in Recipients : r = arrays[snapshot.array][next]
      BY <2>0, <3>1, ElementOfSeq
    <3>3. \A i \in (next + 1)..snapshot.len : arrays[snapshot.array][i] # r
      BY <2>0, <3>1, <3>2 DEF RouterInv, Distinct
    <3>4. \A i : i \in next..snapshot.len <=> i \in (next + 1)..snapshot.len \/ i = next
      BY <2>0, <3>1
    <3>5. ASSUME NEW q
          PROVE  q \in Due' <=> \E i \in (next + 1)..snapshot.len :
                                  arrays[snapshot.array][i] = q /\ Matches(q, topic)
      BY <3>1 DEF Images, Matches
    <3>6. ASSUME NEW q
          PROVE  q \in Due <=> \E i \in next..snapshot.len :
                                 arrays[snapshot.array][i] = q /\ Matches(q, topic)
      BY <3>1 DEF Images
    <3>7. r \notin Due' /\ (r \in Due <=> Matches(r, topic))
      BY <3>2, <3>3, <3>4, <3>5, <3>6
    <3>8. ASSUME NEW q, q # r PROVE q \in Due' <=> q \in Due
      BY <3>2, <3>4, <3>5, <3>6, <3>8
    <3>9. Due' = Due \ {r}
      BY <3>7, <3>8
    <3>10. Registered' = Registered
      BY <2>a, <3>1
    <3>11. CASE r \in Due
      BY <3>1, <3>9, <3>10, <3>11 DEF Routing!Call
    <3>12. CASE r \notin Due
      <4>1. Due' = Due
        BY <3>9, <3>12
      <4>. QED
        BY <3>1, <3>10, <4>1 DEF Routing!vars
    <3>. QED
      BY <3>11, <3>12
  <2>6. ASSUME RouteReturn PROVE Routing!Finish
    <3>1. /\ routePc = "dispatch" /\ routePc' = "idle" /\ next > snapshot.len
          /\ UNCHANGED <<arrays, entries, packet, seen, meaning>>
      BY <2>6 DEF RouteReturn
    <3>2. \A i : i \notin next..snapshot.len
      BY <2>0, <3>1 DEF TypeOK
    <3>3. Due = {} /\ Due' = {} /\ Registered' = Registered
      BY <2>a, <2>d, <3>1, <3>2 DEF Images
    <3>. QED
      BY <3>1, <3>3 DEF Routing!Finish
  <2>7. ASSUME Connack PROVE Routing!Connect
    <3>1. /\ routePc = "idle" /\ meaning' = Unassigned
          /\ UNCHANGED <<arrays, entries, routePc, packet, seen, snapshot, next, topic>>
      BY <2>7 DEF Connack, AliasInv, Quiet
    <3>2. Due' = Due /\ Registered' = Registered
      BY <2>a, <2>c, <2>d, <3>1
    <3>. QED
      BY <3>1, <3>2 DEF Routing!Connect, Unassigned, Routing!Unassigned
  <2>8. ASSUME ResetAliasesUp \/ ResetAliasesDown \/ UNCHANGED vars
        PROVE  UNCHANGED Routing!vars
    <3>1. UNCHANGED <<arrays, entries, routePc, packet, seen, snapshot, next, topic, meaning>>
      BY <2>8 DEF ResetAliasesUp, ResetAliasesDown, resetAliases, vars
    <3>2. Due' = Due /\ Registered' = Registered
      BY <2>a, <2>b, <3>1
    <3>. QED
      BY <3>1, <3>2 DEF Routing!vars
  <2>9. Packets = [topic : Topics \cup {None}, alias : Aliases \cup {None}]
    BY DEF Packets
  <2>. QED
    BY <2>1, <2>2, <2>3, <2>4, <2>5, <2>6, <2>7, <2>8, <2>9 DEF Next, Routing!Next
<1>. QED
  BY <1>1, <1>2, AliasInvariant, RouterInvariant, ImagesInvariant, PTL
  DEF Spec, RoutingSpec, Routing!Spec
=============================================================================

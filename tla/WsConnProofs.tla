----------------------------- MODULE WsConnProofs -----------------------------
(* The writing half of WsConn implements PacketChannel, for any packets     *)
(* split in any way; the reading half keeps the stream, for any frames.     *)
EXTENDS WsConn, SequenceTheorems, TLAPS

WriterTypes ==
  /\ wmu \in Packets \cup {None}
  /\ locked \in BOOLEAN
  /\ pc \in [Packets -> {"idle", "writing", "sending", "done"}]
  /\ nbuf \in [Packets -> Nat]

\* The holder of wmu is the one goroutine between Lock and Unlock.
HoldsLock == \A p \in Packets : pc[p] \in {"writing", "sending"} <=> wmu = p

\* The buffer holds what that goroutine has written since Lock.
BufferExact == wmu # None => buf = [i \in 1..nbuf[wmu] |-> <<wmu, i>>]

\* Nobody has written a buffer before Lock, and nobody sends before the last one.
Counted ==
  \A p \in Packets :
    /\ pc[p] = "idle" => nbuf[p] = 0
    /\ pc[p] = "sending" => nbuf[p] = Chunks[p]

WriterInv == WriterTypes /\ HoldsLock /\ BufferExact /\ Counted

\* Whoever holds wmu has the buffer to itself.
LEMMA WriterInvariant == Spec => []WriterInv
<1>1. Init => WriterInv
  <2> SUFFICES ASSUME Init PROVE WriterInv
    OBVIOUS
  <2>1. /\ wmu = None /\ locked = FALSE
        /\ pc = [p \in Packets |-> "idle"] /\ nbuf = [p \in Packets |-> 0]
    BY DEF Init
  <2>. QED
    BY <2>1, WsAssumption
    DEF WriterInv, WriterTypes, HoldsLock, BufferExact, Counted
<1>2. WriterInv /\ [Next]_vars => WriterInv'
  <2> SUFFICES ASSUME WriterInv, [Next]_vars PROVE WriterInv'
    OBVIOUS
  <2> USE WsAssumption DEF writing, reading, WriterInv, WriterTypes, HoldsLock, BufferExact,
                           Counted
  <2>1. ASSUME NEW p \in Packets, Lock(p) PROVE WriterInv'
    BY <2>1 DEF Lock
  <2>2. ASSUME NEW p \in Packets, Write(p) PROVE WriterInv'
    <3>1. wmu = p /\ nbuf[p] \in Nat /\ buf = [i \in 1..nbuf[p] |-> <<p, i>>]
      BY <2>2 DEF Write
    <3>2. Append(buf, <<p, nbuf[p] + 1>>) = [i \in 1..(nbuf[p] + 1) |-> <<p, i>>]
      BY <3>1
    <3>. QED
      BY <2>2, <3>1, <3>2 DEF Write
  <2>3. ASSUME NEW p \in Packets, Unlock(p) PROVE WriterInv'
    BY <2>3 DEF Unlock
  <2>6. ASSUME NEW p \in Packets, WriteMessage(p) PROVE WriterInv'
    BY <2>6 DEF WriteMessage
  <2>4. ASSUME \/ Stall \/ Break \/ Close \/ ReadBreak \/ ReaderStep
               \/ \E n \in 0..MaxFrame : Arrive(n)
        PROVE  WriterInv'
    BY <2>4 DEF Stall, Break, Close, ReadBreak, ReaderStep, Arrive, NextReader, ReadSome, ReadLast,
                ReadError
  <2>5. CASE UNCHANGED vars
    BY <2>5 DEF vars
  <2>. QED
    BY <2>1, <2>2, <2>3, <2>4, <2>5, <2>6 DEF Next, WriterStep
<1>. QED
  BY <1>1, <1>2, PTL DEF Spec

(* Every packet is sent as one WebSocket message, whole and at most once,   *)
(* however its buffers interleave with those of others (ws.go:3-18).        *)
THEOREM ImplementsChannel == Spec => ChannelSpec
<1>1. Init => Channel!Init
  BY DEF Init, Channel!Init
<1>2. WriterInv /\ [Next]_vars =>
        [Channel!Next]_<<frames, broken, {p \in Packets : pc[p] = "done"}>>
  <2> SUFFICES ASSUME WriterInv, [Next]_vars
               PROVE  \/ Channel!Next
                      \/ UNCHANGED <<frames, broken, {p \in Packets : pc[p] = "done"}>>
    OBVIOUS
  <2> DEFINE written == {p \in Packets : pc[p] = "done"}
  <2> USE DEF writing, reading, WriterInv, WriterTypes
  <2>1. ASSUME NEW p \in Packets, Lock(p) PROVE UNCHANGED <<frames, broken, written>>
    BY <2>1 DEF Lock
  <2>2. ASSUME NEW p \in Packets, Write(p) PROVE UNCHANGED <<frames, broken, written>>
    BY <2>2 DEF Write
  <2>3. ASSUME NEW p \in Packets, WriteMessage(p) PROVE Channel!Write(p)
    <3>1. wmu = p /\ wmu # None /\ nbuf[p] = Chunks[p]
      BY <2>3, WsAssumption DEF WriteMessage, HoldsLock, Counted
    <3>2. buf = [i \in 1..Chunks[p] |-> <<p, i>>] /\ Chunks[p] \in Nat \ {0}
      BY <2>3, <3>1, WsAssumption DEF BufferExact
    <3>3. buf = Content[p] /\ buf # <<>>
      BY <3>2 DEF Content
    <3>4. p \notin written /\ written' = written \cup {p}
      BY <2>3 DEF WriteMessage
    <3>5. frames' = IF broken THEN frames ELSE Append(frames, Content[p])
      BY <2>3, <3>3 DEF WriteMessage
    <3>. QED
      BY <2>3, <3>4, <3>5 DEF WriteMessage, Channel!Write
  <2>8. ASSUME NEW p \in Packets, Unlock(p) PROVE UNCHANGED <<frames, broken, written>>
    BY <2>8 DEF Unlock
  <2>4. ASSUME Break PROVE Channel!Break
    BY <2>4 DEF Break, Channel!Break
  <2>5. ASSUME Close PROVE Channel!Break \/ UNCHANGED <<frames, broken, written>>
    BY <2>5 DEF Close, Channel!Break
  <2>6. ASSUME Stall \/ ReadBreak \/ ReaderStep \/ \E n \in 0..MaxFrame : Arrive(n)
        PROVE  UNCHANGED <<frames, broken, written>>
    BY <2>6 DEF Stall, ReadBreak, ReaderStep, Arrive, NextReader, ReadSome, ReadLast, ReadError
  <2>7. CASE UNCHANGED vars
    BY <2>7 DEF vars
  <2>. QED
    BY <2>1, <2>2, <2>3, <2>4, <2>5, <2>6, <2>7, <2>8 DEF Next, WriterStep, Channel!Next
<1>. QED
  BY <1>1, <1>2, WriterInvariant, PTL DEF Spec, ChannelSpec, Channel!Spec

-----------------------------------------------------------------------------
(* The reading half.  A byte is known by its place, so the bytes in every   *)
(* part of the stream are an interval of places.                            *)

\* The bytes after the place m, up to the place n.
Bytes(m, n) == [i \in 1..(n - m) |-> m + i]

(* An interval of places is a sequence of its length.                       *)
LEMMA BytesType == ASSUME NEW m \in Nat, NEW n \in Nat, m <= n
                   PROVE  Bytes(m, n) \in Seq(Nat) /\ Len(Bytes(m, n)) = n - m
<1>1. n - m \in Nat
  OBVIOUS
<1>. QED
  BY <1>1 DEF Bytes

(* The same, for the n bytes after m.                                       *)
LEMMA BytesAfter == ASSUME NEW m \in Nat, NEW n \in Nat
                    PROVE  Bytes(m, m + n) \in Seq(Nat) /\ Len(Bytes(m, m + n)) = n
<1>1. m + n \in Nat /\ m <= m + n /\ m + n - m = n
  OBVIOUS
<1>. QED
  BY <1>1, BytesType

(* Adjacent intervals make one.                                             *)
LEMMA BytesConcat ==
  ASSUME NEW m \in Nat, NEW k \in Nat, NEW n \in Nat, m <= k, k <= n
  PROVE  Bytes(m, k) \o Bytes(k, n) = Bytes(m, n)
<1>1. PICK a, b, c : a = Bytes(m, k) /\ b = Bytes(k, n) /\ c = Bytes(m, n)
  OBVIOUS
<1>2. m <= n
  OBVIOUS
<1>3. a \in Seq(Nat) /\ Len(a) = k - m
  BY <1>1, BytesType
<1>4. b \in Seq(Nat) /\ Len(b) = n - k
  BY <1>1, BytesType
<1>5. c \in Seq(Nat) /\ Len(c) = n - m
  BY <1>1, <1>2, BytesType
<1>6. /\ \A i \in 1..(k - m) : a[i] = m + i
      /\ \A i \in 1..(n - k) : b[i] = k + i
      /\ \A i \in 1..(n - m) : c[i] = m + i
  BY <1>1 DEF Bytes
<1>7. /\ a \o b \in Seq(Nat) /\ Len(a \o b) = Len(a) + Len(b)
      /\ \A i \in 1..(Len(a) + Len(b)) : (a \o b)[i] = IF i <= Len(a) THEN a[i] ELSE b[i - Len(a)]
  BY <1>3, <1>4, ConcatProperties
<1>8. Len(a \o b) = Len(c)
  BY <1>3, <1>4, <1>5, <1>7
<1>9. ASSUME NEW i \in 1..Len(a \o b) PROVE (a \o b)[i] = c[i]
  <2>1. CASE i <= Len(a)
    BY <2>1, <1>3, <1>4, <1>6, <1>7
  <2>2. CASE i > Len(a)
    BY <2>2, <1>3, <1>4, <1>6, <1>7
  <2>. QED
    BY <2>1, <2>2, <1>3, <1>4, <1>7
<1>. QED
  BY <1>1, <1>5, <1>7, <1>8, <1>9, SeqEqual

(* An interval falls apart into two.                                        *)
LEMMA BytesSplit ==
  ASSUME NEW m \in Nat, NEW k \in Nat, NEW n \in Nat, m <= k, k <= n
  PROVE  /\ SubSeq(Bytes(m, n), 1, k - m) = Bytes(m, k)
         /\ SubSeq(Bytes(m, n), k - m + 1, n - m) = Bytes(k, n)
<1> DEFINE c == Bytes(m, n)
<1>1. \A i \in 1..(n - m) : c[i] = m + i /\ c[i] \in Nat
  BY DEF Bytes
<1> HIDE DEF c
<1>2. SubSeq(c, 1, k - m) = Bytes(m, k)
  <2>1. \A i \in 1..(k - m) : c[i] \in Nat
    BY <1>1
  <2>2. 1 \in Int /\ k - m \in Int /\ k - m >= 0
    OBVIOUS
  <2>3. /\ SubSeq(c, 1, k - m) \in Seq(Nat)
        /\ Len(SubSeq(c, 1, k - m)) = IF 1 <= k - m THEN k - m - 1 + 1 ELSE 0
        /\ \A i \in 1..(k - m - 1 + 1) : SubSeq(c, 1, k - m)[i] = c[1 + i - 1]
    BY <2>1, <2>2, SubSeqProperties
  <2>4. Len(SubSeq(c, 1, k - m)) = k - m
    BY <2>2, <2>3
  <2>5. \A i \in 1..(k - m) : SubSeq(c, 1, k - m)[i] = m + i
    BY <1>1, <2>3
  <2>6. \A i \in 1..(k - m) : Bytes(m, k)[i] = m + i
    BY DEF Bytes
  <2>7. Bytes(m, k) \in Seq(Nat) /\ Len(Bytes(m, k)) = k - m
    BY BytesType
  <2>8. PICK d, e : d = SubSeq(c, 1, k - m) /\ e = Bytes(m, k)
    OBVIOUS
  <2>9. Len(d) = Len(e) /\ \A i \in 1..Len(d) : d[i] = e[i]
    BY <2>4, <2>5, <2>6, <2>7, <2>8
  <2>. QED
    BY <2>3, <2>7, <2>8, <2>9, SeqEqual
<1>3. SubSeq(c, k - m + 1, n - m) = Bytes(k, n)
  <2>1. \A i \in (k - m + 1)..(n - m) : c[i] \in Nat
    BY <1>1
  <2>2. k - m + 1 \in Int /\ n - m \in Int
    OBVIOUS
  <2>3. /\ SubSeq(c, k - m + 1, n - m) \in Seq(Nat)
        /\ Len(SubSeq(c, k - m + 1, n - m)) =
             IF k - m + 1 <= n - m THEN n - m - (k - m + 1) + 1 ELSE 0
        /\ \A i \in 1..(n - m - (k - m + 1) + 1) :
             SubSeq(c, k - m + 1, n - m)[i] = c[k - m + 1 + i - 1]
    BY <2>1, <2>2, SubSeqProperties
  <2>4. Len(SubSeq(c, k - m + 1, n - m)) = n - k
    BY <2>3
  <2>5. \A i \in 1..(n - k) : SubSeq(c, k - m + 1, n - m)[i] = k + i
    BY <1>1, <2>3
  <2>6. \A i \in 1..(n - k) : Bytes(k, n)[i] = k + i
    BY DEF Bytes
  <2>7. Bytes(k, n) \in Seq(Nat) /\ Len(Bytes(k, n)) = n - k
    BY BytesType
  <2>8. PICK d, e : d = SubSeq(c, k - m + 1, n - m) /\ e = Bytes(k, n)
    OBVIOUS
  <2>9. Len(d) = Len(e) /\ \A i \in 1..Len(d) : d[i] = e[i]
    BY <2>4, <2>5, <2>6, <2>7, <2>8
  <2>. QED
    BY <2>3, <2>7, <2>8, <2>9, SeqEqual
<1>. QED
  BY <1>2, <1>3 DEF c

Left == IF r = None THEN <<>> ELSE r

\* Where the frames of the inbox begin and end, and the whole of what arrived.
Cuts(cut) ==
  /\ cut \in Seq(Nat) /\ Len(cut) = Len(inbox) + 1
  /\ cut[1] = Len(got) + Len(Left)
  /\ cut[Len(inbox) + 1] = Len(arrived)
  /\ \A j \in 1..Len(inbox) :
       cut[j] <= cut[j + 1] /\ inbox[j] = Bytes(cut[j], cut[j + 1])
  /\ \A j \in 1..(Len(inbox) + 1) : cut[j] <= Len(arrived)

StreamTypes ==
  /\ inbox \in Seq(Seq(Nat)) /\ r \in Seq(Nat) \cup {None}
  /\ arrived \in Seq(Nat) /\ got \in Seq(Nat)

StreamInv ==
  /\ StreamTypes
  /\ arrived = Bytes(0, Len(arrived))
  /\ got = Bytes(0, Len(got))
  /\ Left = Bytes(Len(got), Len(got) + Len(Left))
  /\ \E cut : Cuts(cut)

(* A frame goes into the inbox behind the others.                           *)
LEMMA ArriveKeeps ==
  ASSUME StreamInv, NEW n \in 0..MaxFrame, Arrive(n)
  PROVE  StreamInv'
<1> USE WsAssumption
<1>1. PICK len, f : len = Len(arrived) /\ f = Bytes(len, len + n)
  OBVIOUS
<1>2. len \in Nat /\ n \in Nat /\ len + n \in Nat /\ 0 <= len /\ len <= len + n
  BY <1>1 DEF StreamInv, StreamTypes
<1>3. f \in Seq(Nat) /\ Len(f) = n
  BY <1>1, <1>2, BytesAfter
<1>4. [i \in 1..n |-> len + i] = f
  BY <1>1, <1>2 DEF Bytes
<1>5. inbox' = Append(inbox, f) /\ arrived' = arrived \o f /\ UNCHANGED <<r, got>>
  BY <1>1, <1>4 DEF Arrive
<1>6. arrived = Bytes(0, len)
  BY <1>1 DEF StreamInv
<1>7. Bytes(0, len) \o Bytes(len, len + n) = Bytes(0, len + n)
  BY <1>2, BytesConcat
<1>8. arrived' = Bytes(0, len + n)
  BY <1>1, <1>5, <1>6, <1>7
<1>9. Bytes(0, len + n) \in Seq(Nat) /\ Len(Bytes(0, len + n)) = len + n
  <2>1. 0 + (len + n) = len + n
    BY <1>2
  <2>. QED
    BY <1>2, <2>1, BytesAfter
<1>10. arrived' \in Seq(Nat) /\ Len(arrived') = len + n
  BY <1>8, <1>9
<1>11. StreamTypes'
  BY <1>3, <1>5, <1>10, AppendProperties DEF StreamInv, StreamTypes
<1>12. Left' = Left
  BY <1>5 DEF Left
<1>13. PICK cut : Cuts(cut)
  BY DEF StreamInv
<1>14. PICK c, w : c = Append(cut, len + n) /\ w = Len(inbox)
  OBVIOUS
<1>15. w \in Nat /\ cut \in Seq(Nat) /\ Len(cut) = w + 1
  BY <1>13, <1>14 DEF Cuts, StreamInv, StreamTypes
<1>16. /\ c \in Seq(Nat) /\ Len(c) = w + 2
       /\ \A j \in 1..(w + 1) : c[j] = cut[j]
       /\ c[w + 2] = len + n
  BY <1>2, <1>14, <1>15, AppendProperties
<1>17. /\ inbox' \in Seq(Seq(Nat)) /\ Len(inbox') = w + 1
       /\ \A j \in 1..w : inbox'[j] = inbox[j]
       /\ inbox'[w + 1] = f
  BY <1>3, <1>5, <1>14, AppendProperties DEF StreamInv, StreamTypes
<1>18. /\ cut[1] = Len(got) + Len(Left) /\ cut[w + 1] = len
       /\ \A j \in 1..w : cut[j] <= cut[j + 1] /\ inbox[j] = Bytes(cut[j], cut[j + 1])
       /\ \A j \in 1..(w + 1) : cut[j] <= len
  BY <1>1, <1>13, <1>14 DEF Cuts
<1>19. c[1] = Len(got') + Len(Left')
  BY <1>5, <1>12, <1>15, <1>16, <1>18
<1>20. ASSUME NEW j \in 1..(w + 1)
       PROVE  c[j] <= c[j + 1] /\ inbox'[j] = Bytes(c[j], c[j + 1])
  <2>1. CASE j = w + 1
    BY <1>1, <1>2, <1>15, <1>16, <1>17, <1>18, <2>1
  <2>2. CASE j \in 1..w
    <3>1. j \in 1..(w + 1) /\ j + 1 \in 1..(w + 1)
      BY <1>15, <2>2
    <3>2. c[j] = cut[j] /\ c[j + 1] = cut[j + 1]
      BY <1>16, <3>1
    <3>. QED
      BY <1>17, <1>18, <2>2, <3>2
  <2>. QED
    BY <1>15, <2>1, <2>2
<1>21. ASSUME NEW j \in 1..(w + 2) PROVE c[j] <= len + n
  <2>1. CASE j = w + 2
    BY <1>2, <1>16, <2>1
  <2>2. CASE j \in 1..(w + 1)
    <3>1. cut[j] \in Nat
      BY <1>15, <2>2, ElementOfSeq
    <3>. QED
      BY <1>2, <1>16, <1>18, <2>2, <3>1
  <2>. QED
    BY <1>15, <2>1, <2>2
<1>22. Len(inbox') + 1 = w + 2 /\ w + 1 \in Nat
  BY <1>15, <1>17
<1>23. Cuts(c)'
  BY <1>10, <1>15, <1>16, <1>17, <1>19, <1>20, <1>21, <1>22 DEF Cuts
<1>24. got' = Bytes(0, Len(got')) /\ Left' = Bytes(Len(got'), Len(got') + Len(Left'))
  BY <1>5, <1>12 DEF StreamInv
<1>. QED
  BY <1>8, <1>10, <1>11, <1>23, <1>24 DEF StreamInv

(* Bytes move from the head of what the reader has left to what Read has    *)
(* returned.                                                                *)
LEMMA ReadKeeps ==
  ASSUME StreamInv, NEW n \in 0..Len(Left),
         got' = got \o SubSeq(Left, 1, n), Left' = SubSeq(Left, n + 1, Len(Left)),
         r' \in Seq(Nat) \cup {None}, UNCHANGED <<inbox, arrived>>
  PROVE  StreamInv'
<1>1. PICK g, k : g = Len(got) /\ k = Len(Left)
  OBVIOUS
<1>2. g \in Nat /\ k \in Nat
  BY <1>1 DEF StreamInv, StreamTypes, Left
<1>3. /\ n \in Nat /\ g + n \in Nat /\ g + k \in Nat
      /\ g <= g + n /\ g + n <= g + k /\ 0 <= g
      /\ (g + n) - g = n /\ (g + k) - g = k /\ (g + n) + (k - n) = g + k /\ k - n \in Nat
      /\ 0 + (g + n) = g + n
  BY <1>1, <1>2
<1>4. got = Bytes(0, g) /\ Left = Bytes(g, g + k)
  BY <1>1 DEF StreamInv
<1>5. /\ SubSeq(Bytes(g, g + k), 1, (g + n) - g) = Bytes(g, g + n)
      /\ SubSeq(Bytes(g, g + k), (g + n) - g + 1, (g + k) - g) = Bytes(g + n, g + k)
  <2>1. PICK h, t : h = g + n /\ t = g + k
    OBVIOUS
  <2>2. h \in Nat /\ t \in Nat /\ g <= h /\ h <= t
    BY <1>3, <2>1
  <2>3. /\ SubSeq(Bytes(g, t), 1, h - g) = Bytes(g, h)
        /\ SubSeq(Bytes(g, t), h - g + 1, t - g) = Bytes(h, t)
    BY <1>2, <2>2, BytesSplit, Zenon
  <2>. QED
    BY <2>1, <2>3
<1>6. Bytes(0, g) \o Bytes(g, g + n) = Bytes(0, g + n)
  <2>1. PICK z, h : z = 0 /\ h = g + n
    OBVIOUS
  <2>2. z \in Nat /\ h \in Nat /\ z <= g /\ g <= h
    BY <1>2, <1>3, <2>1
  <2>3. Bytes(z, g) \o Bytes(g, h) = Bytes(z, h)
    BY <1>2, <2>2, BytesConcat, Zenon
  <2>. QED
    BY <2>1, <2>3
<1>7. got' = Bytes(0, g + n) /\ Left' = Bytes(g + n, g + k)
  BY <1>1, <1>3, <1>4, <1>5, <1>6
<1>8. Bytes(0, g + n) \in Seq(Nat) /\ Len(Bytes(0, g + n)) = g + n
  BY <1>3, BytesAfter
<1>9. Len(Bytes(g + n, g + k)) = k - n
  BY <1>3, BytesAfter
<1>10. Len(got') = g + n /\ Len(Left') = k - n /\ got' \in Seq(Nat)
  BY <1>7, <1>8, <1>9
<1>11. PICK cut : Cuts(cut)
  BY DEF StreamInv
<1>12. Len(got') + Len(Left') = Len(got) + Len(Left)
  BY <1>1, <1>3, <1>10
<1>13. Cuts(cut)'
  BY <1>11, <1>12 DEF Cuts
<1>14. StreamTypes'
  BY <1>10 DEF StreamInv, StreamTypes
<1>15. got' = Bytes(0, Len(got')) /\ Left' = Bytes(Len(got'), Len(got') + Len(Left'))
  BY <1>3, <1>7, <1>10
<1>. QED
  BY <1>13, <1>14, <1>15 DEF StreamInv

(* The next frame begins where the last one ended.                          *)
LEMMA NextReaderKeeps == ASSUME StreamInv, NextReader PROVE StreamInv'
<1> USE WsAssumption
<1>1. PICK cut : Cuts(cut)
  BY DEF StreamInv
<1>2. PICK w, g, c : w = Len(inbox) /\ g = Len(got) /\ c = Tail(cut)
  OBVIOUS
<1>3. /\ w \in Nat /\ w >= 1 /\ g \in Nat
      /\ inbox \in Seq(Seq(Nat)) /\ inbox # <<>> /\ cut \in Seq(Nat) /\ Len(cut) = w + 1
  BY <1>1, <1>2 DEF NextReader, Cuts, StreamInv, StreamTypes
<1>4. /\ Head(inbox) = inbox[1] /\ Tail(inbox) \in Seq(Seq(Nat)) /\ Len(Tail(inbox)) = w - 1
      /\ \A j \in 1..(w - 1) : Tail(inbox)[j] = inbox[j + 1]
  BY <1>2, <1>3, HeadTailProperties
<1>5. /\ c \in Seq(Nat) /\ Len(c) = w
      /\ \A j \in 1..w : c[j] = cut[j + 1]
  <2>1. cut # <<>>
    BY <1>3
  <2>. QED
    BY <1>2, <1>3, <2>1, HeadTailProperties
<1>6. Left = <<>> /\ r' = Head(inbox) /\ inbox' = Tail(inbox) /\ UNCHANGED <<arrived, got>>
  BY DEF NextReader, Left
<1>7. /\ cut[1] = g /\ cut[w + 1] = Len(arrived)
      /\ \A j \in 1..w : cut[j] <= cut[j + 1] /\ inbox[j] = Bytes(cut[j], cut[j + 1])
      /\ \A j \in 1..(w + 1) : cut[j] <= Len(arrived)
  BY <1>1, <1>2, <1>3, <1>6 DEF Cuts
<1>8. inbox[1] \in Seq(Nat)
  BY <1>2, <1>3, ElementOfSeq
<1>9. Left' = inbox[1] /\ r' \in Seq(Nat)
  BY <1>4, <1>6, <1>8 DEF Left
<1>10. cut[2] \in Nat /\ g <= cut[2] /\ inbox[1] = Bytes(g, cut[2])
  BY <1>3, <1>7
<1>11. Len(Left') = cut[2] - g
  BY <1>3, <1>9, <1>10, BytesType
<1>12. Len(got') + Len(Left') = cut[2]
  BY <1>2, <1>3, <1>6, <1>10, <1>11
<1>13. c[1] = cut[2]
  BY <1>3, <1>5
<1>14. \A j \in 1..(w - 1) : c[j] <= c[j + 1] /\ inbox'[j] = Bytes(c[j], c[j + 1])
  <2>1. TAKE j \in 1..(w - 1)
  <2>2. j \in 1..w /\ j + 1 \in 1..w
    BY <1>3
  <2>3. c[j] = cut[j + 1] /\ c[j + 1] = cut[j + 1 + 1]
    BY <1>5, <2>2
  <2>4. inbox'[j] = inbox[j + 1]
    BY <1>4, <1>6
  <2>. QED
    BY <1>7, <2>2, <2>3, <2>4
<1>15. \A j \in 1..w : c[j] <= Len(arrived)
  BY <1>3, <1>5, <1>7
<1>16. c[w] = Len(arrived)
  BY <1>3, <1>5, <1>7
<1>17. Len(inbox') = w - 1 /\ Len(inbox') + 1 = w
  BY <1>3, <1>4, <1>6
<1>18. Cuts(c)'
  BY <1>5, <1>6, <1>12, <1>13, <1>14, <1>15, <1>16, <1>17 DEF Cuts
<1>19. Left' = Bytes(Len(got'), Len(got') + Len(Left'))
  BY <1>2, <1>6, <1>9, <1>10, <1>12
<1>20. StreamTypes'
  BY <1>4, <1>6, <1>9 DEF StreamInv, StreamTypes
<1>. QED
  BY <1>6, <1>18, <1>19, <1>20 DEF StreamInv

(* The parts of the stream are in order, in every state.                    *)
LEMMA StreamInvariant == Spec => []StreamInv
<1>1. Init => StreamInv
  <2> SUFFICES ASSUME Init PROVE StreamInv
    OBVIOUS
  <2>1. inbox = <<>> /\ r = None /\ arrived = <<>> /\ got = <<>> /\ Left = <<>>
    BY DEF Init, Left
  <2>2. Bytes(0, 0) = <<>>
    BY DEF Bytes
  <2>3. Cuts(<<0>>)
    BY <2>1 DEF Cuts
  <2>. QED
    BY <2>1, <2>2, <2>3 DEF StreamInv, StreamTypes
<1>2. StreamInv /\ [Next]_vars => StreamInv'
  <2> SUFFICES ASSUME StreamInv, [Next]_vars PROVE StreamInv'
    OBVIOUS
  <2>1. ASSUME UNCHANGED <<inbox, r, arrived, got>> PROVE StreamInv'
    BY <2>1 DEF StreamInv, StreamTypes, Left, Cuts
  <2>2. ASSUME NEW p \in Packets, WriterStep(p) PROVE StreamInv'
    BY <2>1, <2>2 DEF WriterStep, Lock, Write, Unlock, WriteMessage, reading
  <2>3. ASSUME NEW n \in 0..MaxFrame, Arrive(n) PROVE StreamInv'
    BY <2>3, ArriveKeeps
  <2>4. CASE NextReader
    BY <2>4, NextReaderKeeps
  <2>5. ASSUME NEW n \in 1..MaxFrame, ReadSome(n) PROVE StreamInv'
    <3>1. r # None /\ n \in 0..Len(r) /\ r \in Seq(Nat)
      BY <2>5 DEF ReadSome, StreamInv, StreamTypes
    <3>2. r' \in Seq(Nat)
      BY <2>5, <3>1, SubSeqProperties DEF ReadSome
    <3>3. Left = r /\ Left' = r'
      BY <3>1, <3>2, WsAssumption DEF Left
    <3>. QED
      BY <2>5, <3>1, <3>2, <3>3, ReadKeeps DEF ReadSome
  <2>6. CASE ReadLast
    <3>1. r \in Seq(Nat) /\ Left = r /\ Left' = <<>> /\ r' = None
      BY <2>6 DEF ReadLast, StreamInv, StreamTypes, Left
    <3>2. /\ Len(r) \in 0..Len(r) /\ SubSeq(r, 1, Len(r)) = r
          /\ SubSeq(r, Len(r) + 1, Len(r)) = <<>>
      BY <3>1, SubSeqFull
    <3>. QED
      BY <2>6, <3>1, <3>2, ReadKeeps DEF ReadLast
  <2>7. CASE ReadError
    <3>1. CASE r = None
      BY <2>1, <2>7, <3>1 DEF ReadError
    <3>2. CASE r # None
      <4>1. PICK n \in 0..Len(r) :
              got' = got \o SubSeq(r, 1, n) /\ r' = SubSeq(r, n + 1, Len(r))
        BY <2>7, <3>2 DEF ReadError
      <4>2. r \in Seq(Nat) /\ UNCHANGED <<inbox, arrived>>
        BY <2>7, <3>2 DEF ReadError, StreamInv, StreamTypes
      <4>3. r' \in Seq(Nat)
        BY <4>1, <4>2, SubSeqProperties
      <4>4. Left = r /\ Left' = r'
        BY <3>2, <4>3, WsAssumption DEF Left
      <4>. QED
        BY <4>1, <4>2, <4>3, <4>4, ReadKeeps
    <3>. QED
      BY <3>1, <3>2
  <2>8. CASE Stall \/ Break \/ ReadBreak \/ Close
    BY <2>1, <2>8 DEF Stall, Break, ReadBreak, Close, reading
  <2>9. CASE UNCHANGED vars
    BY <2>1, <2>9 DEF vars, reading
  <2>. QED
    BY <2>2, <2>3, <2>4, <2>5, <2>6, <2>7, <2>8, <2>9 DEF Next, ReaderStep
<1>. QED
  BY <1>1, <1>2, PTL DEF Spec

(* What Read has returned is a prefix of what arrived, wherever frames end  *)
(* and however their bytes are divided among calls of Read (ws.go:95-118).  *)
THEOREM StreamAlwaysIntact == Spec => []StreamIntact
<1>1. StreamInv => StreamIntact
  <2> SUFFICES ASSUME StreamInv PROVE StreamIntact
    OBVIOUS
  <2>1. PICK g, k, a : g = Len(got) /\ k = Len(Left) /\ a = Len(arrived)
    OBVIOUS
  <2>2. PICK cut : Cuts(cut)
    BY DEF StreamInv
  <2>3. /\ g \in Nat /\ k \in Nat /\ a \in Nat /\ g + k \in Nat /\ 0 <= g /\ g <= g + k
        /\ inbox \in Seq(Seq(Nat)) /\ arrived \in Seq(Nat)
    BY <2>1 DEF StreamInv, StreamTypes, Left
  <2>4. Len(inbox) \in Nat /\ g + k <= a
    BY <2>1, <2>2, <2>3 DEF Cuts
  <2>5. inbox = <<>> => g + k = a
    BY <2>1, <2>2, <2>3 DEF Cuts
  <2>6. got = Bytes(0, g) /\ Left = Bytes(g, g + k) /\ arrived = Bytes(0, a)
    BY <2>1 DEF StreamInv
  <2>7. Bytes(0, g) \o Bytes(g, g + k) = Bytes(0, g + k)
    BY <2>3, BytesConcat
  <2>8. ASSUME NEW z \in Nat, z = 0 PROVE SubSeq(Bytes(z, a), 1, (g + k) - z) = Bytes(z, g + k)
    <3>1. PICK e : e = g + k
      OBVIOUS
    <3>2. e \in Nat /\ z <= e /\ e <= a
      BY <2>3, <2>4, <2>8, <3>1
    <3>3. SubSeq(Bytes(z, a), 1, e - z) = Bytes(z, e)
      BY <2>3, <3>2, BytesSplit
    <3>. QED
      BY <3>1, <3>3
  <2>9. SubSeq(Bytes(0, a), 1, g + k) = Bytes(0, g + k)
    BY <2>3, <2>8
  <2>10. got \o Left = SubSeq(arrived, 1, g + k)
    BY <2>6, <2>7, <2>8, <2>9
  <2>11. inbox = <<>> => got \o Left = arrived
    BY <2>5, <2>6, <2>7
  <2>. QED
    BY <2>1, <2>10, <2>11 DEF StreamIntact, Left
<1>. QED
  BY <1>1, StreamInvariant, PTL

-----------------------------------------------------------------------------
(* The types.                                                               *)

\* What the two inductive invariants leave to be said.
RestTypes ==
  /\ buf \in Seq({wmu} \X Nat)
  /\ \A p \in Packets : nbuf[p] \in 0..Chunks[p]
  /\ frames \in Seq(Seq(Packets \X Nat))
  /\ broken \in BOOLEAN /\ stalled \in BOOLEAN
  /\ readErr \in BOOLEAN /\ ended \in BOOLEAN
  /\ received \in 0..MaxFrames

(* Every variable of WsConn keeps its type: a buffer never holds bytes of   *)
(* another packet than the one whose writer holds wmu.                      *)
THEOREM TypeCorrect == Spec => []TypeOK
<1> USE WsAssumption
<1>1. Init => RestTypes
  <2> SUFFICES ASSUME Init PROVE RestTypes
    OBVIOUS
  <2>1. /\ buf = <<>> /\ frames = <<>> /\ received = 0
        /\ broken = FALSE /\ stalled = FALSE /\ readErr = FALSE /\ ended = FALSE
        /\ \A p \in Packets : nbuf[p] = 0
    BY DEF Init
  <2>2. <<>> \in Seq({wmu} \X Nat) /\ <<>> \in Seq(Seq(Packets \X Nat))
    OBVIOUS
  <2>3. 0 \in 0..MaxFrames /\ \A p \in Packets : 0 \in 0..Chunks[p]
    OBVIOUS
  <2>. QED
    BY <2>1, <2>2, <2>3 DEF RestTypes
<1>2. WriterInv /\ RestTypes /\ [Next]_vars => RestTypes'
  <2> SUFFICES ASSUME WriterInv, RestTypes, [Next]_vars PROVE RestTypes'
    OBVIOUS
  <2> USE DEF writing, reading, WriterInv, WriterTypes, RestTypes
  <2>1. ASSUME NEW p \in Packets, Lock(p) PROVE RestTypes'
    BY <2>1 DEF Lock
  <2>2. ASSUME NEW p \in Packets, Write(p) PROVE RestTypes'
    <3>1. wmu = p /\ wmu' = p /\ buf' = Append(buf, <<p, nbuf[p] + 1>>)
      BY <2>2 DEF Write, HoldsLock
    <3>2. buf' \in Seq({wmu'} \X Nat)
      <4>1. <<p, nbuf[p] + 1>> \in {p} \X Nat
        OBVIOUS
      <4>. QED
        BY <3>1, <4>1, AppendProperties
    <3>. QED
      BY <2>2, <3>2 DEF Write
  <2>3. ASSUME NEW p \in Packets, WriteMessage(p) PROVE RestTypes'
    <3>1. wmu = p
      BY <2>3 DEF WriteMessage, HoldsLock
    <3>2. buf \in Seq(Packets \X Nat)
      <4>1. {p} \X Nat \subseteq Packets \X Nat
        OBVIOUS
      <4>. QED
        BY <3>1, <4>1, SeqMonotonic
    <3>3. frames' \in Seq(Seq(Packets \X Nat))
      BY <2>3, <3>2, AppendProperties DEF WriteMessage
    <3>4. buf' = <<>>
      BY <2>3 DEF WriteMessage
    <3>. QED
      BY <2>3, <3>3, <3>4 DEF WriteMessage
  <2>8. ASSUME NEW p \in Packets, Unlock(p) PROVE RestTypes'
    BY <2>8 DEF Unlock
  <2>4. ASSUME NEW n \in 0..MaxFrame, Arrive(n) PROVE RestTypes'
    BY <2>4 DEF Arrive
  <2>5. CASE ReaderStep
    BY <2>5 DEF ReaderStep, NextReader, ReadSome, ReadLast, ReadError
  <2>6. CASE Stall \/ Break \/ ReadBreak \/ Close
    BY <2>6 DEF Stall, Break, ReadBreak, Close
  <2>7. CASE UNCHANGED vars
    BY <2>7 DEF vars
  <2>. QED
    BY <2>1, <2>2, <2>3, <2>4, <2>5, <2>6, <2>7, <2>8 DEF Next, WriterStep
<1>3. WriterInv /\ StreamInv /\ RestTypes => TypeOK
  BY DEF WriterInv, WriterTypes, StreamInv, StreamTypes, RestTypes, TypeOK
<1>. QED
  BY <1>1, <1>2, <1>3, WriterInvariant, StreamInvariant, PTL DEF Spec
-----------------------------------------------------------------------------
(* Getting through.                                                         *)

\* What the holder of wmu is at: a buffer to write or Unlock to call, or WriteMessage
\* with the whole packet.
AtWork(p) ==
  \/ pc[p] = "writing" /\ locked /\ nbuf[p] \in 0..Chunks[p]
  \/ pc[p] = "sending" /\ ~locked /\ buf = Content[p]

(* Whoever holds wmu is between Lock and the end of Unlock, and can take    *)
(* its next step whatever the others do: it waits for the network alone,    *)
(* inside WriteMessage, and no longer than the connection stays open        *)
(* (ws.go:61-77).                                                           *)
THEOREM HolderGoesOn == Spec => [](\A p \in Packets : wmu = p => AtWork(p))
<1> DEFINE J == \A p \in Packets : pc[p] = "writing" <=> wmu = p /\ locked
<1>1. Init => J
  BY WsAssumption DEF Init
<1>2. J /\ WriterInv /\ [Next]_vars => J'
  <2> SUFFICES ASSUME J, WriterInv, [Next]_vars PROVE J'
    OBVIOUS
  <2> USE WsAssumption DEF WriterInv, WriterTypes, HoldsLock
  <2>1. ASSUME NEW p \in Packets, WriterStep(p) PROVE J'
    BY <2>1 DEF WriterStep, Lock, Write, Unlock, WriteMessage
  <2>2. ASSUME \/ Stall \/ Break \/ Close \/ ReadBreak \/ ReaderStep
               \/ \E n \in 0..MaxFrame : Arrive(n)
        PROVE  J'
    BY <2>2 DEF Stall, Break, Close, ReadBreak, ReaderStep, Arrive, NextReader, ReadSome,
                ReadLast, ReadError, writing
  <2>3. CASE UNCHANGED vars
    BY <2>3 DEF vars, writing
  <2>. QED
    BY <2>1, <2>2, <2>3 DEF Next
<1>3. WriterInv /\ TypeOK /\ J => \A p \in Packets : wmu = p => AtWork(p)
  <2> SUFFICES ASSUME WriterInv, TypeOK, J, NEW p \in Packets, wmu = p PROVE AtWork(p)
    OBVIOUS
  <2>1. pc[p] \in {"writing", "sending"} /\ nbuf[p] \in 0..Chunks[p] /\ locked \in BOOLEAN
    BY DEF WriterInv, HoldsLock, TypeOK
  <2>2. CASE pc[p] = "writing"
    BY <2>1, <2>2 DEF AtWork
  <2>3. CASE pc[p] = "sending"
    <3>1. nbuf[p] = Chunks[p] /\ ~locked
      BY <2>1, <2>3 DEF WriterInv, Counted
    <3>2. buf = [i \in 1..Chunks[p] |-> <<p, i>>]
      BY <3>1, WsAssumption DEF WriterInv, BufferExact
    <3>. QED
      BY <2>3, <3>1, <3>2 DEF AtWork, Content
  <2>. QED
    BY <2>1, <2>2, <2>3
<1>. HIDE DEF J
<1>. QED
  BY <1>1, <1>2, <1>3, WriterInvariant, TypeCorrect, PTL DEF Spec

\* What is left to be read: the bytes, and each frame to be taken up and ended.
Unread == (Len(arrived) - Len(got)) + 2 * Len(inbox) + (IF r = None THEN 0 ELSE 1)

\* No step of a lost connection but an error leaves as much to be read.
ReadsDown ==
  readErr =>
    /\ readErr'
    /\ \/ UNCHANGED reading
       \/ ~ended /\ (ended' \/ (Unread \in Nat /\ Unread' < Unread))

(* Once the connection can no longer be read, each Read that returns no     *)
(* error leaves less to be read, and none returns anything after the error: *)
(* paho learns of the loss after finitely many calls (ws.go:95-118).        *)
THEOREM LossNears == Spec => [][ReadsDown]_vars
<1>1. ASSUME TypeOK, StreamInv, Next, readErr
      PROVE  /\ readErr'
             /\ \/ UNCHANGED reading
                \/ ~ended /\ (ended' \/ (Unread \in Nat /\ Unread' < Unread))
  <2>1. PICK cut : Cuts(cut)
    BY <1>1 DEF StreamInv
  <2>2. PICK a, g, k : a = Len(arrived) /\ g = Len(got) /\ k = Len(inbox)
    OBVIOUS
  <2>3. /\ a \in Nat /\ g \in Nat /\ k \in Nat /\ Left \in Seq(Nat) /\ Len(Left) \in Nat
        /\ got \in Seq(Nat) /\ arrived \in Seq(Nat) /\ inbox \in Seq(Seq(Nat))
        /\ r \in Seq(Nat) \cup {None}
    BY <1>1, <2>2 DEF StreamInv, StreamTypes, Left
  <2>4. g + Len(Left) <= a
    BY <2>1, <2>2, <2>3 DEF Cuts
  <2>5. Unread \in Nat
    BY <2>2, <2>3, <2>4 DEF Unread
  <2>6. CASE NextReader
    <3>1. r = None /\ r' = Head(inbox) /\ inbox # <<>> /\ inbox' = Tail(inbox)
          /\ UNCHANGED <<arrived, got, readErr>> /\ ~ended
      BY <2>6 DEF NextReader
    <3>2. Head(inbox) \in Seq(Nat) /\ Len(inbox') = k - 1 /\ r' # None
      BY <2>2, <2>3, <3>1, WsAssumption
    <3>. QED
      BY <1>1, <2>2, <2>3, <2>5, <3>1, <3>2 DEF Unread
  <2>7. ASSUME NEW n \in 1..MaxFrame, ReadSome(n)
        PROVE  readErr' /\ ~ended /\ Unread' < Unread
    <3>1. r \in Seq(Nat) /\ r # None /\ n \in 1..Len(r) /\ got' = got \o SubSeq(r, 1, n)
          /\ r' = SubSeq(r, n + 1, Len(r)) /\ UNCHANGED <<arrived, inbox, readErr>> /\ ~ended
      BY <2>3, <2>7 DEF ReadSome
    <3>2. SubSeq(r, 1, n) \in Seq(Nat) /\ Len(SubSeq(r, 1, n)) = n
      BY <3>1
    <3>3. Len(got') = g + n
      BY <2>2, <2>3, <3>1, <3>2
    <3>4. r' \in Seq(Nat)
      BY <3>1, SubSeqProperties
    <3>5. r' # None
      BY <3>4, WsAssumption
    <3>6. Unread = (a - g) + 2 * k + 1 /\ Unread' = (a - (g + n)) + 2 * k + 1
      BY <2>2, <3>1, <3>3, <3>5 DEF Unread
    <3>7. Unread' < Unread
      BY <2>3, <3>6
    <3>. QED
      BY <1>1, <3>1, <3>7
  <2>8. CASE ReadLast
    <3>1. r \in Seq(Nat) /\ r # None /\ got' = got \o r /\ r' = None
          /\ UNCHANGED <<arrived, inbox, readErr>> /\ ~ended
      BY <2>3, <2>8 DEF ReadLast
    <3>2. Len(got') = g + Len(r) /\ Len(r) \in Nat
      BY <2>2, <2>3, <3>1
    <3>. QED
      BY <1>1, <2>2, <2>3, <2>5, <3>1, <3>2 DEF Unread
  <2>9. CASE ReadError
    BY <1>1, <2>9 DEF ReadError
  <2>10. CASE Stall \/ Break \/ Close \/ ReadBreak \/ \E p \in Packets : WriterStep(p)
    BY <1>1, <2>10 DEF Stall, Break, Close, ReadBreak, WriterStep, Lock, Write, Unlock,
                       WriteMessage, reading, TypeOK
  <2>11. CASE \E n \in 0..MaxFrame : Arrive(n)
    BY <1>1, <2>11 DEF Arrive
  <2>. QED
    BY <1>1, <2>5, <2>6, <2>7, <2>8, <2>9, <2>10, <2>11 DEF Next, ReaderStep
<1>2. TypeOK /\ StreamInv /\ [Next]_vars => [ReadsDown]_vars
  BY <1>1 DEF ReadsDown
<1>. QED
  BY <1>2, StreamInvariant, TypeCorrect, PTL DEF Spec
=============================================================================

-------------------------------- MODULE WsConn --------------------------------
(***************************************************************************)
(* client.wsConn: goroutines write MQTT packets, each in several buffers   *)
(* between Lock and Unlock, and one goroutine reads.  A frame is one       *)
(* WebSocket message.                                                      *)
(*                                                                         *)
(* A Write with no Lock around it, which packets.WriteTo never does, is    *)
(* left out, and with it the branch of Write that sends at once.           *)
(***************************************************************************)
EXTENDS Integers, Sequences

CONSTANTS
  Packets,     \* the packets, each written by a goroutine of its own
  Chunks,      \* how many buffers packets.WriteTo splits each into
  MaxFrames,   \* bound: frames received
  MaxFrame,    \* bound: bytes of a received frame
  None         \* no goroutine, a nil reader

ASSUME WsAssumption ==
  /\ Chunks \in [Packets -> Nat \ {0}]
  /\ MaxFrames \in Nat
  /\ MaxFrame \in Nat
  /\ None \notin Packets
  /\ None \notin Seq(Nat)

VARIABLES
  wmu,       \* the packet whose writer holds wmu, or None
  locked,    \* wsConn.locked
  buf,       \* wsConn.buf
  pc,        \* progress of each packet: "idle", "writing", "sending" or "done"
  nbuf,      \* how many of its buffers are written
  frames,    \* the frames sent
  broken,    \* whether WriteMessage fails, from some point on
  stalled,   \* whether the network takes no more bytes for now
  inbox,     \* the frames received that NextReader has yet to return
  readErr,   \* whether the connection can no longer be read
  ended,     \* whether Read has returned an error, after which paho reads no more
  r,         \* wsConn.r: what the current reader has left, or None
  received,  \* history: how many frames were received
  arrived,   \* history: their bytes
  got        \* history: the bytes Read has returned

writing == <<wmu, locked, buf, pc, nbuf, frames, broken, stalled>>
reading == <<inbox, readErr, ended, r, received, arrived, got>>
vars == <<writing, reading>>

\* The buffers of each packet, in order.
Content == [p \in Packets |-> [i \in 1..Chunks[p] |-> <<p, i>>]]

TypeOK ==
  /\ wmu \in Packets \cup {None}
  /\ locked \in BOOLEAN
  /\ buf \in Seq({wmu} \X Nat)
  /\ pc \in [Packets -> {"idle", "writing", "sending", "done"}]
  /\ \A p \in Packets : nbuf[p] \in 0..Chunks[p]
  /\ frames \in Seq(Seq(Packets \X Nat))
  /\ broken \in BOOLEAN /\ stalled \in BOOLEAN
  /\ inbox \in Seq(Seq(Nat))
  /\ readErr \in BOOLEAN /\ ended \in BOOLEAN
  /\ r \in Seq(Nat) \cup {None}
  /\ received \in 0..MaxFrames
  /\ arrived \in Seq(Nat) /\ got \in Seq(Nat)

Init ==
  /\ wmu = None /\ locked = FALSE /\ buf = <<>>
  /\ pc = [p \in Packets |-> "idle"]
  /\ nbuf = [p \in Packets |-> 0]
  /\ frames = <<>> /\ broken = FALSE /\ stalled = FALSE
  /\ inbox = <<>> /\ r = None
  /\ readErr = FALSE /\ ended = FALSE
  /\ received = 0 /\ arrived = <<>> /\ got = <<>>

-----------------------------------------------------------------------------
(* Writing                                                                 *)

\* Mutant: Lock does not take wmu.
LockUnguarded(p) ==
  /\ pc[p] = "idle"
  /\ wmu' = p /\ locked' = TRUE /\ buf' = <<>>
  /\ pc' = [pc EXCEPT ![p] = "writing"]
  /\ UNCHANGED <<nbuf, frames, broken, stalled, reading>>

Lock(p) ==
  /\ pc[p] = "idle"
  /\ wmu = None
  /\ wmu' = p /\ locked' = TRUE /\ buf' = <<>>
  /\ pc' = [pc EXCEPT ![p] = "writing"]
  /\ UNCHANGED <<nbuf, frames, broken, stalled, reading>>

\* Write of the next buffer: accumulated, and never refused.
Write(p) ==
  /\ pc[p] = "writing"
  /\ nbuf[p] < Chunks[p]
  /\ locked
  /\ buf' = Append(buf, <<p, nbuf[p] + 1>>)
  /\ nbuf' = [nbuf EXCEPT ![p] = @ + 1]
  /\ UNCHANGED <<wmu, locked, pc, frames, broken, stalled, reading>>

\* Unlock calls WriteMessage, with wmu held and no deadline set.
Unlock(p) ==
  /\ pc[p] = "writing"
  /\ nbuf[p] = Chunks[p]
  /\ locked' = FALSE
  /\ pc' = [pc EXCEPT ![p] = "sending"]
  /\ UNCHANGED <<wmu, buf, nbuf, frames, broken, stalled, reading>>

\* Mutant: Unlock returns without releasing wmu.
WriteMessageHeld(p) ==
  /\ pc[p] = "sending"
  /\ broken \/ ~stalled
  /\ frames' = IF broken \/ buf = <<>> THEN frames ELSE Append(frames, buf)
  /\ buf' = <<>>
  /\ pc' = [pc EXCEPT ![p] = "done"]
  /\ UNCHANGED <<wmu, locked, nbuf, broken, stalled, reading>>

\* WriteMessage returns, and Unlock with it: the packet has gone out as one frame,
\* or the error is dropped.  It waits for a network that takes no bytes, unless the
\* connection breaks or is closed.
WriteMessage(p) ==
  /\ pc[p] = "sending"
  /\ broken \/ ~stalled
  /\ frames' = IF broken \/ buf = <<>> THEN frames ELSE Append(frames, buf)
  /\ buf' = <<>>
  /\ wmu' = None
  /\ pc' = [pc EXCEPT ![p] = "done"]
  /\ UNCHANGED <<locked, nbuf, broken, stalled, reading>>

\* The peer stops reading and the buffers between are full, or it goes on.
Stall ==
  /\ stalled' = ~stalled
  /\ UNCHANGED <<wmu, locked, buf, pc, nbuf, frames, broken, reading>>

\* The WebSocket connection breaks: every later WriteMessage fails.
Break ==
  /\ ~broken
  /\ broken' = TRUE
  /\ UNCHANGED <<wmu, locked, buf, pc, nbuf, frames, stalled, reading>>

-----------------------------------------------------------------------------
(* Reading                                                                 *)

\* A frame of n bytes arrives; a byte is known by its place in the stream.
Arrive(n) ==
  /\ received < MaxFrames
  /\ ~readErr
  /\ received' = received + 1
  /\ LET f == [i \in 1..n |-> Len(arrived) + i]
     IN  inbox' = Append(inbox, f) /\ arrived' = arrived \o f
  /\ UNCHANGED <<writing, readErr, ended, r, got>>

\* The connection is lost, or a read deadline has passed.
ReadBreak ==
  /\ ~readErr
  /\ readErr' = TRUE
  /\ UNCHANGED <<writing, inbox, ended, r, received, arrived, got>>

\* Close, which paho calls whatever the readers and writers are doing.
Close ==
  /\ ~(broken /\ readErr)
  /\ broken' = TRUE /\ readErr' = TRUE
  /\ UNCHANGED <<wmu, locked, buf, pc, nbuf, frames, stalled, inbox, ended, r, received, arrived, got>>

\* Read finds no reader and takes the next frame.
NextReader ==
  /\ r = None
  /\ ~ended
  /\ inbox # <<>>
  /\ r' = Head(inbox) /\ inbox' = Tail(inbox)
  /\ UNCHANGED <<writing, readErr, ended, received, arrived, got>>

\* The reader yields n bytes and no error; Read returns them.
ReadSome(n) ==
  /\ r # None
  /\ ~ended
  /\ n \in 1..Len(r)
  /\ got' = got \o SubSeq(r, 1, n)
  /\ r' = SubSeq(r, n + 1, Len(r))
  /\ UNCHANGED <<writing, inbox, readErr, ended, received, arrived>>

\* Mutant: io.EOF moves on to the next frame whatever came with it.
ReadLastDropped ==
  /\ r # None
  /\ r' = None
  /\ UNCHANGED <<writing, inbox, readErr, ended, received, arrived, got>>

\* The reader ends with io.EOF, and with the bytes it had left, perhaps none:
\* they are returned, or Read goes on to the next frame.
ReadLast ==
  /\ r # None
  /\ ~ended
  /\ got' = got \o r
  /\ r' = None
  /\ UNCHANGED <<writing, inbox, readErr, ended, received, arrived>>

\* Mutant: every error is taken for the end of a frame, NextReader's own as well:
\* Read goes on to look for the next one.
ReadErrorSkipped ==
  /\ readErr
  /\ r # None
  /\ r' = None
  /\ UNCHANGED <<writing, inbox, readErr, ended, received, arrived, got>>

\* NextReader, or the reader in the middle of a frame, fails: Read returns the
\* error, and the bytes that came with it.
ReadError ==
  /\ readErr
  /\ ~ended
  /\ ended' = TRUE
  /\ \/ r = None /\ UNCHANGED <<r, got>>
     \/ /\ r # None
        /\ \E n \in 0..Len(r) :
             got' = got \o SubSeq(r, 1, n) /\ r' = SubSeq(r, n + 1, Len(r))
  /\ UNCHANGED <<writing, inbox, readErr, received, arrived>>

-----------------------------------------------------------------------------

WriterStep(p) == Lock(p) \/ Write(p) \/ Unlock(p) \/ WriteMessage(p)

ReaderStep ==
  NextReader \/ (\E n \in 1..MaxFrame : ReadSome(n)) \/ ReadLast \/ ReadError

Next ==
  \/ \E p \in Packets : WriterStep(p)
  \/ ReaderStep
  \/ \E n \in 0..MaxFrame : Arrive(n)
  \/ Stall \/ Break \/ ReadBreak \/ Close

Spec == Init /\ [][Next]_vars

\* The goroutines that write go on; Go's mutex lets each of them in.  paho's
\* reader calls Read again until it has had an error.  The peer is not fair: it may
\* stall the connection for good, and nobody need close it.
FairSpec == Spec /\ WF_vars(ReaderStep) /\ \A p \in Packets : WF_vars(WriterStep(p))

-----------------------------------------------------------------------------

\* Each MQTT packet is sent as a single WebSocket message, whole and at most
\* once, however the writers interleave (ws.go:3-18).
Channel == INSTANCE PacketChannel
             WITH sent <- frames, written <- {p \in Packets : pc[p] = "done"}

ChannelSpec == Channel!Spec

\* What Read has returned is a prefix of the bytes received, in order: none is
\* lost where one frame ends and the next begins (ws.go:95-118).
StreamIntact ==
  LET left == IF r = None THEN <<>> ELSE r
  IN  /\ got \o left = SubSeq(arrived, 1, Len(got) + Len(left))
      /\ inbox = <<>> => got \o left = arrived

\* Every goroutine that writes a packet gets through in the end if the connection
\* breaks or is closed, whoever is inside WriteMessage then, or if from some point on
\* the network takes what is written (ws.go:61-77).  While it takes nothing the holder
\* of wmu waits, and all the others with it: no write deadline is set (ws.go:123-125).
EveryWriteReturns ==
  (<>broken \/ <>[]~stalled) => \A p \in Packets : <>(pc[p] = "done")

\* A connection that is closed, or can no longer be read, makes Read return the
\* error, in the middle of a frame as well: paho learns of the loss by nothing
\* else (ws.go:95-118).
LossReachesReader == readErr ~> ended
=============================================================================

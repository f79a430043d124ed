--------------------------- MODULE ReliableControl ---------------------------
(***************************************************************************)
(* One direction of the reliable control stream of a Noise session: the    *)
(* stop-and-wait protocol of Conn.Write, writeChunk, receive and Read      *)
(* (internal/noiseudp/conn.go), below concurrent writers and above a       *)
(* network that loses, delays, reorders and repeats datagrams.             *)
(*                                                                         *)
(* Messages are sequences of chunks; a chunk's contents is one member of   *)
(* Data.  A datagram is opened at most once (NoiseKeys), but a chunk or an *)
(* ACK may have several datagrams in flight, told apart by copy.           *)
(***************************************************************************)
EXTENDS Naturals, Sequences, FiniteSets

CONSTANTS Data,      \* chunk contents
          Messages,  \* what a Write may be asked to send: sequences over Data
          Writers,   \* goroutines calling Write
          Copies,    \* datagrams of one chunk or ACK in flight at a time
          RecvCap,   \* capacity of c.recv, 32
          AckCap,    \* capacity of c.acks, 8
          MaxSeq,    \* the last sequence number, 2^32 - 1
          MaxWrites  \* bound: calls of Write

ASSUME ControlAssumption ==
    /\ Messages \subseteq Seq(Data) \ {<<>>}
    /\ RecvCap \in Nat \ {0}
    /\ AckCap \in Nat \ {0}
    /\ MaxSeq \in Nat \ {0}
    /\ MaxWrites \in Nat

VARIABLES pc,        \* pc[w]: where w is in Write
          rest,      \* rest[w]: the part of w's message not yet acknowledged
          gate,      \* the holder of c.writeGate, {} or {w}
          writeSeq,  \* c.writeSeq
          acks,      \* c.acks
          wire,      \* control datagrams in flight
          ackWire,   \* ACK datagrams in flight
          expected,  \* c.expected at the receiver
          recv,      \* c.recv at the receiver
          sFailed,   \* the sending end's c.err # nil
          rFailed,   \* the receiving end's c.err # nil
          stream,    \* history: chunks sent at least once, by sequence number
          delivered, \* history: chunks the receiver's application has read
          acked,     \* history: chunks whose writeChunk returned nil
          torn,      \* history: a Write gave up with its message unfinished
          begun      \* history: calls of Write, for the bound

sender == <<pc, rest, gate, writeSeq, acks, sFailed, acked, torn, begun>>
receiver == <<expected, recv, rFailed, delivered>>
vars == <<sender, receiver, wire, ackWire, stream>>

Chunks == [seq : 1 .. MaxSeq, data : Data, copy : Copies]

Acks == [seq : 1 .. MaxSeq, copy : Copies]

Init ==
    /\ pc = [w \in Writers |-> "idle"]
    /\ rest = [w \in Writers |-> <<>>]
    /\ gate = {}
    /\ writeSeq = 0 /\ acks = <<>> /\ wire = {} /\ ackWire = {}
    /\ expected = 1 /\ recv = <<>>
    /\ sFailed = FALSE /\ rFailed = FALSE
    /\ stream = <<>> /\ delivered = <<>> /\ acked = 0 /\ torn = FALSE /\ begun = 0

-----------------------------------------------------------------------------
(* Write.                                                                  *)

\* One more datagram; a copy already in flight means the new one is lost.
SendChunk(n, d) == \E k \in Copies :
    wire' = wire \cup {[seq |-> n, data |-> d, copy |-> k]}

SendAck(n) == \E k \in Copies :
    ackWire' = ackWire \cup {[seq |-> n, copy |-> k]}

\* A caller enters Write and waits at the gate.
Begin(w, msg) ==
    /\ pc[w] = "idle"
    /\ ~sFailed
    /\ begun < MaxWrites
    /\ begun' = begun + 1
    /\ pc' = [pc EXCEPT ![w] = "gate"]
    /\ rest' = [rest EXCEPT ![w] = msg]
    /\ UNCHANGED <<gate, writeSeq, acks, sFailed, acked, torn, receiver, wire,
                   ackWire, stream>>

\* Go's select may take a free gate even when the session has failed.
Acquire(w) ==
    /\ pc[w] = "gate"
    /\ gate = {}
    /\ gate' = {w}
    /\ pc' = [pc EXCEPT ![w] = "chunk"]
    /\ UNCHANGED <<rest, writeSeq, acks, sFailed, acked, torn, begun, receiver, wire,
                   ackWire, stream>>

\* The write deadline passes, or the session fails, while waiting at the
\* gate: nothing was committed, so the session is left as it is.
LeaveGate(w) ==
    /\ pc[w] = "gate"
    /\ pc' = [pc EXCEPT ![w] = "idle"]
    /\ rest' = [rest EXCEPT ![w] = <<>>]
    /\ UNCHANGED <<gate, writeSeq, acks, sFailed, acked, torn, begun, receiver, wire,
                   ackWire, stream>>

\* The next chunk gets its sequence number and is sent a first time.
StartChunk(w) ==
    /\ pc[w] = "chunk"
    /\ ~sFailed
    /\ writeSeq # MaxSeq
    /\ writeSeq' = writeSeq + 1
    /\ stream' = Append(stream, Head(rest[w]))
    /\ SendChunk(writeSeq + 1, Head(rest[w]))
    /\ pc' = [pc EXCEPT ![w] = "await"]
    /\ UNCHANGED <<rest, gate, acks, sFailed, acked, torn, begun, receiver, ackWire>>

\* Write returns an error from its chunk loop: the session fails with it,
\* and only then is the gate released.
GiveUp(w) ==
    /\ sFailed' = TRUE
    /\ torn' = TRUE
    /\ gate' = gate \ {w}
    /\ pc' = [pc EXCEPT ![w] = "idle"]
    /\ rest' = [rest EXCEPT ![w] = <<>>]

\* Sequence numbers are exhausted, the deadline has passed, or the session
\* has failed, before the chunk was sent at all.
StartChunkFails(w) ==
    /\ pc[w] = "chunk"
    /\ writeSeq' = IF writeSeq = MaxSeq THEN writeSeq ELSE writeSeq + 1
    /\ GiveUp(w)
    /\ UNCHANGED <<acks, acked, begun, receiver, wire, ackWire, stream>>

\* The retry timer fires in writeChunk.
Retransmit(w) ==
    /\ pc[w] = "await"
    /\ ~sFailed
    /\ SendChunk(writeSeq, Head(rest[w]))
    /\ UNCHANGED <<sender, receiver, ackWire, stream>>

\* Slip: any ACK ends the chunk, without comparing id and seq.
TakeAnyAck(w) ==
    LET left == Tail(rest[w])
    IN  /\ pc[w] = "await"
        /\ acks # <<>>
        /\ acks' = Tail(acks)
        /\ acked' = acked + 1
        /\ rest' = [rest EXCEPT ![w] = left]
        /\ pc' = [pc EXCEPT ![w] = IF left = <<>> THEN "idle" ELSE "chunk"]
        /\ gate' = IF left = <<>> THEN gate \ {w} ELSE gate
        /\ UNCHANGED <<writeSeq, sFailed, torn, begun, receiver, wire, ackWire,
                       stream>>

\* writeChunk takes an ACK: another chunk's is dropped, the awaited one ends
\* this chunk, and with the last chunk the Write.
TakeAck(w) ==
    LET left == Tail(rest[w])
    IN  /\ pc[w] = "await"
        /\ acks # <<>>
        /\ acks' = Tail(acks)
        /\ IF Head(acks) = writeSeq
           THEN /\ acked' = acked + 1
                /\ rest' = [rest EXCEPT ![w] = left]
                /\ pc' = [pc EXCEPT ![w] = IF left = <<>> THEN "idle" ELSE "chunk"]
                /\ gate' = IF left = <<>> THEN gate \ {w} ELSE gate
           ELSE UNCHANGED <<acked, rest, pc, gate>>
        /\ UNCHANGED <<writeSeq, sFailed, torn, begun, receiver, wire, ackWire, stream>>

\* Slip: a chunk that timed out ends the Write but not the session.
AbandonChunkKeepsSession(w) ==
    /\ pc[w] = "await"
    /\ torn' = TRUE
    /\ gate' = gate \ {w}
    /\ pc' = [pc EXCEPT ![w] = "idle"]
    /\ rest' = [rest EXCEPT ![w] = <<>>]
    /\ UNCHANGED <<writeSeq, acks, sFailed, acked, begun, receiver, wire,
                   ackWire, stream>>

\* Eight seconds without the ACK, the write deadline, or a failed session.
AbandonChunk(w) ==
    /\ pc[w] = "await"
    /\ GiveUp(w)
    /\ UNCHANGED <<writeSeq, acks, acked, begun, receiver, wire, ackWire, stream>>

-----------------------------------------------------------------------------
(* receive at both ends, Read, and the network.                            *)

\* c.expected is a uint32.
NextExpected == (expected + 1) % (MaxSeq + 1)

\* The datagram c reaches an open session and is gone from the network.
Arrives(c) ==
    /\ ~rFailed
    /\ c \in wire
    /\ wire' = wire \ {c}
    /\ UNCHANGED <<sender, rFailed, delivered, stream>>

\* Slip: the receive queue is taken to have room.
RetainChunkUnbounded(c) ==
    /\ Arrives(c)
    /\ c.seq = expected
    /\ recv' = Append(recv, c.data)
    /\ expected' = NextExpected
    /\ SendAck(c.seq)

\* The expected chunk is retained, then acknowledged.
RetainChunk(c) ==
    /\ Arrives(c)
    /\ c.seq = expected
    /\ Len(recv) < RecvCap
    /\ recv' = Append(recv, c.data)
    /\ expected' = NextExpected
    /\ SendAck(c.seq)

\* Slip: an older chunk is dropped as a duplicate, its ACK not repeated.
ReAckChunkSilent(c) ==
    /\ Arrives(c)
    /\ c.seq < expected
    /\ UNCHANGED <<recv, expected, ackWire>>

\* An older chunk is acknowledged again.
ReAckChunk(c) ==
    /\ Arrives(c)
    /\ c.seq < expected
    /\ SendAck(c.seq)
    /\ UNCHANGED <<recv, expected>>

\* A later chunk, or the expected one on a full queue, is ignored.
IgnoreChunk(c) ==
    /\ Arrives(c)
    /\ \/ c.seq > expected
       \/ c.seq = expected /\ Len(recv) >= RecvCap
    /\ UNCHANGED <<recv, expected, ackWire>>

\* The sending end's read loop queues an ACK, or drops it on a full queue.
ReceiveAck(a) ==
    /\ ~sFailed
    /\ a \in ackWire
    /\ ackWire' = ackWire \ {a}
    /\ acks' = IF Len(acks) < AckCap THEN Append(acks, a.seq) ELSE acks
    /\ UNCHANGED <<pc, rest, gate, writeSeq, sFailed, acked, torn, begun, receiver,
                   wire, stream>>

\* The receiver's application takes a whole chunk; a failed session still
\* hands out what it had retained.
Read ==
    /\ recv # <<>>
    /\ delivered' = Append(delivered, Head(recv))
    /\ recv' = Tail(recv)
    /\ UNCHANGED <<sender, expected, rFailed, wire, ackWire, stream>>

Lose ==
    /\ \/ \E c \in wire : wire' = wire \ {c} /\ UNCHANGED ackWire
       \/ \E a \in ackWire : ackWire' = ackWire \ {a} /\ UNCHANGED wire
    /\ UNCHANGED <<sender, receiver, stream>>

\* Either end fails for a reason of its own: idle timeout, close, socket.
FailSender ==
    /\ ~sFailed
    /\ sFailed' = TRUE
    /\ UNCHANGED <<pc, rest, gate, writeSeq, acks, acked, torn, begun, receiver, wire,
                   ackWire, stream>>

FailReceiver ==
    /\ ~rFailed
    /\ rFailed' = TRUE
    /\ UNCHANGED <<sender, expected, recv, delivered, wire, ackWire, stream>>

WriterStep(w) ==
    \/ \E msg \in Messages : Begin(w, msg)
    \/ Acquire(w) \/ LeaveGate(w)
    \/ StartChunk(w) \/ StartChunkFails(w)
    \/ Retransmit(w) \/ TakeAck(w) \/ AbandonChunk(w)

Next ==
    \/ \E w \in Writers : WriterStep(w)
    \/ \E c \in wire : RetainChunk(c) \/ ReAckChunk(c) \/ IgnoreChunk(c)
    \/ \E a \in ackWire : ReceiveAck(a)
    \/ Read \/ Lose \/ FailSender \/ FailReceiver

Spec == Init /\ [][Next]_vars

\* Writers run, the application reads, and what is sent again and again is
\* not lost every time.  The eight-second limit is NOT assumed to fire: a
\* Write must come to an end by the protocol itself or by a failed session.
Fairness ==
    /\ WF_vars(\E w \in Writers : StartChunk(w) \/ TakeAck(w))
    /\ WF_vars(\E w \in Writers : StartChunkFails(w) /\ (sFailed \/ writeSeq = MaxSeq))
    /\ WF_vars(\E w \in Writers : AbandonChunk(w) /\ (sFailed \/ rFailed))
    /\ WF_vars(\E w \in Writers : Retransmit(w))
    /\ \A w \in Writers : SF_vars(Acquire(w))
    /\ SF_vars(\E c \in wire :
          c.seq = writeSeq /\ (RetainChunk(c) \/ ReAckChunk(c)))
    /\ SF_vars(\E a \in ackWire : a.seq = writeSeq /\ ReceiveAck(a))
    /\ WF_vars(Read)

FairSpec == Spec /\ Fairness

-----------------------------------------------------------------------------
(* Properties.                                                             *)

\* Every variable has its type: sequence numbers never pass the point where
\* Write gives up, and the ACK and receive queues never exceed their capacity.
TypeOK ==
    /\ pc \in [Writers -> {"idle", "gate", "chunk", "await"}]
    /\ rest \in [Writers -> Seq(Data)]
    /\ gate \in SUBSET Writers
    /\ writeSeq \in 0 .. MaxSeq
    /\ acks \in Seq(1 .. MaxSeq) /\ Len(acks) <= AckCap
    /\ wire \in SUBSET Chunks
    /\ ackWire \in SUBSET Acks
    /\ expected \in 0 .. MaxSeq
    /\ recv \in Seq(Data) /\ Len(recv) <= RecvCap
    /\ stream \in Seq(Data) /\ delivered \in Seq(Data)
    /\ acked \in Nat /\ begun \in Nat
    /\ sFailed \in BOOLEAN /\ rFailed \in BOOLEAN /\ torn \in BOOLEAN

Retained == Len(delivered) + Len(recv)

CS == INSTANCE ControlStream WITH retained <- Retained

\* Whatever the network does, and however writers interleave, the session
\* is an exactly-once FIFO of chunks, and a chunk reported as written has
\* been retained by the other end (Write, writeChunk, receive, Read).
ImplementsControlStream == CS!CSpec

\* After a Write gave up inside a message, no chunk of any other Write
\* follows the torn message: Write fails the session before it releases
\* the gate (conn.go, Write).
NothingAfterTorn == [][torn => stream' = stream]_vars

\* Every Write returns, although ACKs are lost, the receive queue fills up
\* and stale ACKs fill the ACK queue: the protocol recovers without waiting
\* for its eight-second limit, until the session has used its last sequence
\* number, where expected wraps and only the limit ends a Write.
WritesReturn ==
    \A w \in Writers : pc[w] # "idle" ~> (pc[w] = "idle" \/ writeSeq = MaxSeq)
=============================================================================

-------------------------------- MODULE MaRing --------------------------------
(***************************************************************************)
(* miniaudio's single-producer single-consumer ring (ma_rb, ma_pcm_rb) as  *)
(* native/client-audio/device.c uses it: a thread acquires a contiguous    *)
(* piece, copies, commits, and repeats until it has moved what it wants or *)
(* the ring has no more (rb_read, rb_write).  The other end may move       *)
(* between any two of these steps.  Offsets count frames: every offset is  *)
(* a multiple of the frame size in bytes.                                  *)
(***************************************************************************)
EXTENDS Naturals, Sequences

CONSTANTS Frame,     \* RA_FRAME
          Capacity   \* RA_CAPACITY

ASSUME RingSizes == Frame \in Nat \ {0} /\ Capacity \in Nat \ {0}

Outputs == {"playback", "monitor"}

Rings == Outputs \cup {"reference", "capture"}

Threads == {"worker", "output", "input"}

\* subbufferSizeInBytes, in elements: whole captured frames, or PCM frames.
Size(r) == IF r = "capture" THEN Capacity ELSE Frame * Capacity

VARIABLES rb,   \* the rings: encoded read and write offset, memory,
                \*   and the piece read last (history)
          xfer  \* per thread: what rb_read or rb_write is doing

Least(a, b) == IF a < b THEN a ELSE b

\* An encoded offset of zero.
Start == [off |-> 0, loop |-> FALSE]

RingInit ==
    rb = [r \in Rings |-> [read |-> Start, write |-> Start, last |-> <<>>,
                           mem |-> [i \in 0 .. Size(r) - 1 |-> 0]]]

NoXfer == [kind |-> "none", ring |-> "playback", want |-> 0, done |-> 0, n |-> 0, data |-> <<>>]

Reading(r, count) == [NoXfer EXCEPT !.kind = "read", !.ring = r, !.want = count]

Writing(r, items) == [NoXfer EXCEPT !.kind = "write", !.ring = r, !.want = Len(items), !.data = items]

-----------------------------------------------------------------------------
\* ma_rb_acquire_read: up to the write offset, or to the end of the buffer.
Readable(r) ==
    LET q == rb[r] IN
    IF q.read.loop = q.write.loop THEN q.write.off - q.read.off ELSE Size(r) - q.read.off

\* Slip: a ring whose offsets meet is taken for an empty one.
WritableNoLoop(r) ==
    LET q == rb[r] IN
    IF q.write.off >= q.read.off THEN Size(r) - q.write.off ELSE q.read.off - q.write.off

\* ma_rb_acquire_write: up to the end of the buffer, or to the read offset.
Writable(r) ==
    LET q == rb[r] IN
    IF q.read.loop = q.write.loop THEN Size(r) - q.write.off ELSE q.read.off - q.write.off

\* ma_rb_pointer_distance and ma_rb_available_read.
Distance(r) ==
    LET q == rb[r] IN
    IF q.read.loop = q.write.loop THEN q.write.off - q.read.off
    ELSE q.write.off + (Size(r) - q.read.off)

\* ma_rb_commit_read and ma_rb_commit_write: back to the start at the end of
\* the buffer, with the loop flag flipped.
Advance(cursor, n, size) ==
    IF cursor.off + n = size THEN [off |-> 0, loop |-> ~cursor.loop]
    ELSE [cursor EXCEPT !.off = cursor.off + n]

Available(x) == IF x.kind = "read" THEN Readable(x.ring) ELSE Writable(x.ring)

\* The loop of rb_read and rb_write is over.
Finished(t) ==
    LET x == xfer[t] IN x.kind # "none" /\ x.n = 0 /\ (x.done = x.want \/ Available(x) = 0)

Acquire(t) ==
    LET x == xfer[t] IN
    /\ x.kind # "none" /\ x.n = 0 /\ x.done < x.want
    /\ Available(x) > 0
    /\ xfer' = [xfer EXCEPT ![t].n = Least(x.want - x.done, Available(x))]
    /\ rb' = rb

\* The slots a thread holds between acquire and commit.
Held(t) ==
    LET x == xfer[t]
        q == rb[x.ring]
        off == IF x.kind = "read" THEN q.read.off ELSE q.write.off
    IN  {off + i : i \in 0 .. x.n - 1}

CommitRead(t) ==
    LET x == xfer[t]
        q == rb[x.ring]
        piece == [i \in 1 .. x.n |-> q.mem[q.read.off + i - 1]]
    IN
    /\ x.kind = "read" /\ x.n > 0
    /\ rb' = [rb EXCEPT ![x.ring].read = Advance(q.read, x.n, Size(x.ring)), ![x.ring].last = piece]
    /\ xfer' = [xfer EXCEPT ![t].n = 0, ![t].done = x.done + x.n, ![t].data = x.data \o piece]

CommitWrite(t) ==
    LET x == xfer[t]
        q == rb[x.ring]
    IN
    /\ x.kind = "write" /\ x.n > 0
    /\ rb' = [rb EXCEPT ![x.ring].write = Advance(q.write, x.n, Size(x.ring)),
                        ![x.ring].mem = [i \in DOMAIN q.mem |->
                            IF i \in Held(t) THEN x.data[x.done + 1 + i - q.write.off] ELSE q.mem[i]]]
    /\ xfer' = [xfer EXCEPT ![t].n = 0, ![t].done = x.done + x.n]

-----------------------------------------------------------------------------
Queue == INSTANCE PcmQueue WITH
    queue <- [r \in Rings |-> [i \in 1 .. Distance(r) |->
                  rb[r].mem[(rb[r].read.off + i - 1) % Size(r)]]],
    last <- [r \in Rings |-> rb[r].last]

\* Every ring is a FIFO queue of its capacity, whatever the other end does
\* between an acquire and its commit (ma_rb_* and rb_read, rb_write).
ImplementsPcmQueue == Queue!QSpec

\* The worker and a callback never copy into and out of the same memory: the
\* pieces two threads hold in one ring are disjoint.
NoTornCopy ==
    \A t, u \in Threads :
        t # u /\ xfer[t].n > 0 /\ xfer[u].n > 0 /\ xfer[t].ring = xfer[u].ring
            => Held(t) \cap Held(u) = {}
=============================================================================

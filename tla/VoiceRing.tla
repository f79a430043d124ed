------------------------------ MODULE VoiceRing ------------------------------
(***************************************************************************)
(* internal/nativewire/voice_ring.go: the bounded ring between the voice   *)
(* routers of all other members (any number of producers) and the one send *)
(* worker of a member.  Push and Close run under q.mu; pop looks under     *)
(* q.mu and then, with the lock released, waits on the wake channel.       *)
(***************************************************************************)
EXTENDS Naturals, Sequences, VoiceWorker

CONSTANTS Packets,   \* the packets producers push
          Capacity,  \* len(q.items)
          Empty,     \* QueuedVoice{}
          MaxPush    \* bound: pushes

ASSUME RingAssumption ==
    /\ Capacity \in Nat \ {0}
    /\ Empty \notin Packets
    /\ MaxPush \in Nat

VARIABLES items, head, size, closed,
          wake,      \* len(q.wake), 0 or 1
          taken,     \* history: packets pop has returned
          pushed     \* history: number of pushes, for the bound

ring == <<items, head, size, closed>>
ringVars == <<ring, wake, taken, pushed>>

Slots == 0 .. Capacity - 1

Slot(i) == (head + i) % Capacity

RingInit ==
    /\ items = [i \in Slots |-> Empty]
    /\ head = 0 /\ size = 0 /\ closed = FALSE
    /\ wake = 0
    /\ taken = <<>> /\ pushed = 0

-----------------------------------------------------------------------------
\* Slip: the emptiness test comes after the packet was counted.
PushNotifiesLate(x) ==
    /\ pushed < MaxPush
    /\ pushed' = pushed + 1
    /\ ~closed
    /\ LET full == size = Capacity
           h == IF full THEN (head + 1) % Capacity ELSE head
           n == IF full THEN size - 1 ELSE size
           kept == IF full THEN [items EXCEPT ![head] = Empty] ELSE items
       IN  /\ items' = [kept EXCEPT ![(h + n) % Capacity] = x]
           /\ head' = h
           /\ size' = n + 1
           /\ wake' = IF n + 1 = 0 THEN 1 ELSE wake
    /\ UNCHANGED <<closed, worker, taken>>

\* Slip: a full ring overwrites its newest voice and keeps its head.
PushDropsNewest(x) ==
    /\ pushed < MaxPush
    /\ pushed' = pushed + 1
    /\ ~closed
    /\ LET n == IF size = Capacity THEN size - 1 ELSE size
       IN  /\ items' = [items EXCEPT ![(head + n) % Capacity] = x]
           /\ size' = n + 1
    /\ wake' = IF size = 0 \/ Capacity = 1 THEN 1 ELSE wake
    /\ UNCHANGED <<head, closed, worker, taken>>

\* Push: a full ring first drops its oldest packet; only a push into an
\* empty ring notifies.
Push(x) ==
    /\ pushed < MaxPush
    /\ pushed' = pushed + 1
    /\ ~closed
    /\ LET full == size = Capacity
           h == IF full THEN (head + 1) % Capacity ELSE head
           n == IF full THEN size - 1 ELSE size
           kept == IF full THEN [items EXCEPT ![head] = Empty] ELSE items
       IN  /\ items' = [kept EXCEPT ![(h + n) % Capacity] = x]
           /\ head' = h
           /\ size' = n + 1
           /\ wake' = IF n = 0 THEN 1 ELSE wake
    /\ UNCHANGED <<closed, worker, taken>>

\* A router with an old membership snapshot pushes into a closed ring.
PushClosed ==
    /\ pushed < MaxPush
    /\ pushed' = pushed + 1
    /\ closed
    /\ UNCHANGED <<ring, wake, worker, taken>>

\* pop finds a packet and hands it to the send worker.
PopTake ==
    /\ worker = "look"
    /\ ~closed /\ open /\ size # 0
    /\ worker' = "held"
    /\ taken' = Append(taken, items[head])
    /\ items' = [items EXCEPT ![head] = Empty]
    /\ head' = Slot(1)
    /\ size' = size - 1
    /\ UNCHANGED <<closed, wake, pushed>>

\* pop finds the ring empty and releases the lock.
PopEmpty ==
    /\ worker = "look"
    /\ ~closed /\ open /\ size = 0
    /\ worker' = "wait"
    /\ UNCHANGED <<ring, wake, taken, pushed>>

PopWoken ==
    /\ worker = "wait"
    /\ wake = 1
    /\ wake' = 0
    /\ worker' = "look"
    /\ UNCHANGED <<ring, taken, pushed>>

\* Close abandons the queued voice and wakes the consumer.
Close ==
    /\ closed' = TRUE
    /\ items' = [i \in Slots |-> Empty]
    /\ size' = 0
    /\ wake' = 1
    /\ UNCHANGED <<head, taken, pushed>>

\* pop sees the ring closed or the connection gone, or is cancelled while
\* it waits; sendVoiceSource returns and SendVoiceRing closes the ring.
PopEnds ==
    /\ \/ worker = "look" /\ (closed \/ ~open)
       \/ worker = "wait" /\ ~open
    /\ worker' = "done"
    /\ Close

-----------------------------------------------------------------------------
(* Properties.                                                             *)

\* Every variable of the ring has its type: it never counts more than its
\* slots and the wake channel never holds more than its one token.
RingTypeOK ==
    /\ items \in [Slots -> Packets \cup {Empty}]
    /\ head \in Slots /\ size \in 0 .. Capacity
    /\ closed \in BOOLEAN
    /\ wake \in 0 .. 1
    /\ taken \in Seq(Packets \cup {Empty})
    /\ pushed \in Nat

\* No lost wake-up: between the unlock and the wait in pop a producer or a
\* Close may run, but then a wake token is there to be received.
WakeNotLost == worker = "wait" /\ (size # 0 \/ closed) => wake = 1

Queue == INSTANCE VoiceQueue
    WITH queue <- [i \in 1 .. size |-> items[Slot(i - 1)]], open <- ~closed

\* Head, size and modulo arithmetic implement the drop-oldest queue.
ImplementsVoiceQueue == Queue!QSpec
=============================================================================

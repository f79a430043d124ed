-------------------------- MODULE VoiceSenderProofs --------------------------
(***************************************************************************)
(* Proofs about the voice sender for any ring capacity, any packets, any   *)
(* timeout and any number of delayed callbacks: its invariants, the stall  *)
(* guard's promise, and that the ring's modulo arithmetic implements the   *)
(* drop-oldest queue.                                                      *)
(***************************************************************************)
EXTENDS VoiceSender, TLAPS

-----------------------------------------------------------------------------
(* Facts about the operators the model is built from.                      *)

(* % on the values a ring index takes before it is wrapped.                *)
LEMMA ModFacts ==
    ASSUME NEW c \in Nat \ {0}, NEW x \in Nat, x < c + c
    PROVE  x % c = IF x < c THEN x ELSE x - c
BY SMT

LEMMA AppendFacts ==
    ASSUME NEW S, NEW s \in Seq(S), NEW x \in S
    PROVE  /\ Append(s, x) \in Seq(S)
           /\ Len(s) \in Nat /\ Len(Append(s, x)) = Len(s) + 1
           /\ \A i \in 1 .. Len(s) : Append(s, x)[i] = s[i]
           /\ Append(s, x)[Len(s) + 1] = x
OBVIOUS

LEMMA TailFacts ==
    ASSUME NEW S, NEW s \in Seq(S), s # <<>>
    PROVE  /\ Tail(s) \in Seq(S) /\ Head(s) = s[1]
           /\ Len(Tail(s)) = Len(s) - 1
           /\ \A i \in 1 .. Len(s) - 1 : Tail(s)[i] = s[i + 1]
OBVIOUS

LEMMA SeqEqual ==
    ASSUME NEW S, NEW s \in Seq(S), NEW t \in Seq(S), Len(s) = Len(t),
           \A i \in 1 .. Len(s) : s[i] = t[i]
    PROVE  s = t
OBVIOUS

-----------------------------------------------------------------------------
(* A send in progress, and only it, has a deadline, and the deadline is    *)
(* what the send has left of its timeout.  A callback that closes the      *)
(* connection has tripped the guard, so there is one at most; a worker     *)
(* that has returned has stopped the guard; the context's call starts only *)
(* when the connection is done, which it stays.                            *)
GuardInv ==
    /\ worker = "sending" => deadline \in Ticks /\ elapsed + deadline = Timeout
    /\ worker # "sending" => deadline = None
    /\ closing > 0 => tripped
    /\ stopped <=> worker = "done"
    /\ watch = "started" => ~open

Inv == TypeOK /\ WakeNotLost /\ NothingLeftBehind /\ GuardInv

LEMMA InitInv == Init => Inv
<1> SUFFICES ASSUME Init PROVE Inv
  OBVIOUS
<1> USE RingAssumption, GuardAssumption DEF Init, RingInit, GuardInit, None, Ticks, Slots
<1>1. <<>> \in Seq(Packets \cup {Empty})
  OBVIOUS
<1>2. TypeOK
  BY <1>1 DEF TypeOK, RingTypeOK, GuardTypeOK, Stages
<1>3. WakeNotLost /\ NothingLeftBehind /\ GuardInv
  BY DEF WakeNotLost, NothingLeftBehind, GuardInv
<1> QED
  BY <1>2, <1>3 DEF Inv

(* Every step of the ring keeps the ring's types: the ring never counts    *)
(* more packets than it has slots.                                         *)
LEMMA PushType ==
    ASSUME RingTypeOK, NEW x \in Packets, Push(x)
    PROVE  RingTypeOK'
<1> USE RingAssumption DEF RingTypeOK, Push, Slots
<1>1. CASE size = Capacity
  <2>1. (head + 1) % Capacity \in Slots
    BY <1>1, ModFacts
  <2>2. (((head + 1) % Capacity) + (size - 1)) % Capacity \in Slots
    BY <1>1, <2>1, ModFacts
  <2> QED
    BY <1>1, <2>1, <2>2
<1>2. CASE size # Capacity
  <2>1. (head + size) % Capacity \in Slots
    BY <1>2, ModFacts
  <2> QED
    BY <1>2, <2>1
<1> QED
  BY <1>1, <1>2

LEMMA PopTakeType ==
    ASSUME RingTypeOK, PopTake
    PROVE  RingTypeOK'
<1> USE RingAssumption DEF RingTypeOK, PopTake, Slots, Slot
<1>1. items[head] \in Packets \cup {Empty}
  OBVIOUS
<1>2. taken' \in Seq(Packets \cup {Empty})
  BY <1>1, AppendFacts
<1>3. (head + 1) % Capacity \in Slots
  BY ModFacts
<1> QED
  BY <1>2, <1>3

LEMMA CloseType ==
    ASSUME RingTypeOK, Close
    PROVE  RingTypeOK'
BY RingAssumption DEF RingTypeOK, Close, Slots

LEMMA RingUnchanged ==
    ASSUME Inv, UNCHANGED ringVars
    PROVE  /\ RingTypeOK'
           /\ worker' # "wait" => WakeNotLost'
           /\ worker' = worker => WakeNotLost'
           /\ worker' # "done" => NothingLeftBehind'
           /\ worker' = worker => NothingLeftBehind'
BY DEF Inv, TypeOK, RingTypeOK, ringVars, ring, WakeNotLost, NothingLeftBehind

(* The ring's steps.                                                       *)
LEMMA ProducersInv == ASSUME Inv, Producers PROVE Inv'
<1> USE DEF Inv
<1>1. /\ GuardTypeOK' /\ open' \in BOOLEAN
      /\ worker' = worker /\ worker' \in Stages
      /\ GuardInv'
  BY DEF TypeOK, Producers, guardVars, guard, calls, GuardTypeOK, GuardInv,
         Push, PushClosed, Close
<1>2. CASE \E x \in Packets : Push(x)
  <2> PICK x \in Packets : Push(x)
    BY <1>2
  <2>1. RingTypeOK'
    BY PushType DEF TypeOK
  <2>2. WakeNotLost' /\ NothingLeftBehind'
    <3> USE RingAssumption DEF TypeOK, RingTypeOK, WakeNotLost, NothingLeftBehind, Push
    <3>1. ~closed /\ closed' = closed /\ worker' = worker
      OBVIOUS
    <3>2. wake' = 1 \/ (wake' = wake /\ size # 0)
      OBVIOUS
    <3> QED
      BY <3>1, <3>2
  <2> QED
    BY <1>1, <2>1, <2>2 DEF TypeOK
<1>3. CASE PushClosed
  <2>1. RingTypeOK'
    BY <1>3 DEF TypeOK, RingTypeOK, PushClosed, ring
  <2>2. WakeNotLost' /\ NothingLeftBehind'
    BY <1>3 DEF WakeNotLost, NothingLeftBehind, PushClosed, ring
  <2> QED
    BY <1>1, <2>1, <2>2 DEF TypeOK
<1>4. CASE Close
  <2>1. RingTypeOK'
    BY <1>4, CloseType DEF TypeOK
  <2>2. WakeNotLost' /\ NothingLeftBehind'
    BY <1>4 DEF WakeNotLost, NothingLeftBehind, Close
  <2> QED
    BY <1>1, <2>1, <2>2 DEF TypeOK
<1> QED
  BY <1>2, <1>3, <1>4 DEF Producers

LEMMA PoppingInv == ASSUME Inv, Popping PROVE Inv'
<1> USE DEF Inv
<1>1. GuardTypeOK' /\ open' \in BOOLEAN /\ worker' \in Stages /\ GuardInv'
  <2>1. /\ UNCHANGED <<deadline, timer, tripped, stopped, callbacks, watch, closing, elapsed, open>>
        /\ worker \in {"look", "wait"} /\ worker' \in {"look", "wait", "held"}
    BY DEF Popping, guardVars, guard, calls, PopTake, PopEmpty, PopWoken
  <2> QED
    BY <2>1 DEF TypeOK, Stages, GuardTypeOK, GuardInv
<1>2. RingTypeOK'
  <2>1. CASE PopTake
    BY <2>1, PopTakeType DEF TypeOK
  <2>2. CASE PopEmpty
    BY <2>2 DEF TypeOK, RingTypeOK, PopEmpty, ring
  <2>3. CASE PopWoken
    BY <2>3 DEF TypeOK, RingTypeOK, PopWoken, ring
  <2> QED
    BY <2>1, <2>2, <2>3 DEF Popping
<1>3. WakeNotLost' /\ NothingLeftBehind'
  BY DEF Popping, WakeNotLost, NothingLeftBehind, PopTake, PopEmpty, PopWoken, ring
<1> QED
  BY <1>1, <1>2, <1>3 DEF TypeOK

LEMMA StopInv ==
    ASSUME Inv, worker # "done", Stop, open' \in BOOLEAN, open' => open
    PROVE  GuardTypeOK' /\ GuardInv' /\ worker' = "done"
BY GuardAssumption DEF Inv, TypeOK, GuardTypeOK, GuardInv, Stop, Ticks, None

LEMMA PassInv == ASSUME Inv, Pass PROVE Inv'
<1> USE GuardAssumption DEF Inv
<1>1. worker' \in Stages \ {"wait", "done"} /\ open' \in BOOLEAN
  BY DEF Pass, DiscardStale, Begin, EndHealthy, Stages, TypeOK
<1>2. GuardTypeOK' /\ GuardInv'
  BY DEF Pass, DiscardStale, Begin, EndHealthy, guardVars, guard, calls,
         TypeOK, GuardTypeOK, GuardInv, Ticks, None
<1>3. UNCHANGED ringVars
  BY DEF Pass
<1> QED
  BY <1>1, <1>2, <1>3, RingUnchanged DEF TypeOK

LEMMA EndsInv == ASSUME Inv, NoNext \/ Gone \/ Broken PROVE Inv'
<1>1. Close /\ Stop /\ worker # "done"
  BY DEF NoNext, PopEnds, Gone, Refused, Broken, EndBroken
<1>2. open' \in BOOLEAN /\ (open' => open)
  <2>1. open' = open \/ open' = (open /\ tripped)
    BY DEF NoNext, Gone, Refused, Broken, EndBroken
  <2>2. open \in BOOLEAN /\ tripped \in BOOLEAN
    BY DEF Inv, TypeOK, GuardTypeOK
  <2>3. open' \in BOOLEAN
    BY <2>1, <2>2
  <2>4. open' => open
    BY <2>1, <2>2
  <2> QED
    BY <2>3, <2>4
<1>3. RingTypeOK'
  BY <1>1, CloseType DEF Inv, TypeOK
<1>4. GuardTypeOK' /\ GuardInv' /\ worker' = "done"
  BY <1>1, <1>2, StopInv
<1>5. WakeNotLost' /\ NothingLeftBehind'
  BY <1>1, <1>4 DEF Close, WakeNotLost, NothingLeftBehind
<1> QED
  BY <1>2, <1>3, <1>4, <1>5 DEF Inv, TypeOK, Stages

(* expire trips the guard of a send whose deadline has come or whose       *)
(* connection is done, once, or changes nothing.                           *)
LEMMA ExpireFacts ==
    ASSUME Inv, NEW c \in BOOLEAN, Expire(c)
    PROVE  \/ /\ tripped = FALSE /\ tripped' = TRUE /\ closing' = closing + 1
              /\ deadline # None /\ (c = TRUE \/ deadline = 0)
           \/ tripped' = tripped /\ closing' = closing
<1> DEFINE closeConn == /\ ~stopped /\ ~tripped /\ deadline # None
                        /\ c \/ deadline = 0
<1>1. /\ tripped' = (tripped \/ closeConn)
      /\ closing' = IF closeConn THEN closing + 1 ELSE closing
  BY DEF Expire
<1>2. tripped \in BOOLEAN
  BY DEF Inv, TypeOK, GuardTypeOK
<1>3. CASE closeConn
  <2>1. tripped' = TRUE /\ tripped = FALSE /\ closing' = closing + 1
    BY <1>1, <1>2, <1>3, Zenon
  <2> QED
    BY <1>3, <2>1
<1>4. CASE ~closeConn
  <2>1. tripped' = tripped /\ closing' = closing
    BY <1>1, <1>2, <1>4, Zenon
  <2> QED
    BY <2>1
<1> QED
  BY <1>3, <1>4

LEMMA CallbacksInv == ASSUME Inv, Callbacks PROVE Inv'
<1> USE GuardAssumption DEF Inv, TypeOK, Ticks, None
<1>1. worker' = worker /\ open' \in BOOLEAN /\ UNCHANGED ringVars
  BY DEF Callbacks, Tick, TimerFires, WatchFires, TimerExpires, WatchExpires,
         CloseConn, ConnectionEnds
<1> SUFFICES GuardTypeOK' /\ GuardInv'
  BY <1>1, RingUnchanged
<1>2. CASE Tick
  BY <1>2 DEF Tick, GuardTypeOK, GuardInv, calls
<1>3. CASE TimerFires
  BY <1>3 DEF TimerFires, GuardTypeOK, GuardInv
<1>4. CASE WatchFires
  BY <1>4 DEF WatchFires, GuardTypeOK, GuardInv, guard
<1>5. CASE TimerExpires
  <2>1. \/ tripped = FALSE /\ tripped' = TRUE /\ closing' = closing + 1 /\ deadline # None
        \/ tripped' = tripped /\ closing' = closing
    BY <1>5, ExpireFacts DEF TimerExpires
  <2>2. tripped' \in BOOLEAN
    BY <2>1 DEF GuardTypeOK
  <2>3. closing' > 0 => tripped'
    BY <2>1 DEF GuardTypeOK, GuardInv
  <2>4. closing' \in 0 .. 1
    BY <2>1 DEF GuardTypeOK, GuardInv
  <2> QED
    BY <1>5, <2>2, <2>3, <2>4 DEF TimerExpires, GuardTypeOK, GuardInv
<1>6. CASE WatchExpires
  <2>1. \/ tripped = FALSE /\ tripped' = TRUE /\ closing' = closing + 1 /\ deadline # None
        \/ tripped' = tripped /\ closing' = closing
    BY <1>6, ExpireFacts DEF WatchExpires
  <2>2. tripped' \in BOOLEAN
    BY <2>1 DEF GuardTypeOK
  <2>3. closing' > 0 => tripped'
    BY <2>1 DEF GuardTypeOK, GuardInv
  <2>4. closing' \in 0 .. 1
    BY <2>1 DEF GuardTypeOK, GuardInv
  <2> QED
    BY <1>6, <2>2, <2>3, <2>4 DEF WatchExpires, GuardTypeOK, GuardInv
<1>7. CASE CloseConn
  BY <1>7 DEF CloseConn, GuardTypeOK, GuardInv, guard
<1>8. CASE ConnectionEnds
  BY <1>8 DEF ConnectionEnds, GuardTypeOK, GuardInv, guard, calls
<1> QED
  BY <1>2, <1>3, <1>4, <1>5, <1>6, <1>7, <1>8 DEF Callbacks

LEMMA StepInv == Inv /\ [Next]_vars => Inv'
<1> SUFFICES ASSUME Inv, [Next]_vars PROVE Inv'
  OBVIOUS
<1>1. CASE UNCHANGED vars
  <2>1. UNCHANGED <<worker, open>> /\ UNCHANGED ringVars /\ UNCHANGED guardVars
    BY <1>1 DEF vars
  <2>2. GuardTypeOK' /\ GuardInv'
    BY <2>1 DEF Inv, TypeOK, GuardTypeOK, GuardInv, guardVars, guard, calls
  <2> QED
    BY <2>1, <2>2, RingUnchanged DEF Inv, TypeOK
<1> QED
  BY <1>1, ProducersInv, PoppingInv, PassInv, EndsInv, CallbacksInv DEF Next

LEMMA InvHolds == Spec => []Inv
  BY InitInv, StepInv, PTL DEF Spec

-----------------------------------------------------------------------------
(* The theorems.                                                           *)

(* The worker, the ring and the guard keep their types: the ring never     *)
(* counts more packets than it has slots, its wake channel never holds     *)
(* more than its one token, and one callback at most closes the connection. *)
THEOREM TypeCorrect == Spec => []TypeOK
<1>1. Inv => TypeOK
  BY DEF Inv
<1> QED
  BY InvHolds, <1>1, PTL

(* pop does not lose a wake-up: whatever Push or Close runs between its    *)
(* unlock and its wait on the wake channel, a token is there when the ring *)
(* has a packet or is closed.                                              *)
THEOREM NoLostWakeUp == Spec => []WakeNotLost
<1>1. Inv => WakeNotLost
  BY DEF Inv
<1> QED
  BY InvHolds, <1>1, PTL

(* Every way out of sendVoiceSource leaves the ring closed and empty, and  *)
(* no later Push of a router refills it.                                   *)
THEOREM RingLeftEmpty == Spec => []NothingLeftBehind
<1>1. Inv => NothingLeftBehind
  BY DEF Inv
<1> QED
  BY InvHolds, <1>1, PTL

(* A callback of an earlier send's timer, however late it gets g.mu, does  *)
(* not close a healthy later send: the guard trips only on a send that has *)
(* used up its own timeout or whose connection is done.                    *)
THEOREM GuardTripsOnlyStalled == Spec => OnlyStalledTrips
<1> DEFINE A == ~tripped /\ tripped' => worker = "sending" /\ (elapsed = Timeout \/ ~open)
<1>1. ASSUME Inv, Next, ~tripped, tripped'
      PROVE  worker = "sending" /\ (elapsed = Timeout \/ ~open)
  <2>1. tripped' # tripped
    BY <1>1
  <2>2. CASE TimerExpires
    <3>1. deadline # None /\ deadline = 0
      BY <1>1, <2>1, <2>2, ExpireFacts DEF TimerExpires
    <3> QED
      BY <1>1, <3>1, GuardAssumption DEF Inv, GuardInv, TypeOK, GuardTypeOK, Ticks
  <2>3. CASE WatchExpires
    <3>1. deadline # None
      BY <1>1, <2>1, <2>3, ExpireFacts DEF WatchExpires
    <3> QED
      BY <1>1, <2>3, <3>1 DEF WatchExpires, Inv, GuardInv
  <2>4. CASE ~TimerExpires /\ ~WatchExpires
    BY <1>1, <2>1, <2>4 DEF Next, Producers, Popping, Pass, DiscardStale, Begin, EndHealthy,
       NoNext, Gone, Refused, Broken, EndBroken, Stop, Callbacks, Tick, TimerFires,
       WatchFires, CloseConn, ConnectionEnds, guardVars, guard
  <2> QED
    BY <2>2, <2>3, <2>4
<1>2. ASSUME UNCHANGED vars PROVE UNCHANGED <<worker, open, guardVars>>
  BY <1>2 DEF vars
<1>3. Inv /\ [Next]_vars => [A]_<<worker, open, guardVars>>
  BY <1>1, <1>2
<1> QED
  BY <1>3, InvHolds, PTL DEF Spec, OnlyStalledTrips
-----------------------------------------------------------------------------
(* The refinement: the slots from head on, wrapped, are the queue.         *)

(* The n slots of it from h on, wrapped.                                   *)
Wrapped(it, h, n) == [i \in 1 .. n |-> it[(h + (i - 1)) % Capacity]]

Held == Packets \cup {Empty}

QueueOf == Wrapped(items, head, size)

LEMMA Wraps ==
    ASSUME NEW h \in Slots, NEW k \in 0 .. Capacity
    PROVE  /\ (h + k) % Capacity = IF h + k < Capacity THEN h + k ELSE h + k - Capacity
           /\ (h + k) % Capacity \in Slots
<1>1. h + k \in Nat /\ h + k < Capacity + Capacity /\ Capacity \in Nat \ {0}
  BY RingAssumption DEF Slots
<1>2. \A x \in Nat : x < Capacity + Capacity => x % Capacity = IF x < Capacity THEN x ELSE x - Capacity
  BY <1>1, ModFacts
<1>3. (h + k) % Capacity = IF h + k < Capacity THEN h + k ELSE h + k - Capacity
  BY <1>1, <1>2, RingAssumption DEF Slots
<1> QED
  BY <1>1, <1>3 DEF Slots

LEMMA WrappedFacts ==
    ASSUME NEW it \in [Slots -> Held], NEW h \in Slots, NEW n \in 0 .. Capacity
    PROVE  /\ Wrapped(it, h, n) \in Seq(Held)
           /\ Len(Wrapped(it, h, n)) = n
           /\ \A i \in 1 .. n : Wrapped(it, h, n)[i] = it[(h + (i - 1)) % Capacity]
<1>1. \A i \in 1 .. n : it[(h + (i - 1)) % Capacity] \in Held
  <2> SUFFICES ASSUME NEW i \in 1 .. n PROVE it[(h + (i - 1)) % Capacity] \in Held
    OBVIOUS
  <2>1. i - 1 \in 0 .. Capacity
    BY RingAssumption
  <2>2. (h + (i - 1)) % Capacity \in Slots
    BY <2>1, Wraps
  <2> QED
    BY <2>2
<1>2. Wrapped(it, h, n) \in [1 .. n -> Held] /\ n \in Nat
  BY <1>1, RingAssumption DEF Wrapped
<1>3. Wrapped(it, h, n) \in Seq(Held) /\ Len(Wrapped(it, h, n)) = n
  BY <1>2
<1> QED
  BY <1>3 DEF Wrapped

(* Writing the slot behind the last one appends.                           *)
LEMMA WrappedAppend ==
    ASSUME NEW it \in [Slots -> Held], NEW h \in Slots, NEW n \in 0 .. Capacity - 1,
           NEW x \in Held
    PROVE  Wrapped([it EXCEPT ![(h + n) % Capacity] = x], h, n + 1)
              = Append(Wrapped(it, h, n), x)
<1> DEFINE k == (h + n) % Capacity
           new == [it EXCEPT ![k] = x]
           s == Wrapped(it, h, n)
           t == Wrapped(new, h, n + 1)
<1>1. n \in 0 .. Capacity /\ n + 1 \in 0 .. Capacity /\ n \in Nat
  BY RingAssumption
<1>2. k = (IF h + n < Capacity THEN h + n ELSE h + n - Capacity) /\ k \in Slots
  BY <1>1, Wraps
<1>3. new \in [Slots -> Held] /\ new[k] = x
  BY <1>2
<1>4. /\ t \in Seq(Held) /\ Len(t) = n + 1
      /\ \A i \in 1 .. n + 1 : t[i] = new[(h + (i - 1)) % Capacity]
  BY <1>1, <1>3, WrappedFacts
<1>5. /\ s \in Seq(Held) /\ Len(s) = n
      /\ \A i \in 1 .. n : s[i] = it[(h + (i - 1)) % Capacity]
  BY <1>1, WrappedFacts
<1>6. /\ Append(s, x) \in Seq(Held) /\ Len(Append(s, x)) = n + 1
      /\ \A i \in 1 .. n : Append(s, x)[i] = s[i]
      /\ Append(s, x)[n + 1] = x
  BY <1>5, AppendFacts
<1>7. ASSUME NEW i \in 1 .. n + 1 PROVE t[i] = Append(s, x)[i]
  <2> DEFINE j == (h + (i - 1)) % Capacity
  <2>1. i - 1 \in 0 .. Capacity
    BY <1>1, RingAssumption
  <2>2. j = (IF h + (i - 1) < Capacity THEN h + (i - 1) ELSE h + (i - 1) - Capacity) /\ j \in Slots
    BY <2>1, Wraps
  <2>3. CASE i = n + 1
    <3>1. j = k
      BY <1>1, <1>2, <2>2, <2>3, RingAssumption DEF Slots
    <3> QED
      BY <1>3, <1>4, <1>6, <2>3, <3>1
  <2>4. CASE i # n + 1
    <3>1. j # k /\ i \in 1 .. n
      BY <1>1, <1>2, <2>2, <2>4, RingAssumption DEF Slots
    <3>2. new[j] = it[j]
      BY <2>2, <3>1
    <3> QED
      BY <1>4, <1>5, <1>6, <3>1, <3>2
  <2> QED
    BY <2>3, <2>4
<1> HIDE DEF s, t
<1>8. t = Append(s, x)
  BY <1>4, <1>6, <1>7, SeqEqual
<1> QED
  BY <1>8 DEF s, t

(* Clearing the first slot and moving on to the next leaves the tail.      *)
LEMMA WrappedTail ==
    ASSUME NEW it \in [Slots -> Held], NEW h \in Slots, NEW n \in 1 .. Capacity
    PROVE  /\ Wrapped(it, h, n) # <<>>
           /\ Head(Wrapped(it, h, n)) = it[h]
           /\ Wrapped([it EXCEPT ![h] = Empty], (h + 1) % Capacity, n - 1)
                 = Tail(Wrapped(it, h, n))
<1> DEFINE g == (h + 1) % Capacity
           new == [it EXCEPT ![h] = Empty]
           s == Wrapped(it, h, n)
           t == Wrapped(new, g, n - 1)
<1>1. n \in 0 .. Capacity /\ n - 1 \in 0 .. Capacity /\ n \in Nat /\ 1 \in 0 .. Capacity
  BY RingAssumption
<1>2. g = (IF h + 1 < Capacity THEN h + 1 ELSE h + 1 - Capacity) /\ g \in Slots
  BY <1>1, Wraps
<1>3. new \in [Slots -> Held]
  BY DEF Held
<1>4. /\ t \in Seq(Held) /\ Len(t) = n - 1
      /\ \A i \in 1 .. n - 1 : t[i] = new[(g + (i - 1)) % Capacity]
  BY <1>1, <1>2, <1>3, WrappedFacts
<1>5. /\ s \in Seq(Held) /\ Len(s) = n
      /\ \A i \in 1 .. n : s[i] = it[(h + (i - 1)) % Capacity]
  BY <1>1, WrappedFacts
<1>6. s # <<>>
  BY <1>1, <1>5
<1>7. /\ Tail(s) \in Seq(Held) /\ Len(Tail(s)) = n - 1 /\ Head(s) = s[1]
      /\ \A i \in 1 .. n - 1 : Tail(s)[i] = s[i + 1]
  BY <1>5, <1>6, TailFacts
<1>8. s[1] = it[h]
  <2>1. 1 \in 1 .. n /\ 1 - 1 = 0 /\ 0 \in 0 .. Capacity
    BY <1>1, RingAssumption
  <2>2. h + 0 = h /\ h < Capacity
    BY RingAssumption DEF Slots
  <2>3. (h + (1 - 1)) % Capacity = h
    BY <2>1, <2>2, Wraps
  <2> QED
    BY <1>5, <2>1, <2>3
<1>9. ASSUME NEW i \in 1 .. n - 1 PROVE t[i] = Tail(s)[i]
  <2> DEFINE j == (g + (i - 1)) % Capacity
             l == (h + ((i + 1) - 1)) % Capacity
  <2>1. i - 1 \in 0 .. Capacity /\ (i + 1) - 1 \in 0 .. Capacity /\ i + 1 \in 1 .. n
    BY <1>1, RingAssumption
  <2>2. j = (IF g + (i - 1) < Capacity THEN g + (i - 1) ELSE g + (i - 1) - Capacity) /\ j \in Slots
    BY <1>2, <2>1, Wraps
  <2>3. l = (IF h + ((i + 1) - 1) < Capacity THEN h + ((i + 1) - 1) ELSE h + ((i + 1) - 1) - Capacity)
    BY <2>1, Wraps
  <2>4. j = l /\ j # h
    BY <1>1, <1>2, <2>2, <2>3, RingAssumption, SMTT(30) DEF Slots
  <2>5. new[j] = it[j]
    BY <2>2, <2>4
  <2>6. Tail(s)[i] = it[l]
    BY <1>5, <1>7, <2>1
  <2> QED
    BY <1>4, <2>4, <2>5, <2>6
<1> HIDE DEF s, t
<1>10. t = Tail(s)
  BY <1>4, <1>7, <1>9, SeqEqual
<1> QED
  BY <1>6, <1>7, <1>8, <1>10 DEF s, t

(* A push into a ring with room appends; into a full one it appends to     *)
(* the tail.                                                               *)
LEMMA PushQueues ==
    ASSUME RingTypeOK, NEW x \in Packets, Push(x)
    PROVE  QueueOf' = IF Len(QueueOf) = Capacity THEN Append(Tail(QueueOf), x)
                      ELSE Append(QueueOf, x)
<1>1. /\ items \in [Slots -> Held] /\ head \in Slots /\ size \in 0 .. Capacity
      /\ x \in Held /\ Capacity \in Nat \ {0}
  BY RingAssumption DEF RingTypeOK, Held
<1>2. Len(QueueOf) = size
  BY <1>1, WrappedFacts DEF QueueOf
<1>3. CASE size = Capacity
  <2> DEFINE h == (head + 1) % Capacity
             kept == [items EXCEPT ![head] = Empty]
  <2>1. /\ items' = [kept EXCEPT ![(h + (size - 1)) % Capacity] = x]
        /\ head' = h /\ size' = (size - 1) + 1
    BY <1>3 DEF Push
  <2>2. size \in 1 .. Capacity /\ size - 1 \in 0 .. Capacity - 1 /\ 1 \in 0 .. Capacity
    BY <1>1, <1>3
  <2>3. kept \in [Slots -> Held] /\ h \in Slots
    BY <1>1, <2>2, Wraps DEF Held
  <2>4. Wrapped(kept, h, size - 1) = Tail(QueueOf)
    BY <1>1, <2>2, WrappedTail DEF QueueOf
  <2> HIDE DEF kept, h
  <2>5. Wrapped(items', head', size') = Append(Wrapped(kept, h, size - 1), x)
    BY <1>1, <2>1, <2>2, <2>3, WrappedAppend
  <2> QED
    BY <1>2, <1>3, <2>4, <2>5 DEF QueueOf
<1>4. CASE size # Capacity
  <2>1. /\ items' = [items EXCEPT ![(head + size) % Capacity] = x]
        /\ head' = head /\ size' = size + 1
    BY <1>4 DEF Push
  <2>2. size \in 0 .. Capacity - 1
    BY <1>1, <1>4
  <2> QED
    BY <1>1, <1>2, <1>4, <2>1, <2>2, WrappedAppend DEF QueueOf
<1> QED
  BY <1>3, <1>4

(* pop returns the head and leaves the tail.                               *)
LEMMA PopDequeues ==
    ASSUME RingTypeOK, PopTake
    PROVE  /\ QueueOf # <<>>
           /\ taken' = Append(taken, Head(QueueOf))
           /\ QueueOf' = Tail(QueueOf)
<1>1. items \in [Slots -> Held] /\ head \in Slots /\ size \in 1 .. Capacity
  BY RingAssumption DEF RingTypeOK, Held, PopTake
<1> QED
  BY <1>1, WrappedTail DEF QueueOf, PopTake, Slot

LEMMA CloseEmpties ==
    ASSUME Close
    PROVE  QueueOf' = <<>> /\ closed' = TRUE /\ taken' = taken
BY DEF Close, QueueOf, Wrapped

(* A step that leaves the ring's variables alone leaves the queue alone.   *)
LEMMA RingIdle ==
    ASSUME UNCHANGED ring, UNCHANGED taken
    PROVE  UNCHANGED <<QueueOf, ~closed, taken>>
BY DEF ring, QueueOf

(* Every step is one of the queue's or leaves it as it was.                *)
LEMMA StepRefines ==
    ASSUME Inv, [Next]_vars
    PROVE  [Queue!QNext]_<<QueueOf, ~closed, taken>>
<1>1. RingTypeOK
  BY DEF Inv, TypeOK
<1>Q. QueueOf = [i \in 1 .. size |-> items[Slot(i - 1)]]
  BY DEF QueueOf, Wrapped, Slot
<1>P. QueueOf' = [i \in 1 .. size |-> items[Slot(i - 1)]]'
  BY DEF QueueOf, Wrapped, Slot
<1> USE DEF Queue!QNext, Queue!QPush, Queue!QPop, Queue!QClose
<1>2. ASSUME NEW x \in Packets, Push(x) PROVE Queue!QPush(x)
  BY <1>1, <1>2, <1>Q, <1>P, PushQueues DEF Push
<1>3. CASE PopTake
  BY <1>1, <1>3, <1>Q, <1>P, PopDequeues DEF PopTake
<1>4. CASE Close
  BY <1>4, <1>P, CloseEmpties
<1>5. CASE UNCHANGED ring /\ UNCHANGED taken
  BY <1>5, RingIdle
<1>6. CASE UNCHANGED ringVars
  BY <1>5, <1>6 DEF ringVars
<1> QED
  BY <1>2, <1>3, <1>4, <1>5, <1>6 DEF Next, Producers, PushClosed, Popping, PopEmpty, PopWoken,
     Pass, NoNext, PopEnds, Gone, Broken, Callbacks, vars

(* The ring implements the bounded drop-oldest queue of VoiceQueue: packets *)
(* leave in the order they came, only the oldest of a full ring is dropped, *)
(* and a closed ring holds nothing, for every capacity and however often   *)
(* head wraps around.                                                      *)
THEOREM RingImplementsQueue == Spec => ImplementsVoiceQueue
<1>1. Init => Queue!QInit
  <2> SUFFICES ASSUME Init PROVE Queue!QInit
    OBVIOUS
  <2>1. [i \in 1 .. size |-> items[Slot(i - 1)]] = <<>>
    BY DEF Init, RingInit
  <2> QED
    BY <2>1 DEF Init, RingInit, Queue!QInit
<1>2. Inv /\ [Next]_vars => [Queue!QNext]_Queue!qvars
  BY StepRefines DEF QueueOf, Wrapped, Slot, Queue!qvars
<1> QED
  BY <1>1, <1>2, InvHolds, PTL DEF Spec, ImplementsVoiceQueue, Queue!QSpec
=============================================================================
